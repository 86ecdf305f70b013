\* Two regressions tell "all" from "the first" and from "the last".
CONSTANTS
  Patch = {p1, p2}
  NoPatch = NoPatch
  Regressions = 2
SPECIFICATION Spec
INVARIANTS
  ReceiptIsTrue
  OutcomeIsBacked
PROPERTY ImplementsVerdict
