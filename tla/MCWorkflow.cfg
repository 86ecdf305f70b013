\* Two processes that compete for one run, and a retry after a rejected attempt.
SPECIFICATION Spec
CONSTANTS
  Process = {p1, p2}
  MaxAttempts = 2
  Nobody = Nobody
  NoReceipt = NoReceipt
INVARIANTS
  VerifiedPatchPassed
  CheckpointsLoad
PROPERTIES
  ImplementsRun
  ChangesAreAuthorised
  CleanSparesContainers
  CommandOfSomeoneEnds
