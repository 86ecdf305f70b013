\* Four files, all that may become of them, and policies of one allowed and at
\* most one denied pattern.
SPECIFICATION CaptureSpec
CONSTANTS
  Char <- Chars
  File <- Files
  Base <- Baseline
  Policy <- Policies
  MaxFiles = 2
INVARIANTS
  ParserReadsGit
  VerdictIsScope
\* A verdict is the end.
CHECK_DEADLOCK FALSE
