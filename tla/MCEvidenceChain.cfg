\* Two controllers that contend for the lock, one reader, chains of up to three
\* events of two kinds, and the code's own three snapshot attempts.
SPECIFICATION Spec
CONSTANTS
  Writer = {w1, w2}
  Reader = {r1}
  Event = {e1, e2}
  SnapshotAttempts = 3
  MaxEvents = 3
  Nobody = Nobody
  NoCheckpoint = NoCheckpoint
  NoLine = NoLine
INVARIANTS
  CheckpointNeverAhead
  AckedSurvives
  AcceptedSurvives
PROPERTIES
  FailsClosed
  QuietReadsSucceed
  ReadersReturn
  ImplementsLog
