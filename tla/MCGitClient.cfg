\* A command with one descendant; each may fill its pipe, a read takes two units, and
\* together the streams may exceed the budget, or one of them its limit.
SPECIFICATION ClientSpec
CONSTANTS
  Leader = leader
  Descendant = {child}
  Capacity = 1
  MaxWritten <- Written
  ReadSize = 2
  MaxOutput = 2
  GitLimit = 1
  InputSize = 2
  ExitCode = {0, 1}
INVARIANTS
  OutcomeIsWhole
  CommandNeverWaits
  VerdictIsEarned
  GitIsOver
PROPERTY
  CallsReturn
\* A call may end while the processes it left behind do nothing more.
CHECK_DEADLOCK FALSE
