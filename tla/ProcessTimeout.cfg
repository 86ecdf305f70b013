\* A command that leaves a descendant behind which keeps a pipe open.
SPECIFICATION Spec
CONSTANTS
  Leader = leader
  Descendant = {child}
  Capacity = 1
  MaxWritten <- Written
  ReadSize = 2
  MaxOutput = 2
  InputSize = 2
PROPERTY
  TimeoutIsEnforced
\* A call may end while the processes it left behind do nothing more.
CHECK_DEADLOCK FALSE
