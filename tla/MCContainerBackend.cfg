\* Two executions of a run and two containers, one of which may be somebody
\* else's and have the name of an execution.
SPECIFICATION Spec
CONSTANTS
  Execution = {x1, x2}
  Container = {c1, c2}
  NoContainer = NoContainer
SYMMETRY ContainerSymmetry
INVARIANTS
  ConfirmedIsGone
  TwoMishapsLeaveNothing
  AbortStopsRun
PROPERTIES
  ForeignUntouched
