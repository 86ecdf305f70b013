\* The result of an execution whose container's name is taken.
SPECIFICATION Spec
CONSTANTS
  Execution = {x1}
  Container = {c1, c2}
  NoContainer = NoContainer
INVARIANT EachGetsItsContainer
