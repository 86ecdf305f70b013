\* Two processes apply two runs, whose patches change one file each, to a
\* repository of two files in which the user makes a commit.
SPECIFICATION Spec
CONSTANTS
  Process = {p1, p2}
  r1 = r1
  r2 = r2
  f1 = f1
  f2 = f2
  Run = {r1, r2}
  File = {f1, f2}
  Touches <- TwoPatches
  Staged = {r2}
  MaxCommits = 1
  Main = main
  Detached = detached
  NoRun = NoRun
INVARIANTS
  RecordedIsApplied
  CommitsReachable
PROPERTIES
  PatchesDoNotMix
  UserEditsSurvive
\* Apply and the user both may have nothing left to do.
CHECK_DEADLOCK FALSE
