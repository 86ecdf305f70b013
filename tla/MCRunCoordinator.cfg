\* Two controllers and two runs of one repository; callers ask for PREFLIGHT, valid
\* only from CREATED, and for ABORTED, valid from both.
SPECIFICATION Spec
CONSTANTS
  Process = {p1, p2}
  Run = {r1, r2}
  Target = {"PREFLIGHT", "ABORTED"}
  MaxEvents = 3
  Nobody = Nobody
  NoJob = NoJob
  NoRow = NoRow
INVARIANTS
  EvidenceStaysDerivable
  IndexNeverAhead
PROPERTIES
  SuccessReconcilesIndex
  ImplementsLogs
  ImplementsLifecycle
