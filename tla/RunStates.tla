----------------------------- MODULE RunStates -----------------------------
(***************************************************************************)
(* The lifecycle states of a run and the transitions between them          *)
(* (models/state.py).                                                      *)
(***************************************************************************)

RunState ==
  {"CREATED", "PREFLIGHT", "BASELINE_PREPARING", "INVESTIGATING",
   "CONTRACT_SUBMITTED", "BASELINE_VERIFYING", "BASELINE_REPRODUCED",
   "BASELINE_NOT_REPRODUCED", "PATCH_PREPARING", "PATCHING", "PATCH_CAPTURED",
   "FINAL_VERIFYING", "VERIFIED", "REJECTED", "APPLIED", "ABORTED", "ERROR",
   "CLEANED"}

\* A run of which no evidence exists.
NoState == "none"

\* The states in which a run may still fail or be aborted.
Interruptible ==
  RunState \ {"BASELINE_NOT_REPRODUCED", "VERIFIED", "REJECTED", "APPLIED",
              "ABORTED", "ERROR", "CLEANED"}

\* The steps a run makes when nothing interrupts it.
Progress ==
  {<<"CREATED", "PREFLIGHT">>,
   <<"PREFLIGHT", "BASELINE_PREPARING">>,
   <<"BASELINE_PREPARING", "INVESTIGATING">>,
   <<"BASELINE_PREPARING", "BASELINE_VERIFYING">>,
   <<"INVESTIGATING", "CONTRACT_SUBMITTED">>,
   <<"CONTRACT_SUBMITTED", "BASELINE_VERIFYING">>,
   <<"CONTRACT_SUBMITTED", "REJECTED">>,
   <<"BASELINE_VERIFYING", "BASELINE_REPRODUCED">>,
   <<"BASELINE_VERIFYING", "BASELINE_NOT_REPRODUCED">>,
   <<"BASELINE_NOT_REPRODUCED", "REJECTED">>,
   <<"BASELINE_REPRODUCED", "PATCH_PREPARING">>,
   <<"PATCH_PREPARING", "PATCHING">>,
   <<"PATCHING", "PATCH_CAPTURED">>,
   <<"PATCHING", "REJECTED">>,
   <<"PATCH_CAPTURED", "FINAL_VERIFYING">>,
   <<"FINAL_VERIFYING", "VERIFIED">>,
   <<"FINAL_VERIFYING", "REJECTED">>,
   <<"VERIFIED", "APPLIED">>,
   <<"REJECTED", "PATCH_PREPARING">>}

\* VALID_TRANSITIONS, as a set of pairs.
ValidTransitions ==
  Progress
    \union (Interruptible \X {"ERROR", "ABORTED"})
    \union ({"VERIFIED", "REJECTED", "ABORTED", "ERROR", "APPLIED"} \X {"CLEANED"})

CanTransition(current, target) == <<current, target>> \in ValidTransitions
=============================================================================
