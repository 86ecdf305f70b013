---------------------------- MODULE PatchVerdict ----------------------------
(***************************************************************************)
(* What the verification of a candidate patch promises                     *)
(* (docs/architecture.md): the failure is observed without the patch; then *)
(* one patch is captured for good; and it is verified only when every      *)
(* oracle has passed on what it is meant for.  Anything else closes the    *)
(* run.  NativeVerification implements this specification, and says what   *)
(* each oracle is meant for.                                               *)
(***************************************************************************)
CONSTANTS
  Patch,      \* what may be captured
  NoPatch,    \* the unchanged baseline
  Baseline,   \* the oracle that observes the failure
  Required    \* the oracles that have to pass once there is a patch

VARIABLES
  phase,      \* how far the run has come
  patch,      \* the patch that was captured
  passed      \* the oracles that have passed, each on what it was meant for

vars == <<phase, patch, passed>>

Init ==
  /\ phase = "open"
  /\ patch = NoPatch
  /\ passed = {}

ObserveFailure ==
  /\ patch = NoPatch
  /\ passed' = {Baseline}
  /\ UNCHANGED <<phase, patch>>

Reproduce ==
  /\ phase = "open"
  /\ Baseline \in passed
  /\ phase' = "reproduced"
  /\ UNCHANGED <<patch, passed>>

Capture(p) ==
  /\ phase = "reproduced"
  /\ patch = NoPatch
  /\ patch' = p
  /\ UNCHANGED <<phase, passed>>

\* The observation may come too late to matter.
ObserveSuccess(o) ==
  /\ patch # NoPatch
  /\ passed' = passed \union {o}
  /\ UNCHANGED <<phase, patch>>

Verify ==
  /\ phase = "reproduced"
  /\ passed = Required \union {Baseline}
  /\ phase' = "verified"
  /\ UNCHANGED <<patch, passed>>

\* A rejection, a failure, an abort, or the end of a verified run.
Close ==
  /\ phase # "closed"
  /\ phase' = "closed"
  /\ UNCHANGED <<patch, passed>>

Next ==
  \/ ObserveFailure \/ Reproduce
  \/ \E p \in Patch : Capture(p)
  \/ \E o \in Required : ObserveSuccess(o)
  \/ Verify \/ Close

Spec == Init /\ [][Next]_vars
=============================================================================
