--------------------------- MODULE RunLifecycle ---------------------------
(***************************************************************************)
(* What the coordinator promises its callers: every run is created once,   *)
(* in CREATED, and from then on changes state along the valid transitions  *)
(* only, one at a time, whoever asks for it and whatever crashes.          *)
(* RunCoordinator implements this specification.                           *)
(***************************************************************************)
EXTENDS RunStates

CONSTANT Run

VARIABLE state    \* the state of each run

Init == state = [r \in Run |-> NoState]

Create(r) ==
  /\ state[r] = NoState
  /\ state' = [state EXCEPT ![r] = "CREATED"]

Move(r, target) ==
  /\ CanTransition(state[r], target)
  /\ state' = [state EXCEPT ![r] = target]

Next ==
  \E r \in Run : Create(r) \/ \E target \in RunState : Move(r, target)

Spec == Init /\ [][Next]_state

TypeOK == state \in [Run -> RunState \union {NoState}]
=============================================================================
