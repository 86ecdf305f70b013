---------------------------- MODULE EvidenceLog ----------------------------
(***************************************************************************)
(* What the evidence store of one run promises, with files, hashes and     *)
(* checkpoints left out: a log that only grows while it is intact, that    *)
(* refuses every append once an interrupted write has damaged it, and      *)
(* whose readers either see exactly the committed log or are refused.      *)
(* EvidenceChain implements this specification.                            *)
(***************************************************************************)
EXTENDS Naturals, Sequences

CONSTANTS
  Event,    \* the events the controller may record
  Reader    \* the processes that read evidence without a lock

VARIABLES
  log,      \* the committed events, in order
  sealed,   \* an interrupted write left the store inconsistent
  view      \* the last log each reader was given

vars == <<log, sealed, view>>

TypeOK ==
  /\ log \in Seq(Event)
  /\ sealed \in BOOLEAN
  /\ view \in [Reader -> Seq(Event)]

Init ==
  /\ log = <<>>
  /\ sealed = FALSE
  /\ view = [r \in Reader |-> <<>>]

\* One event is committed at the end of an intact log.
Commit(e) ==
  /\ ~sealed
  /\ log' = Append(log, e)
  /\ UNCHANGED <<sealed, view>>

\* A writer stopped half way: from here on nothing is committed or shown.
Seal ==
  /\ sealed' = TRUE
  /\ UNCHANGED <<log, view>>

\* A power failure dropped the unflushed half of the interrupted write.
Unseal ==
  /\ sealed
  /\ sealed' = FALSE
  /\ UNCHANGED <<log, view>>

\* A reader is given the whole committed log, never a part of it and never more.
Observe(r) ==
  /\ ~sealed
  /\ log # <<>>
  /\ view' = [view EXCEPT ![r] = log]
  /\ UNCHANGED <<log, sealed>>

Next ==
  \/ \E e \in Event : Commit(e)
  \/ Seal
  \/ Unseal
  \/ \E r \in Reader : Observe(r)

Spec == Init /\ [][Next]_vars

=============================================================================
