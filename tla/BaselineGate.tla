---------------------------- MODULE BaselineGate ----------------------------
(***************************************************************************)
(* What the investigation of a run promises (docs/architecture.md): an     *)
(* untrusted investigator may submit one failure contract; the controller  *)
(* judges that very contract by itself, in a clone of its own; and only    *)
(* when it passed is the baseline reproduced, which is what a patch needs. *)
(* Whatever else happens closes the gate for good.                         *)
(* Investigation implements this specification.                            *)
(***************************************************************************)
CONSTANTS
  Contract,     \* what an investigator may submit
  NoContract    \* nothing was submitted

VARIABLES
  phase,      \* how far the run has come
  contract,   \* the contract that was submitted
  verdict     \* the judgment of that contract

vars == <<phase, contract, verdict>>

Init ==
  /\ phase = "open"
  /\ contract = NoContract
  /\ verdict = "none"

Submit(c) ==
  /\ phase = "open"
  /\ phase' = "submitted"
  /\ contract' = c
  /\ UNCHANGED verdict

\* The judgment may come too late to matter.
Judge(v) ==
  /\ phase \in {"submitted", "closed"}
  /\ contract # NoContract
  /\ verdict = "none"
  /\ verdict' = v
  /\ UNCHANGED <<phase, contract>>

Reproduce ==
  /\ phase = "submitted"
  /\ verdict = "passed"
  /\ phase' = "reproduced"
  /\ UNCHANGED <<contract, verdict>>

\* A failure or an abort, even of a reproduced run.
Close ==
  /\ phase # "closed"
  /\ phase' = "closed"
  /\ UNCHANGED <<contract, verdict>>

Next ==
  \/ \E c \in Contract : Submit(c)
  \/ \E v \in {"passed", "failed"} : Judge(v)
  \/ Reproduce
  \/ Close

Spec == Init /\ [][Next]_vars
=============================================================================
