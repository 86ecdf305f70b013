------------------------------ MODULE PatchRun ------------------------------
(***************************************************************************)
(* What a run promises from its reproduced baseline on                     *)
(* (docs/architecture.md): each attempt captures at most one patch, which  *)
(* nothing replaces; only a patch that passed is verified; one receipt     *)
(* ends the attempts for good; and only the verified patch that the        *)
(* receipt names reaches the repository.  Whoever asks, whatever fails.    *)
(* Workflow implements this specification.                                 *)
(***************************************************************************)
EXTENDS Sequences

CONSTANTS
  Patch,    \* what the attempts may capture
  NoPatch   \* nothing is captured

VARIABLES
  phase,     \* how far the run has come
  patch,     \* the patch that is captured and has not been rejected
  tried,     \* all patches that were captured
  passed,    \* the patches that passed
  receipts,  \* the receipts that evidence binds
  branch     \* the branch for the patch in the user's repository

vars == <<phase, patch, tried, passed, receipts, branch>>

Init ==
  /\ phase = "open"
  /\ patch = NoPatch
  /\ tried = {}
  /\ passed = {}
  /\ receipts = <<>>
  /\ branch = "none"

Capture(p) ==
  /\ phase = "open"
  /\ p \notin tried
  /\ receipts = <<>>
  /\ phase' = "captured"
  /\ patch' = p
  /\ tried' = tried \union {p}
  /\ UNCHANGED <<passed, receipts, branch>>

\* The result may come too late to matter.
Pass(p) ==
  /\ phase = "closed" \/ (phase = "captured" /\ p = patch)
  /\ passed' = passed \union {p}
  /\ UNCHANGED <<phase, patch, tried, receipts, branch>>

Verify ==
  /\ phase = "captured"
  /\ patch \in passed
  /\ receipts = <<>>
  /\ phase' = "verified"
  /\ UNCHANGED <<patch, tried, passed, receipts, branch>>

Reject ==
  /\ phase \in {"open", "captured"}
  /\ phase' = "rejected"
  /\ patch' = NoPatch
  /\ UNCHANGED <<tried, passed, receipts, branch>>

Retry ==
  /\ phase = "rejected"
  /\ phase' = "open"
  /\ UNCHANGED <<patch, tried, passed, receipts, branch>>

\* The receipt of a rejected run names the last patch, if one was captured.
Bind(status, p) ==
  /\ receipts = <<>>
  /\ IF status = "verified" THEN phase = "verified" /\ p = patch
                            ELSE phase \in {"rejected", "closed"}
  /\ receipts' = <<[status |-> status, patch |-> p]>>
  /\ UNCHANGED <<phase, patch, tried, passed, branch>>

Authorised == phase = "verified" /\ receipts = <<[status |-> "verified", patch |-> patch]>>

\* The branch is created, patched, or given up again.
Touch(next) ==
  /\ Authorised
  /\ <<branch, next>> \in {<<"none", "created">>, <<"created", "patched">>, <<"created", "none">>}
  /\ branch' = next
  /\ UNCHANGED <<phase, patch, tried, passed, receipts>>

Apply ==
  /\ Authorised
  /\ branch = "patched"
  /\ phase' = "applied"
  /\ UNCHANGED <<patch, tried, passed, receipts, branch>>

\* An abort, an error, or a cleanup.
Close ==
  /\ phase # "closed"
  /\ phase' = "closed"
  /\ patch' = NoPatch
  /\ UNCHANGED <<tried, passed, receipts, branch>>

Next ==
  \/ \E p \in Patch : Capture(p) \/ Pass(p)
  \/ Verify \/ Reject \/ Retry
  \/ \E status \in {"verified", "rejected"}, p \in Patch \union {NoPatch} : Bind(status, p)
  \/ \E next \in {"none", "created", "patched"} : Touch(next)
  \/ Apply \/ Close

Spec == Init /\ [][Next]_vars
=============================================================================
