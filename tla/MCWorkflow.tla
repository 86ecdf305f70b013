----------------------------- MODULE MCWorkflow -----------------------------
(***************************************************************************)
(* Small instances of Workflow for TLC: two processes that compete for one *)
(* run, and the two attempts that a retry takes.                           *)
(***************************************************************************)
EXTENDS Workflow

\* Every command ends.  The specification treats the processes alike, so that what
\* holds for one holds for each; TLC then follows one eventuality only.
Someone == CHOOSE p \in Process : TRUE
CommandOfSomeoneEnds == CommandEnds(Someone)
=============================================================================
