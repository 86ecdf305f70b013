-------------------------- MODULE MCInvestigation --------------------------
(* Small instances of Investigation for TLC. *)
EXTENDS Investigation
=============================================================================
