-------------------------- MODULE MCEvidenceChain --------------------------
(* A small instance of EvidenceChain for TLC. *)
EXTENDS EvidenceChain
=============================================================================
