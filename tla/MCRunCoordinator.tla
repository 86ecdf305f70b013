------------------------- MODULE MCRunCoordinator -------------------------
(* A small instance of RunCoordinator for TLC. *)
EXTENDS RunCoordinator
=============================================================================
