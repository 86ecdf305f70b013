----------------------------- MODULE MCGitClient -----------------------------
(* A small instance of both clients, and of the oracle that judges the outcome of one. *)
EXTENDS GitClient, MCProcessRunner
=============================================================================
