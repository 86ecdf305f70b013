-------------------------- MODULE MCProcessRunner --------------------------
(* Small instances of ProcessRunner. *)
EXTENDS ProcessRunner

\* A command without an input writes to both streams, enough to one of them for a read to
\* follow the one that the budget cuts; one with an input fills stdout only.
Written ==
  [has \in BOOLEAN |-> [s \in Stream |-> CASE s = "stderr" -> IF has THEN 0 ELSE 1
                                           [] s = "stdout" -> IF has THEN 1 ELSE 3]]
=============================================================================
