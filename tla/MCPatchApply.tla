---------------------------- MODULE MCPatchApply ----------------------------
(* PatchApply on a small instance. *)
EXTENDS PatchApply, TLC

CONSTANTS r1, r2, f1, f2

\* Each changes a file that the other does not, so that both could be applied.
TwoPatches == (r1 :> {f1}) @@ (r2 :> {f2})
=============================================================================
