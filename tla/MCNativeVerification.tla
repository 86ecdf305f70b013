------------------------ MODULE MCNativeVerification ------------------------
(* Two patches, so that a file can hold another than the one that was checked. *)
EXTENDS NativeVerification
=============================================================================
