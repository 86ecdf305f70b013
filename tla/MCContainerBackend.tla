------------------------- MODULE MCContainerBackend -------------------------
(* ContainerBackend on a small instance. *)
EXTENDS ContainerBackend, TLC

\* Containers are interchangeable; there is no liveness property.
ContainerSymmetry == Permutations(Container)
=============================================================================
