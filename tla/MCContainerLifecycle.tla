------------------------ MODULE MCContainerLifecycle ------------------------
(* Instances of ContainerLifecycle for TLC.                                 *)
EXTENDS ContainerLifecycle, TLC

Symmetry == Permutations(Requests) \cup Permutations(Uids)

=============================================================================
