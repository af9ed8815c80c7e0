--------------------------- MODULE MCContainerLock ---------------------------
(* Instances of ContainerLock for TLC.                                  *)
EXTENDS ContainerLock, TLC

Symmetry == Permutations(Requests) \cup Permutations(Workloads)
            \cup Permutations(Refs)

=============================================================================
