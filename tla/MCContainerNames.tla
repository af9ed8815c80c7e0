-------------------------- MODULE MCContainerNames --------------------------
(* Instances of ContainerNames for TLC.                                     *)
EXTENDS ContainerNames, TLC

Symmetry == Permutations(Requests) \cup Permutations(Uids)
            \cup Permutations(Names) \cup Permutations(Processes)

=============================================================================
