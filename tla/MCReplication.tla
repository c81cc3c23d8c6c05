--------------------------- MODULE MCReplication ---------------------------
(***************************************************************************)
(* Instances of Replication for TLC.                                       *)
(***************************************************************************)
EXTENDS Replication, TLC

\* Every file wants one or two replicas; all files of the instance share one
\* bag.
Target1 == [f \in FileIds |-> 1]
Target2 == [f \in FileIds |-> 2]
OneBag == [f \in FileIds |-> CHOOSE b \in Bags : TRUE]
Symmetry == Permutations(Providers)
=============================================================================
