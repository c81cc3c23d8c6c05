----------------------------- MODULE Deployment -----------------------------
(***************************************************************************)
(* The constants every component shares: which files and providers there   *)
(* are, and how ids are shared out among the workers of a pool.            *)
(***************************************************************************)
EXTENDS Integers

CONSTANTS
  FileIds,         \* ids of the files that may be uploaded
  Bags,            \* bag ids
  Providers,       \* ton.KnownProviders, the keys built into the program
  TargetReplicas,  \* files.target_replicas: fixed when the row is inserted
  BagOf            \* files.bag_id; two files may have the same bag

ASSUME FileIdsAssumption == FileIds \subseteq Nat
ASSUME ProvidersAssumption == Providers # {}
ASSUME TargetAssumption == TargetReplicas \in [FileIds -> Int]
ASSUME BagAssumption == BagOf \in [FileIds -> Bags]

\* Mutant of InShare: every worker sees every row.
InShare_NoPartition(id, totalWorkers, workerID) == TRUE

\* Every pool query carries "id % total = worker": the rows a worker may see.
InShare(id, totalWorkers, workerID) == id % totalWorkers = workerID

\* ton.FindRandomProvider: any known provider that is not excluded; when all
\* are excluded, any known provider.
FindRandomProvider(exclude) ==
  IF Providers \ exclude # {} THEN Providers \ exclude ELSE Providers
=============================================================================
