------------------------------ MODULE Database ------------------------------
(***************************************************************************)
(* The two PostgreSQL tables that carry the replication state, and the     *)
(* statements of internal/database that read and write them.               *)
(*                                                                         *)
(*   files      one row per uploaded object, status 'pending' or 'active'  *)
(*   contracts  one row per hired provider of a file, status 'pending',    *)
(*              'active' or 'failed'; deleted with its file (ON DELETE     *)
(*              CASCADE)                                                   *)
(*                                                                         *)
(* Every operation is one SQL statement, atomic unless it says otherwise.  *)
(* A statement that fails changes nothing; who calls it decides what a     *)
(* failure means.  Row ids come from a sequence and are never reused.      *)
(***************************************************************************)
EXTENDS Deployment, FiniteSets

CONSTANTS
  MaxContracts,    \* bound: the contracts sequence stops after this id
  ReplicationLimit \* LIMIT of the replicator's query (50)

ASSUME MaxContractsAssumption == MaxContracts \in Nat
ASSUME ReplicationLimitAssumption == ReplicationLimit \in Nat \ {0}

VARIABLES
  files,           \* [FileIds -> file status, "unborn" or "gone"]
  contracts,       \* [ContractIds -> contract row or NoRow]
  nextContract     \* the next value of the contracts.id sequence

dbVars == <<files, contracts, nextContract>>

ContractIds == 1 .. MaxContracts

\* A file id is "unborn" before its INSERT and "gone" after its DELETE.
FileStatus == {"unborn", "pending", "active", "gone"}

ContractStatus == {"pending", "active", "failed"}

Contract == [file : FileIds, provider : Providers, status : ContractStatus]

NoRow == [status |-> "none"]

FileExists(f) == files[f] \in {"pending", "active"}

ContractExists(c) == contracts[c].status # "none"

\* The contracts of file f whose status is in the set S.
ContractsOf(f, S) ==
  {c \in ContractIds : contracts[c].status \in S /\ contracts[c].file = f}

ActiveCount(f) == Cardinality(ContractsOf(f, {"active"}))

Live == {"active", "pending"}

ProvidersOf(C) == {contracts[c].provider : c \in C}

DBTypeOK ==
  /\ files \in [FileIds -> FileStatus]
  /\ contracts \in [ContractIds -> Contract \cup {NoRow}]
  /\ nextContract \in 1 .. MaxContracts + 1

DBInit ==
  /\ files = [f \in FileIds |-> "unborn"]
  /\ contracts = [c \in ContractIds |-> NoRow]
  /\ nextContract = 1

\* Rows of files change in this step, but none comes and none goes.
OnlyStatus ==
  \A f \in FileIds :
    files'[f] = files[f] \/ {files[f], files'[f]} \subseteq {"pending", "active"}

-----------------------------------------------------------------------------
(* Statements on files.                                                    *)

CreateFile(f) ==
  /\ files[f] = "unborn"
  /\ files' = [files EXCEPT ![f] = "pending"]
  /\ UNCHANGED <<contracts, nextContract>>

\* DELETE FROM files; the foreign key takes the file's contracts with it.
DeleteFile(f) ==
  /\ FileExists(f)
  /\ files' = [files EXCEPT ![f] = "gone"]
  /\ contracts' = [c \in ContractIds |->
                     IF c \in ContractsOf(f, ContractStatus)
                       THEN NoRow ELSE contracts[c]]
  /\ UNCHANGED nextContract

\* The two conditional updates of files.status count the file's contracts in
\* their WHERE clause.  PostgreSQL's default isolation (READ COMMITTED) evaluates
\* it on a snapshot taken when the statement starts; if the row has changed by
\* the time it is written, only its own columns are looked at again, never the
\* count.  So each of them is two steps: the WHERE clause, then the write.
UpgradeNeeded(f) ==
  files[f] = "pending" /\ ActiveCount(f) >= TargetReplicas[f]

\* Mutant of UpgradeFileStatusIfNeeded: the row is written even if it is gone.
UpgradeFileStatusIfNeeded_Upsert(f) ==
  /\ files' = [files EXCEPT ![f] = "active"]
  /\ UNCHANGED <<contracts, nextContract>>

UpgradeFileStatusIfNeeded(f) ==
  /\ files' = [files EXCEPT ![f] = IF @ = "pending" THEN "active" ELSE @]
  /\ UNCHANGED <<contracts, nextContract>>

\* Mutant of DowngradeNeeded: one replica short is still enough.
DowngradeNeeded_OffByOne(f) ==
  files[f] = "active" /\ ActiveCount(f) < TargetReplicas[f] - 1

DowngradeNeeded(f) ==
  files[f] = "active" /\ ActiveCount(f) < TargetReplicas[f]

DowngradeFileStatusIfNeeded(f) ==
  /\ files' = [files EXCEPT ![f] = IF @ = "active" THEN "pending" ELSE @]
  /\ UNCHANGED <<contracts, nextContract>>

\* What FinishDownloadJob(success) does to the file: no look at its replicas.
FinishDownloadJob(f) ==
  /\ FileExists(f)
  /\ files' = [files EXCEPT ![f] = "active"]
  /\ UNCHANGED <<contracts, nextContract>>

(* Statements on contracts.                                                *)

\* Mutant of RegisterContract: a file has one row, which is written over.
RegisterContract_Upsert(f, p) ==
  /\ FileExists(f)
  /\ contracts' =
       LET rows == ContractsOf(f, ContractStatus)
           c == IF rows = {} THEN nextContract ELSE CHOOSE d \in rows : TRUE
       IN  [contracts EXCEPT ![c] =
              [file |-> f, provider |-> p, status |-> "pending"]]
  /\ nextContract' = nextContract + 1
  /\ UNCHANGED files

\* The INSERT needs the file's row (foreign key); the status column is the
\* literal 'pending', whatever the caller put in the struct.
RegisterContract(f, p) ==
  /\ FileExists(f)
  /\ contracts' = [contracts EXCEPT ![nextContract] =
                     [file |-> f, provider |-> p, status |-> "pending"]]
  /\ nextContract' = nextContract + 1
  /\ UNCHANGED files

\* Mutant of SetContractStatus: the row is written even if it is gone.
SetContractStatus_Upsert(c, s) ==
  /\ contracts' = [contracts EXCEPT ![c].status = s]
  /\ UNCHANGED <<files, nextContract>>

\* UPDATE ... WHERE id = c: no condition on the old status, no effect when the
\* row is no longer there.
SetContractStatus(c, s) ==
  /\ contracts' = [contracts EXCEPT ![c] =
                     IF ContractExists(c) THEN [@ EXCEPT !.status = s] ELSE @]
  /\ UNCHANGED <<files, nextContract>>

MarkContractActive(c) == SetContractStatus(c, "active")

MarkContractFailed(c) == SetContractStatus(c, "failed")

(* Queries.                                                                *)

\* Mutant of ReplicaCount: a contract counts once an auditor has confirmed it.
ReplicaCount_ActiveOnly(f) == ActiveCount(f)

\* Mutant of ReplicaCount: the join takes contracts of every status.
ReplicaCount_AllRows(f) == Cardinality(ContractsOf(f, ContractStatus))

\* COUNT(c.id) of the replicator's query: the provider of a pending contract is
\* hired already.
ReplicaCount(f) == Cardinality(ContractsOf(f, Live))

\* Files of one worker's share that have fewer pending and active contracts
\* than their target.
FilesNeedingReplication(totalWorkers, workerID) ==
  {f \in FileIds :
     /\ FileExists(f)
     /\ InShare(f, totalWorkers, workerID)
     /\ ReplicaCount(f) < TargetReplicas[f]}

\* What the query may return: all of them, or as many as its LIMIT says.  There
\* is no ORDER BY, so it may be any of them, and the same ones every time.
GetFilesNeedingReplication(totalWorkers, workerID) ==
  LET needing == FilesNeedingReplication(totalWorkers, workerID) IN
    {F \in SUBSET needing :
       \/ Cardinality(F) = ReplicationLimit
       \/ F = needing /\ Cardinality(F) <= ReplicationLimit}

\* Contracts of one worker's share that are to be audited.  Which of them are
\* due depends on last_check and the clock, so the caller gets any subset.
ContractsForAudit(totalWorkers, workerID) ==
  {c \in ContractIds :
     /\ contracts[c].status \in Live
     /\ InShare(c, totalWorkers, workerID)}
=============================================================================
