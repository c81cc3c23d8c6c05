--------------------------- MODULE Database_proofs ---------------------------
(***************************************************************************)
(* Lemmas about the statements and queries of Database, for the components *)
(* that use them.                                                          *)
(***************************************************************************)
EXTENDS Database, TLAPS, FiniteSetTheorems

\* A contract id whose row exists holds a contract.
LEMMA RowIsContract ==
  ASSUME DBTypeOK, NEW c \in ContractIds, ContractExists(c)
  PROVE  contracts[c] \in Contract
BY DEF DBTypeOK, ContractExists, NoRow

\* The contracts a query selects are rows.
LEMMA SelectedRows ==
  ASSUME DBTypeOK, NEW f, NEW S \in SUBSET ContractStatus, NEW c \in ContractsOf(f, S)
  PROVE  c \in ContractIds /\ contracts[c] \in Contract
<1>1. c \in ContractIds /\ contracts[c].status \in S
  BY DEF ContractsOf
<1>2. ContractExists(c)
  BY <1>1 DEF ContractExists, ContractStatus
<1> QED
  BY <1>1, <1>2, RowIsContract

\* Counting the contracts of a file yields a natural number.
LEMMA CountIsNat ==
  ASSUME NEW f, NEW S
  PROVE  IsFiniteSet(ContractsOf(f, S)) /\ Cardinality(ContractsOf(f, S)) \in Nat
<1>1. IsFiniteSet(ContractIds)
  BY MaxContractsAssumption, FS_Interval DEF ContractIds
<1>2. ContractsOf(f, S) \subseteq ContractIds
  BY DEF ContractsOf
<1> QED
  BY <1>1, <1>2, FS_Subset, FS_CardinalityType

LEMMA ProvidersOfType ==
  ASSUME DBTypeOK, NEW f, NEW S \in SUBSET ContractStatus
  PROVE  ProvidersOf(ContractsOf(f, S)) \subseteq Providers
BY SelectedRows DEF ProvidersOf, Contract

LEMMA FindRandomProviderType ==
  ASSUME NEW excludes, NEW p \in FindRandomProvider(excludes)
  PROVE  p \in Providers
BY DEF FindRandomProvider

LEMMA DBStatementsType ==
  ASSUME DBTypeOK
  PROVE  /\ \A f \in FileIds : CreateFile(f) => DBTypeOK'
         /\ \A f \in FileIds : DeleteFile(f) => DBTypeOK'
         /\ \A f \in FileIds : UpgradeFileStatusIfNeeded(f) => DBTypeOK'
         /\ \A f \in FileIds : DowngradeFileStatusIfNeeded(f) => DBTypeOK'
         /\ \A f \in FileIds : FinishDownloadJob(f) => DBTypeOK'
         /\ \A f \in FileIds, p \in Providers :
              RegisterContract(f, p) /\ nextContract <= MaxContracts => DBTypeOK'
         /\ \A c \in ContractIds, s \in ContractStatus :
              SetContractStatus(c, s) => DBTypeOK'
         /\ UNCHANGED dbVars => DBTypeOK'
<1>1. \A f \in FileIds : CreateFile(f) => DBTypeOK'
  BY DEF DBTypeOK, CreateFile, FileStatus
<1>2. \A f \in FileIds : DeleteFile(f) => DBTypeOK'
  BY DEF DBTypeOK, DeleteFile, FileStatus
<1>3. \A f \in FileIds : UpgradeFileStatusIfNeeded(f) => DBTypeOK'
  BY DEF DBTypeOK, UpgradeFileStatusIfNeeded, FileStatus
<1>4. \A f \in FileIds : DowngradeFileStatusIfNeeded(f) => DBTypeOK'
  BY DEF DBTypeOK, DowngradeFileStatusIfNeeded, FileStatus
<1>5. \A f \in FileIds : FinishDownloadJob(f) => DBTypeOK'
  BY DEF DBTypeOK, FinishDownloadJob, FileStatus
<1>6. ASSUME NEW f \in FileIds, NEW p \in Providers,
             RegisterContract(f, p), nextContract <= MaxContracts
      PROVE  DBTypeOK'
  <2>1. nextContract \in ContractIds /\ nextContract + 1 \in 1 .. MaxContracts + 1
    BY <1>6, MaxContractsAssumption DEF DBTypeOK, ContractIds
  <2>2. [file |-> f, provider |-> p, status |-> "pending"] \in Contract
    BY DEF Contract, ContractStatus
  <2> QED
    BY <1>6, <2>1, <2>2 DEF DBTypeOK, RegisterContract
<1>7. ASSUME NEW c \in ContractIds, NEW s \in ContractStatus, SetContractStatus(c, s)
      PROVE  DBTypeOK'
  <2>1. ContractExists(c) => [contracts[c] EXCEPT !.status = s] \in Contract
    BY RowIsContract DEF Contract
  <2> QED
    BY <1>7, <2>1 DEF DBTypeOK, SetContractStatus
<1>8. UNCHANGED dbVars => DBTypeOK'
  BY DEF DBTypeOK, dbVars
<1> QED
  BY <1>1, <1>2, <1>3, <1>4, <1>5, <1>6, <1>7, <1>8
=============================================================================
