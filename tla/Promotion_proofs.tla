-------------------------- MODULE Promotion_proofs --------------------------
(***************************************************************************)
(* PromotionOwed, for every value of the constants: which steps can leave  *)
(* a file pending although it has the active contracts it needs.           *)
(***************************************************************************)
EXTENDS Hiring_proofs

\* An auditor is at work on the promotion of f.
Promoting(f) ==
  \E a \in Auditors :
    aud[a].pc \in {"upgrade", "upgradeWrite"} /\ aud[a].con.file = f

\* A file becomes pending by its upload, or by an auditor's downgrade.
LEMMA BecomesPending ==
  ASSUME TypeOK, [Next]_vars, NEW f \in FileIds,
         files'[f] = "pending", files[f] # "pending"
  PROVE  \/ files[f] = "unborn"
         \/ \E a \in Auditors : aud[a].pc = "downgradeWrite" /\ aud[a].con.file = f
<1>1. CASE files' = files
  BY <1>1
<1>2. ASSUME NEW w \in Replicators, Replicator(w)
      PROVE  files' = files
  BY <1>2
  DEF Replicator, ReplicatorQuery, ReplicatorTake, ReplicatorFetch, ReplicatorSend,
      ReplicatorRegister, RegisterContract, dbVars
<1>3. ASSUME NEW a \in Auditors, Auditor(a)
      PROVE  \/ files' = files
             \/ aud[a].pc = "downgradeWrite" /\ aud[a].con.file = f
  <2>1. CASE AuditorUpgradeWrite(a)
    BY <2>1 DEF AuditorUpgradeWrite, UpgradeFileStatusIfNeeded, TypeOK, DBTypeOK
  <2>2. CASE AuditorDowngradeWrite(a)
    BY <2>2 DEF AuditorDowngradeWrite, DowngradeFileStatusIfNeeded, TypeOK, DBTypeOK
  <2>3. CASE AuditorActivate(a) \/ AuditorFail(a)
    BY <2>3
    DEF AuditorActivate, AuditorFail, MarkContractActive, MarkContractFailed,
        SetContractStatus, dbVars
  <2>4. CASE \/ AuditorQuery(a) \/ AuditorProbe(a) \/ AuditorUpgrade(a)
             \/ AuditorRemove(a) \/ AuditorSend(a) \/ AuditorDowngrade(a)
    BY <2>4
    DEF AuditorQuery, AuditorProbe, AuditorUpgrade, AuditorRemove, AuditorSend,
        AuditorDowngrade, dbVars
  <2> QED
    BY <1>3, <2>1, <2>2, <2>3, <2>4 DEF Auditor
<1>4. ASSUME NEW x, Manual(x) \/ Withdrawal(x)
      PROVE  files' = files
  BY <1>4
  DEF Manual, ManualReplicate, ManualFetch, ManualSend, ManualRegister,
      RegisterContract, Withdrawal, Withdraw, WithdrawRemove, WithdrawSend,
      WithdrawMark, MarkContractFailed, SetContractStatus, dbVars
<1>5. ASSUME NEW g \in FileIds, Upload(g) \/ Delete(g) \/ DownloadDone(g)
      PROVE  files[f] = "unborn"
  BY <1>5
  DEF Upload, Delete, DownloadDone, CreateFile, DeleteFile, FinishDownloadJob,
      TypeOK, DBTypeOK
<1>6. CASE Restart \/ UNCHANGED vars \/ \E t \in LateSlots : LateTransaction(t)
  BY <1>6 DEF Restart, LateTransaction, vars, dbVars
<1> QED
  BY <1>1, <1>2, <1>3, <1>4, <1>5, <1>6 DEF Next

\* A contract becomes active only in an auditor's activation, which leaves the
\* auditor about to promote the contract's file.
LEMMA BecomesActive ==
  ASSUME TypeOK, FreshIds, HeldRowsMatch, [Next]_vars, NEW f \in FileIds
  PROVE  \/ ContractsOf(f, {"active"})' \subseteq ContractsOf(f, {"active"})
         \/ Promoting(f)'
<1> DEFINE A == ContractsOf(f, {"active"})
<1>1. \A c : c \in A <=> /\ c \in ContractIds
                         /\ contracts[c].status = "active" /\ contracts[c].file = f
  BY DEF ContractsOf
<1>2. \A c : c \in A' <=> /\ c \in ContractIds
                          /\ contracts'[c].status = "active" /\ contracts'[c].file = f
  BY DEF ContractsOf
<1> HIDE DEF A
<1>3. ASSUME Quiet
      PROVE  A' \subseteq A
  BY <1>1, <1>2, <1>3 DEF Quiet
<1>4. ASSUME NEW w \in Replicators, PoolHire(w)
      PROVE  A' \subseteq A
  BY <1>1, <1>2, <1>4, PoolHireRows
<1>5. ASSUME NEW x \in ManualRequests, ManualHire(x)
      PROVE  A' \subseteq A
  BY <1>1, <1>2, <1>5, ManualHireRows
<1>6. ASSUME NEW a \in Auditors, Activation(a)
      PROVE  A' \subseteq A \/ Promoting(f)'
  <2>1. /\ aud[a].con \in HeldByAuditor(a)
        /\ aud[a].con.id \in ContractIds
    BY <1>6, HeldFields DEF Activation, AuditSteps
  <2>2. PICK id \in ContractIds : id = aud[a].con.id
    BY <2>1
  <2>3. /\ \A d \in ContractIds \ {id} : contracts'[d] = contracts[d]
        /\ ContractExists(id) => contracts'[id].file = contracts[id].file
        /\ ~ContractExists(id) => contracts'[id] = contracts[id]
    BY <1>6, <2>2, SetStatusRows DEF Activation, MarkContractActive, TypeOK,
       ContractStatus
  <2>4. ContractExists(id) => contracts[id].file = aud[a].con.file
    BY <2>1, <2>2 DEF HeldRowsMatch, StillNames
  <2>5. CASE aud[a].con.file = f
    <3>1. aud'[a].pc = "upgrade" /\ aud'[a].con = aud[a].con
      BY <1>6 DEF Activation, Audit, TypeOK
    <3> QED
      BY <2>5, <3>1 DEF Promoting
  <2>6. CASE aud[a].con.file # f
    BY <1>1, <1>2, <2>3, <2>4, <2>6
  <2> QED
    BY <2>5, <2>6
<1>7. ASSUME NEW id \in ContractIds, MarkContractFailed(id)
      PROVE  A' \subseteq A
  <2>1. /\ \A d \in ContractIds \ {id} : contracts'[d] = contracts[d]
        /\ ContractExists(id) => contracts'[id].status = "failed"
        /\ ~ContractExists(id) => contracts'[id] = contracts[id]
    BY <1>7, SetStatusRows DEF MarkContractFailed, TypeOK, ContractStatus
  <2> QED
    BY <1>1, <1>2, <2>1
<1>8. ASSUME NEW a \in Auditors, Firing(a)
      PROVE  A' \subseteq A
  BY <1>7, <1>8, HeldFields DEF Firing, AuditSteps
<1>9. ASSUME NEW x \in WithdrawRequests, Dismissal(x)
      PROVE  A' \subseteq A
  BY <1>7, <1>9, HeldFields DEF Dismissal, AdminRequests
<1>10. ASSUME NEW g \in FileIds, Delete(g)
       PROVE  A' \subseteq A
  <2>1. \A d \in ContractIds : contracts'[d] = NoRow \/ contracts'[d] = contracts[d]
    BY <1>10, DeleteRows DEF Delete, TypeOK
  <2> QED
    BY <1>1, <1>2, <2>1 DEF NoRow
<1> QED
  BY <1>3, <1>4, <1>5, <1>6, <1>8, <1>9, <1>10, TableStep DEF A

\* Fewer active contracts, smaller count.
LEMMA CountBefore ==
  ASSUME NEW f, ContractsOf(f, {"active"})' \subseteq ContractsOf(f, {"active"})
  PROVE  /\ ActiveCount(f) \in Nat /\ ActiveCount(f)' \in Nat
         /\ ActiveCount(f)' <= ActiveCount(f)
<1>1. /\ IsFiniteSet(ContractsOf(f, {"active"}))
      /\ Cardinality(ContractsOf(f, {"active"})) \in Nat
  BY CountIsNat
<1>2. /\ Cardinality(ContractsOf(f, {"active"})') \in Nat
      /\ Cardinality(ContractsOf(f, {"active"})') <=
           Cardinality(ContractsOf(f, {"active"}))
  BY <1>1, FS_Subset, FS_CardinalityType
<1> QED
  BY <1>1, <1>2 DEF ActiveCount

LEMMA PromotionStep ==
  ASSUME HiringInv, [Next]_vars, NEW f \in FileIds, Overlooked(f)', ~Overlooked(f)
  PROVE  \/ TargetReplicas[f] <= 0
         \/ \E a \in Auditors :
              /\ aud[a].pc \in {"upgrade", "upgradeWrite", "downgradeWrite"}
              /\ aud[a].con.file = f
<1>1. TypeOK /\ FreshIds /\ HeldRowsMatch /\ RowsHaveFiles
  BY DEF HiringInv
<1>2. /\ files'[f] = "pending" /\ ActiveCount(f)' >= TargetReplicas[f]
      /\ ~Promoting(f)'
  BY DEF Overlooked, Promoting
<1>3. TargetReplicas[f] \in Int
  BY TargetAssumption
<1>4. CASE Promoting(f)
  BY <1>4 DEF Promoting
<1>5. CASE ~Promoting(f)
  <2>1. /\ ActiveCount(f) \in Nat /\ ActiveCount(f)' \in Nat
        /\ ActiveCount(f)' <= ActiveCount(f)
    BY <1>1, <1>2, BecomesActive, CountBefore
  <2>2. files[f] # "pending"
    BY <1>2, <1>3, <1>5, <2>1 DEF Overlooked, Promoting
  <2>3. CASE files[f] = "unborn"
    <3>1. \A c \in ContractsOf(f, {"active"}) : FALSE
      BY <1>1, <2>3 DEF ContractsOf, RowsHaveFiles, ContractExists, FileExists
    <3>2. ActiveCount(f) = 0
      BY <3>1, FS_EmptySet DEF ActiveCount
    <3> QED
      BY <1>2, <1>3, <2>1, <3>2
  <2>4. CASE \E a \in Auditors : aud[a].pc = "downgradeWrite" /\ aud[a].con.file = f
    BY <2>4
  <2> QED
    BY <1>1, <1>2, <2>2, <2>3, <2>4, BecomesPending
<1> QED
  BY <1>4, <1>5

\* A file that has the contracts it needs is left pending only by a restart or a
\* database error in the middle of a promotion, by a downgrade that counted too
\* early, or when its target is zero: no interleaving of auditors, hires, admins
\* and downloads forgets one otherwise.
THEOREM PromotionOwedCorrect == Spec => PromotionOwed
<1>1. HiringInv /\ [Next]_vars =>
        [\A f \in FileIds : Overlooked(f)' /\ ~Overlooked(f) =>
           \/ TargetReplicas[f] <= 0
           \/ \E a \in Auditors :
                /\ aud[a].pc \in {"upgrade", "upgradeWrite", "downgradeWrite"}
                /\ aud[a].con.file = f]_vars
  BY PromotionStep
<1> QED
  BY <1>1, HiringInvariant, PTL DEF Spec, PromotionOwed
=============================================================================
