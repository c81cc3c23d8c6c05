------------------------- MODULE Replication_proofs -------------------------
(***************************************************************************)
(* Proofs about Replication, for every value of its constants.             *)
(***************************************************************************)
EXTENDS Replication, Database_proofs

-----------------------------------------------------------------------------
(* Typing of the parts.                                                     *)

LEMMA SnapshotType ==
  ASSUME DBTypeOK, NEW c \in ContractIds, ContractExists(c)
  PROVE  SnapshotOf(c) \in Snapshot
BY RowIsContract DEF SnapshotOf, Snapshot, Contract

LEMMA BatchType ==
  /\ \A todo \in SUBSET Job : Batch(todo) \in RepState
  /\ \A todo \in SUBSET Snapshot : Batch(todo) \in AudState
BY DEF Batch, RepState, AudState

LEMMA NextHireType ==
  ASSUME NEW todo \in SUBSET Job, NEW job \in Job, NEW excludes \in SUBSET Providers
  PROVE  /\ Hiring(todo, job) \in RepState
         /\ NextHire(todo, job, excludes) \in RepState
<1>1. \A j \in Job : Hiring(todo, j) \in RepState
  BY DEF Hiring, RepState
<1>2. ASSUME job.left > 1
      PROVE  [job EXCEPT !.left = @ - 1, !.excludes = excludes] \in Job
  <2>1. job = [file |-> job.file, left |-> job.left, excludes |-> job.excludes]
    BY DEF Job
  <2>2. job.left - 1 \in Nat \ {0}
    BY <1>2 DEF Job
  <2> QED
    BY <2>1, <2>2 DEF Job
<1> QED
  BY <1>1, <1>2, BatchType DEF NextHire

\* What a process holds at a control point.
LEMMA RepFields ==
  ASSUME NEW r \in RepState
  PROVE  /\ r.pc = "batch" => r.todo \in SUBSET Job
         /\ r.pc \in {"hire", "send", "register"} =>
              r.todo \in SUBSET Job /\ r.job \in Job
         /\ r.pc \in {"send", "register"} => r.provider \in Providers
         /\ r.pc = "send" => r.list \in SUBSET Providers
BY DEF RepState, Idle

LEMMA AudFields ==
  ASSUME NEW s \in AudState
  PROVE  /\ s.pc # "idle" => s.todo \in SUBSET Snapshot
         /\ s.pc \in AuditSteps \cup {"send"} => s.con \in Snapshot
         /\ s.pc = "send" => s.list \in SUBSET Providers
BY DEF AudState, Idle, AuditSteps

LEMMA AdmFields ==
  ASSUME NEW s \in AdmState
  PROVE  /\ s.pc \in {"hire", "send", "register"} =>
              s.file \in FileIds /\ s.provider \in Providers
         /\ s.pc = "send" => s.list \in SUBSET Providers
         /\ s.pc \in {"remove", "sendRemoval", "mark"} => s.con \in Snapshot
         /\ s.pc = "sendRemoval" => s.list \in SUBSET Providers
BY DEF AdmState, Idle

-----------------------------------------------------------------------------
(* Type correctness, statement by statement and action by action.           *)

LEMMA SendTransactionType ==
  ASSUME ChainTypeOK, NEW b \in Bags, NEW list \in SUBSET Providers,
         SendTransaction(b, list)
  PROVE  ChainTypeOK'
BY DEF ChainTypeOK, SendTransaction, Transaction, chainVars

LEMMA LateTransactionType ==
  ASSUME ChainTypeOK, NEW t \in LateSlots, LateTransaction(t)
  PROVE  ChainTypeOK'
<1>1. late[t] \in Transaction
  BY DEF ChainTypeOK, LateTransaction, Lands, Expires
<1> QED
  BY <1>1 DEF ChainTypeOK, LateTransaction, Lands, Expires, Transaction

LEMMA ListTypes ==
  ASSUME ChainTypeOK, NEW f \in FileIds, NEW p \in Providers
  PROVE  /\ BagOf[f] \in Bags
         /\ HireList(BagOf[f], p) \in SUBSET Providers
         /\ RemovalList(BagOf[f], p) \in SUBSET Providers
BY BagAssumption DEF ChainTypeOK, HireList, RemovalList

\* The two shapes most steps have: only one process table changes.
LEMMA RepOnly ==
  ASSUME TypeOK, NEW w \in Replicators, NEW r \in RepState,
         rep' = [rep EXCEPT ![w] = r],
         UNCHANGED <<dbVars, chainVars, aud, adm, historyVars>>
  PROVE  TypeOK'
BY DEF TypeOK, DBTypeOK, ChainTypeOK, dbVars, chainVars, historyVars

LEMMA AudOnly ==
  ASSUME TypeOK, NEW a \in Auditors, NEW s \in AudState,
         aud' = [aud EXCEPT ![a] = s],
         UNCHANGED <<dbVars, chainVars, rep, adm, historyVars>>
  PROVE  TypeOK'
BY DEF TypeOK, DBTypeOK, ChainTypeOK, dbVars, chainVars, historyVars

LEMMA AdmOnly ==
  ASSUME TypeOK, NEW x \in AdminRequests, NEW s \in AdmState,
         adm' = [adm EXCEPT ![x] = s],
         UNCHANGED <<dbVars, chainVars, rep, aud, historyVars>>
  PROVE  TypeOK'
BY DEF TypeOK, DBTypeOK, ChainTypeOK, dbVars, chainVars, historyVars

LEMMA ForgetType ==
  ASSUME TypeOK, NEW F \in SUBSET FileIds, Forget(F)
  PROVE  unrepaired' \subseteq FileIds
BY DEF TypeOK, Forget

LEMMA ReplicatorType ==
  ASSUME TypeOK, NEW w \in Replicators, Replicator(w)
  PROVE  TypeOK'
<1> DEFINE r == rep[w]
<1>1. r \in RepState /\ DBTypeOK /\ ChainTypeOK
  BY DEF TypeOK
<1>2. CASE ReplicatorQuery(w)
  <2>4. PICK F \in GetFilesNeedingReplication(NumReplicators, w) :
          rep' = [rep EXCEPT ![w] = Batch({JobFor(f) : f \in F})]
    BY <1>2 DEF ReplicatorQuery
  <2>1. ASSUME NEW f \in F
        PROVE  JobFor(f) \in Job
    <3>1. f \in FileIds /\ ReplicaCount(f) < TargetReplicas[f]
      BY DEF GetFilesNeedingReplication, FilesNeedingReplication
    <3>2. TargetReplicas[f] - ReplicaCount(f) \in Nat \ {0}
      <4>1. ReplicaCount(f) \in Nat
        BY CountIsNat DEF ReplicaCount
      <4> QED
        BY <3>1, <4>1, TargetAssumption
    <3>3. ProvidersOf(ContractsOf(f, Live)) \subseteq Providers
      BY <1>1, ProvidersOfType DEF Live, ContractStatus
    <3> QED
      BY <3>1, <3>2, <3>3 DEF Job, JobFor
  <2>2. {JobFor(f) : f \in F} \in SUBSET Job
    BY <2>1
  <2>3. Batch({JobFor(f) : f \in F}) \in RepState
    BY <2>2, BatchType
  <2> QED
    BY <1>2, <2>3, <2>4, RepOnly DEF ReplicatorQuery
<1>3. CASE ReplicatorTake(w)
  <2>1. PICK job \in r.todo : rep' = [rep EXCEPT ![w] = Hiring(r.todo \ {job}, job)]
    BY <1>3 DEF ReplicatorTake
  <2>2. r.todo \in SUBSET Job
    BY <1>1, <1>3, RepFields DEF ReplicatorTake
  <2>3. Hiring(r.todo \ {job}, job) \in RepState
    BY <2>1, <2>2, NextHireType
  <2> QED
    BY <1>3, <2>1, <2>3, RepOnly DEF ReplicatorTake
<1>4. CASE ReplicatorFetch(w)
  <2>1. r.todo \in SUBSET Job /\ r.job \in Job /\ r.job.file \in FileIds
        /\ r.job.excludes \in SUBSET Providers
    BY <1>1, <1>4, RepFields DEF ReplicatorFetch, Job
  <2>2. NextHire(r.todo, r.job, r.job.excludes) \in RepState
    BY <2>1, NextHireType
  <2>3. ASSUME NEW p \in FindRandomProvider(r.job.excludes)
        PROVE  [pc |-> "send", todo |-> r.todo, job |-> r.job, provider |-> p,
                list |-> HireList(BagOf[r.job.file], p)] \in RepState
    <3>1. p \in Providers
      BY FindRandomProviderType
    <3>2. HireList(BagOf[r.job.file], p) \in SUBSET Providers
      BY <1>1, <2>1, <3>1, ListTypes
    <3> QED
      BY <2>1, <3>1, <3>2 DEF RepState
  <2>4. \E s \in RepState : rep' = [rep EXCEPT ![w] = s]
    BY <1>4, <2>2, <2>3 DEF ReplicatorFetch
  <2> QED
    BY <1>4, <2>4, RepOnly DEF ReplicatorFetch
<1>5. CASE ReplicatorSend(w)
  <2>1. r.todo \in SUBSET Job /\ r.job \in Job /\ r.job.file \in FileIds
        /\ r.job.excludes \in SUBSET Providers
        /\ r.provider \in Providers /\ r.list \in SUBSET Providers
    BY <1>1, <1>5, RepFields DEF ReplicatorSend, Job
  <2>2. NextHire(r.todo, r.job, r.job.excludes) \in RepState
    BY <2>1, NextHireType
  <2>3. [pc |-> "register", todo |-> r.todo, job |-> r.job,
         provider |-> r.provider] \in RepState
    BY <2>1 DEF RepState
  <2>5. ChainTypeOK'
    BY <1>1, <1>5, <2>1, ListTypes, SendTransactionType DEF ReplicatorSend
  <2>6. rep' \in [Replicators -> RepState]
    BY <1>5, <2>2, <2>3 DEF ReplicatorSend, TypeOK
  <2> QED
    BY <1>5, <2>5, <2>6
    DEF ReplicatorSend, TypeOK, DBTypeOK, dbVars, historyVars
<1>6. CASE ReplicatorRegister(w)
  <2>1. r.todo \in SUBSET Job /\ r.job \in Job /\ r.job.file \in FileIds
        /\ r.job.excludes \in SUBSET Providers /\ r.provider \in Providers
    BY <1>1, <1>6, RepFields DEF ReplicatorRegister, Job
  <2>2. /\ NextHire(r.todo, r.job, r.job.excludes) \in RepState
        /\ NextHire(r.todo, r.job, r.job.excludes \cup {r.provider}) \in RepState
    BY <2>1, NextHireType
  <2>3. rep' \in [Replicators -> RepState]
    BY <1>6, <2>2 DEF ReplicatorRegister, TypeOK
  <2>4. DBTypeOK'
    BY <1>1, <1>6, <2>1, DBStatementsType DEF ReplicatorRegister
  <2>5. unrepaired' \subseteq FileIds
    BY <1>6, ForgetType DEF ReplicatorRegister
  <2> QED
    BY <1>6, <2>3, <2>4, <2>5 DEF ReplicatorRegister, TypeOK, ChainTypeOK, chainVars
<1> QED
  BY <1>2, <1>3, <1>4, <1>5, <1>6 DEF Replicator

LEMMA AuditType ==
  ASSUME NEW todo \in SUBSET Snapshot, NEW con \in Snapshot, NEW step \in AuditSteps
  PROVE  Audit(step, todo, con) \in AudState
BY DEF Audit, AudState

LEMMA AuditorType ==
  ASSUME TypeOK, NEW a \in Auditors, Auditor(a)
  PROVE  TypeOK'
<1> DEFINE s == aud[a]
<1>1. s \in AudState /\ DBTypeOK /\ ChainTypeOK
  BY DEF TypeOK
<1>2. \A st \in AuditSteps :
        s.todo \in SUBSET Snapshot /\ s.con \in Snapshot =>
          Audit(st, s.todo, s.con) \in AudState
  BY AuditType
<1>3. CASE AuditorQuery(a)
  <2>1. PICK due \in SUBSET ContractsForAudit(NumAuditors, a) :
          aud' = [aud EXCEPT ![a] = Batch({SnapshotOf(c) : c \in due})]
    BY <1>3 DEF AuditorQuery
  <2>2. ASSUME NEW c \in due
        PROVE  SnapshotOf(c) \in Snapshot
    <3>1. c \in ContractIds /\ ContractExists(c)
      BY DEF ContractsForAudit, Live, ContractExists
    <3> QED
      BY <1>1, <3>1, SnapshotType
  <2>3. {SnapshotOf(c) : c \in due} \in SUBSET Snapshot
    BY <2>2
  <2>4. Batch({SnapshotOf(c) : c \in due}) \in AudState
    BY <2>3, BatchType
  <2> QED
    BY <1>3, <2>1, <2>4, AudOnly DEF AuditorQuery
<1>4. CASE AuditorProbe(a)
  <2>1. s.todo \in SUBSET Snapshot
    BY <1>1, <1>4, AudFields DEF AuditorProbe
  <2>2. PICK con \in s.todo : AuditorHealthy(a, con) \/ AuditorDead(a, con)
    BY <1>4 DEF AuditorProbe
  <2>3. /\ Audit("activate", s.todo \ {con}, con) \in AudState
        /\ Audit("remove", s.todo \ {con}, con) \in AudState
        /\ Batch(s.todo \ {con}) \in AudState
    BY <2>1, AuditType, BatchType DEF AuditSteps
  <2>4. \E t \in AudState : aud' = [aud EXCEPT ![a] = t]
    BY <2>2, <2>3 DEF AuditorHealthy, AuditorDead
  <2> QED
    BY <1>4, <2>4, AudOnly DEF AuditorProbe
<1>5. CASE AuditorActivate(a)
  <2>1. s.todo \in SUBSET Snapshot /\ s.con \in Snapshot /\ s.con.id \in ContractIds
    BY <1>1, <1>5, AudFields DEF AuditorActivate, AuditSteps, Snapshot
  <2>2. aud' \in [Auditors -> AudState]
    BY <1>2, <1>5, <2>1, BatchType DEF AuditorActivate, TypeOK, AuditSteps
  <2>3. DBTypeOK'
    BY <1>1, <1>5, <2>1, DBStatementsType
    DEF AuditorActivate, MarkContractActive, ContractStatus
  <2>4. unrepaired' \subseteq FileIds
    BY <1>5, ForgetType DEF AuditorActivate
  <2> QED
    BY <1>5, <2>2, <2>3, <2>4 DEF AuditorActivate, TypeOK, ChainTypeOK, chainVars
<1>6. CASE AuditorUpgrade(a)
  <2>1. s.todo \in SUBSET Snapshot /\ s.con \in Snapshot
    BY <1>1, <1>6, AudFields DEF AuditorUpgrade, AuditSteps
  <2>2. \E t \in AudState : aud' = [aud EXCEPT ![a] = t]
    BY <1>2, <1>6, <2>1, BatchType DEF AuditorUpgrade, AuditSteps
  <2> QED
    BY <1>6, <2>2, AudOnly DEF AuditorUpgrade
<1>7. CASE AuditorUpgradeWrite(a)
  <2>1. s.todo \in SUBSET Snapshot /\ s.con \in Snapshot /\ s.con.file \in FileIds
    BY <1>1, <1>7, AudFields DEF AuditorUpgradeWrite, AuditSteps, Snapshot
  <2>2. aud' \in [Auditors -> AudState]
    BY <1>7, <2>1, BatchType DEF AuditorUpgradeWrite, TypeOK
  <2>3. DBTypeOK'
    BY <1>1, <1>7, <2>1, DBStatementsType DEF AuditorUpgradeWrite
  <2>4. unrepaired' \subseteq FileIds
    BY <1>7, <2>1, ForgetType DEF AuditorUpgradeWrite
  <2> QED
    BY <1>7, <2>2, <2>3, <2>4 DEF AuditorUpgradeWrite, TypeOK, ChainTypeOK, chainVars
<1>8. CASE AuditorRemove(a)
  <2>1. s.todo \in SUBSET Snapshot /\ s.con \in Snapshot
        /\ s.con.file \in FileIds /\ s.con.provider \in Providers
    BY <1>1, <1>8, AudFields DEF AuditorRemove, AuditSteps, Snapshot
  <2>2. RemovalList(BagOf[s.con.file], s.con.provider) \in SUBSET Providers
    BY <1>1, <2>1, ListTypes
  <2>3. [pc |-> "send", todo |-> s.todo, con |-> s.con,
         list |-> RemovalList(BagOf[s.con.file], s.con.provider)] \in AudState
    BY <2>1, <2>2 DEF AudState
  <2>4. \E t \in AudState : aud' = [aud EXCEPT ![a] = t]
    BY <1>2, <1>8, <2>1, <2>3 DEF AuditorRemove, AuditSteps
  <2> QED
    BY <1>8, <2>4, AudOnly DEF AuditorRemove
<1>9. CASE AuditorSend(a)
  <2>1. s.todo \in SUBSET Snapshot /\ s.con \in Snapshot
        /\ s.con.file \in FileIds /\ s.list \in SUBSET Providers
    BY <1>1, <1>9, AudFields DEF AuditorSend, Snapshot
  <2>2. aud' \in [Auditors -> AudState]
    BY <1>2, <1>9, <2>1 DEF AuditorSend, TypeOK, AuditSteps
  <2>3. ChainTypeOK'
    <3>1. BagOf[s.con.file] \in Bags /\ SendTransaction(BagOf[s.con.file], s.list)
      BY <1>9, <2>1, BagAssumption DEF AuditorSend
    <3> QED
      BY <1>1, <2>1, <3>1, SendTransactionType
  <2> QED
    BY <1>9, <2>2, <2>3 DEF AuditorSend, TypeOK, DBTypeOK, dbVars, historyVars
<1>10. CASE AuditorFail(a)
  <2>1. s.todo \in SUBSET Snapshot /\ s.con \in Snapshot /\ s.con.id \in ContractIds
    BY <1>1, <1>10, AudFields DEF AuditorFail, AuditSteps, Snapshot
  <2>2. aud' \in [Auditors -> AudState]
    BY <1>2, <1>10, <2>1, BatchType DEF AuditorFail, TypeOK, AuditSteps
  <2>3. DBTypeOK'
    BY <1>1, <1>10, <2>1, DBStatementsType
    DEF AuditorFail, MarkContractFailed, ContractStatus
  <2>4. unrepaired' \subseteq FileIds
    BY <1>10, ForgetType DEF AuditorFail
  <2> QED
    BY <1>10, <2>2, <2>3, <2>4 DEF AuditorFail, TypeOK, ChainTypeOK, chainVars
<1>11. CASE AuditorDowngrade(a)
  <2>1. s.todo \in SUBSET Snapshot /\ s.con \in Snapshot /\ s.con.file \in FileIds
    BY <1>1, <1>11, AudFields DEF AuditorDowngrade, AuditSteps, Snapshot
  <2>2. aud' \in [Auditors -> AudState]
    BY <1>2, <1>11, <2>1, BatchType DEF AuditorDowngrade, TypeOK, AuditSteps
  <2>3. DBTypeOK'
    BY <1>1, <1>11, DBStatementsType DEF AuditorDowngrade
  <2>4. unrepaired' \subseteq FileIds /\ UNCHANGED <<manual, withdrawn>>
    BY <1>11, <2>1, ForgetType DEF AuditorDowngrade, historyVars, TypeOK
  <2> QED
    BY <1>11, <2>2, <2>3, <2>4 DEF AuditorDowngrade, TypeOK, ChainTypeOK, chainVars
<1>12. CASE AuditorDowngradeWrite(a)
  <2>1. s.todo \in SUBSET Snapshot /\ s.con \in Snapshot /\ s.con.file \in FileIds
    BY <1>1, <1>12, AudFields DEF AuditorDowngradeWrite, AuditSteps, Snapshot
  <2>2. aud' \in [Auditors -> AudState]
    BY <1>12, <2>1, BatchType DEF AuditorDowngradeWrite, TypeOK
  <2>3. DBTypeOK'
    BY <1>1, <1>12, <2>1, DBStatementsType DEF AuditorDowngradeWrite
  <2>4. unrepaired' \subseteq FileIds
    BY <1>12, ForgetType DEF AuditorDowngradeWrite
  <2> QED
    BY <1>12, <2>2, <2>3, <2>4 DEF AuditorDowngradeWrite, TypeOK, ChainTypeOK, chainVars
<1> QED
  BY <1>3, <1>4, <1>5, <1>6, <1>7, <1>8, <1>9, <1>10, <1>11, <1>12 DEF Auditor

LEMMA ManualType ==
  ASSUME TypeOK, NEW x \in ManualRequests, Manual(x)
  PROVE  TypeOK'
<1> DEFINE s == adm[x]
<1>1. x \in AdminRequests /\ s \in AdmState /\ DBTypeOK /\ ChainTypeOK
  BY DEF TypeOK, AdminRequests
<1>2. Idle \in AdmState
  BY DEF AdmState
<1>3. CASE ManualReplicate(x)
  <2>1. PICK f \in FileIds :
          \E excludes \in {ProvidersOf(ContractsOf(f, ContractStatus)), {}} :
            \E p \in FindRandomProvider(excludes) :
              adm' = [adm EXCEPT ![x] = [pc |-> "hire", file |-> f, provider |-> p]]
    BY <1>3 DEF ManualReplicate
  <2>2. PICK p \in Providers :
          adm' = [adm EXCEPT ![x] = [pc |-> "hire", file |-> f, provider |-> p]]
    BY <2>1, FindRandomProviderType
  <2>3. [pc |-> "hire", file |-> f, provider |-> p] \in AdmState
    BY DEF AdmState
  <2> QED
    BY <1>1, <1>3, <2>2, <2>3, AdmOnly DEF ManualReplicate
<1>4. CASE ManualFetch(x)
  <2>1. s.file \in FileIds /\ s.provider \in Providers
    BY <1>1, <1>4, AdmFields DEF ManualFetch
  <2>2. HireList(BagOf[s.file], s.provider) \in SUBSET Providers
    BY <1>1, <2>1, ListTypes
  <2>3. [pc |-> "send", file |-> s.file, provider |-> s.provider,
         list |-> HireList(BagOf[s.file], s.provider)] \in AdmState
    BY <2>1, <2>2 DEF AdmState
  <2>4. \E t \in AdmState : adm' = [adm EXCEPT ![x] = t]
    BY <1>2, <1>4, <2>3 DEF ManualFetch
  <2> QED
    BY <1>1, <1>4, <2>4, AdmOnly DEF ManualFetch
<1>5. CASE ManualSend(x)
  <2>1. s.file \in FileIds /\ s.provider \in Providers /\ s.list \in SUBSET Providers
    BY <1>1, <1>5, AdmFields DEF ManualSend
  <2>2. [pc |-> "register", file |-> s.file, provider |-> s.provider] \in AdmState
    BY <2>1 DEF AdmState
  <2>3. adm' \in [AdminRequests -> AdmState]
    BY <1>2, <1>5, <2>2 DEF ManualSend, TypeOK
  <2>4. ChainTypeOK'
    BY <1>1, <1>5, <2>1, ListTypes, SendTransactionType DEF ManualSend
  <2> QED
    BY <1>5, <2>3, <2>4 DEF ManualSend, TypeOK, DBTypeOK, dbVars, historyVars
<1>6. CASE ManualRegister(x)
  <2>1. s.file \in FileIds /\ s.provider \in Providers
    BY <1>1, <1>6, AdmFields DEF ManualRegister
  <2>2. adm' \in [AdminRequests -> AdmState]
    BY <1>2, <1>6 DEF ManualRegister, TypeOK
  <2>3. DBTypeOK'
    BY <1>1, <1>6, <2>1, DBStatementsType DEF ManualRegister
  <2>4. manual' \subseteq ContractIds
    <3>1. nextContract \in ContractIds
      BY <1>1, <1>6, MaxContractsAssumption DEF ManualRegister, DBTypeOK, ContractIds
    <3>2. manual' = manual \cup {nextContract} \/ manual' = manual
      BY <1>6 DEF ManualRegister
    <3> QED
      BY <3>1, <3>2 DEF TypeOK
  <2>5. unrepaired' \subseteq FileIds
    BY <1>6, ForgetType DEF ManualRegister
  <2> QED
    BY <1>6, <2>2, <2>3, <2>4, <2>5 DEF ManualRegister, TypeOK, ChainTypeOK, chainVars
<1> QED
  BY <1>3, <1>4, <1>5, <1>6 DEF Manual

LEMMA WithdrawalType ==
  ASSUME TypeOK, NEW x \in WithdrawRequests, Withdrawal(x)
  PROVE  TypeOK'
<1> DEFINE s == adm[x]
<1>1. x \in AdminRequests /\ s \in AdmState /\ DBTypeOK /\ ChainTypeOK
  BY DEF TypeOK, AdminRequests
<1>2. Idle \in AdmState
  BY DEF AdmState
<1>3. CASE Withdraw(x)
  <2>1. PICK c \in ContractIds :
          /\ ContractExists(c)
          /\ adm' = [adm EXCEPT ![x] = [pc |-> "remove", con |-> SnapshotOf(c)]]
    BY <1>3 DEF Withdraw
  <2>2. [pc |-> "remove", con |-> SnapshotOf(c)] \in AdmState
    BY <1>1, <2>1, SnapshotType DEF AdmState
  <2> QED
    BY <1>1, <1>3, <2>1, <2>2, AdmOnly DEF Withdraw
<1>4. CASE WithdrawRemove(x)
  <2>1. s.con \in Snapshot /\ s.con.file \in FileIds /\ s.con.provider \in Providers
    BY <1>1, <1>4, AdmFields DEF WithdrawRemove, Snapshot
  <2>2. RemovalList(BagOf[s.con.file], s.con.provider) \in SUBSET Providers
    BY <1>1, <2>1, ListTypes
  <2>3. [pc |-> "sendRemoval", con |-> s.con,
         list |-> RemovalList(BagOf[s.con.file], s.con.provider)] \in AdmState
    BY <2>1, <2>2 DEF AdmState
  <2>4. \E t \in AdmState : adm' = [adm EXCEPT ![x] = t]
    BY <1>2, <1>4, <2>3 DEF WithdrawRemove
  <2> QED
    BY <1>1, <1>4, <2>4, AdmOnly DEF WithdrawRemove
<1>5. CASE WithdrawSend(x)
  <2>1. s.con \in Snapshot /\ s.con.file \in FileIds /\ s.list \in SUBSET Providers
    BY <1>1, <1>5, AdmFields DEF WithdrawSend, Snapshot
  <2>2. [pc |-> "mark", con |-> s.con] \in AdmState
    BY <2>1 DEF AdmState
  <2>3. adm' \in [AdminRequests -> AdmState]
    BY <1>2, <1>5, <2>2 DEF WithdrawSend, TypeOK
  <2>4. ChainTypeOK'
    <3>1. BagOf[s.con.file] \in Bags /\ SendTransaction(BagOf[s.con.file], s.list)
      BY <1>5, <2>1, BagAssumption DEF WithdrawSend
    <3> QED
      BY <1>1, <2>1, <3>1, SendTransactionType
  <2> QED
    BY <1>5, <2>3, <2>4 DEF WithdrawSend, TypeOK, DBTypeOK, dbVars, historyVars
<1>6. CASE WithdrawMark(x)
  <2>1. s.con.id \in ContractIds /\ s.con.file \in FileIds
    BY <1>1, <1>6, AdmFields DEF WithdrawMark, Snapshot
  <2>2. adm' \in [AdminRequests -> AdmState]
    BY <1>2, <1>6 DEF WithdrawMark, TypeOK
  <2>3. DBTypeOK'
    BY <1>1, <1>6, <2>1, DBStatementsType
    DEF WithdrawMark, MarkContractFailed, ContractStatus
  <2>4. withdrawn' \subseteq ContractIds
    BY <1>6, <2>1 DEF WithdrawMark, TypeOK
  <2>5. unrepaired' \subseteq FileIds
    BY <1>6, <2>1, ForgetType DEF WithdrawMark
  <2> QED
    BY <1>6, <2>2, <2>3, <2>4, <2>5 DEF WithdrawMark, TypeOK, ChainTypeOK, chainVars
<1> QED
  BY <1>3, <1>4, <1>5, <1>6 DEF Withdrawal

LEMMA FileStepsType ==
  ASSUME TypeOK, NEW f \in FileIds, Upload(f) \/ Delete(f) \/ DownloadDone(f)
  PROVE  TypeOK'
<1>1. CASE Upload(f)
  BY <1>1, DBStatementsType
  DEF Upload, TypeOK, ChainTypeOK, chainVars, procVars, historyVars
<1>2. CASE Delete(f)
  <2>1. unrepaired' \subseteq FileIds
    BY <1>2, ForgetType DEF Delete
  <2> QED
    BY <1>2, <2>1, DBStatementsType DEF Delete, TypeOK, ChainTypeOK, chainVars,
      procVars
<1>3. CASE DownloadDone(f)
  <2>1. unrepaired' \subseteq FileIds
    BY <1>3, ForgetType DEF DownloadDone
  <2> QED
    BY <1>3, <2>1, DBStatementsType DEF DownloadDone, TypeOK, ChainTypeOK,
      chainVars, procVars
<1> QED
  BY <1>1, <1>2, <1>3

LEMMA RestartType ==
  ASSUME TypeOK, Restart
  PROVE  TypeOK'
<1>1. Idle \in RepState /\ Idle \in AudState /\ Idle \in AdmState
  BY DEF RepState, AudState, AdmState
<1>2. unrepaired' \subseteq FileIds
  BY ForgetType DEF Restart
<1> QED
  BY <1>1, <1>2, DBStatementsType DEF Restart, TypeOK, ChainTypeOK, chainVars

LEMMA TypeInit == Init => TypeOK
<1>1. Idle \in RepState /\ Idle \in AudState /\ Idle \in AdmState
  BY DEF RepState, AudState, AdmState
<1> QED
  BY <1>1, MaxContractsAssumption
  DEF Init, TypeOK, DBInit, DBTypeOK, ChainInit, ChainTypeOK, FileStatus

LEMMA TypeNext == TypeOK /\ [Next]_vars => TypeOK'
<1> SUFFICES ASSUME TypeOK, [Next]_vars PROVE TypeOK'
  OBVIOUS
<1>1. CASE UNCHANGED vars
  BY <1>1 DEF vars, dbVars, procVars, historyVars, TypeOK, DBTypeOK, ChainTypeOK, chainVars
<1>2. CASE Next
  <2>1. ASSUME NEW t \in LateSlots, LateTransaction(t)
        PROVE  TypeOK'
    BY <2>1, LateTransactionType
    DEF LateTransaction, TypeOK, DBTypeOK, dbVars, procVars, historyVars
  <2> QED
    BY <1>2, <2>1, ReplicatorType, AuditorType, ManualType, WithdrawalType,
       FileStepsType, RestartType
    DEF Next
<1> QED
  BY <1>1, <1>2

\* Every reachable state is well typed: no handler stores a status, a provider
\* or a snapshot the others do not expect.
THEOREM TypeCorrect == Spec => []TypeOK
BY TypeInit, TypeNext, PTL DEF Spec

-----------------------------------------------------------------------------
(* Every step makes at most one statement on the tables.                    *)

\* What a worker or an admin does to the tables.
DaemonStep ==
  \/ UNCHANGED dbVars
  \/ \E f \in FileIds :
       UpgradeFileStatusIfNeeded(f) \/ DowngradeFileStatusIfNeeded(f)
  \/ \E f \in FileIds, p \in Providers :
       nextContract <= MaxContracts /\ RegisterContract(f, p)
  \/ \E c \in ContractIds, s \in ContractStatus : SetContractStatus(c, s)

DBStep ==
  \/ DaemonStep
  \/ \E f \in FileIds : CreateFile(f) \/ DeleteFile(f) \/ FinishDownloadJob(f)

LEMMA AuditorDBStep ==
  ASSUME TypeOK, NEW a \in Auditors, Auditor(a)
  PROVE  DaemonStep
<1>1. aud[a] \in AudState
  BY DEF TypeOK
<1>2. aud[a].pc \in AuditSteps =>
        aud[a].con.id \in ContractIds /\ aud[a].con.file \in FileIds
  BY <1>1, AudFields DEF Snapshot
<1>3. CASE AuditorActivate(a)
  BY <1>2, <1>3
  DEF AuditorActivate, MarkContractActive, DaemonStep, AuditSteps, ContractStatus
<1>4. CASE AuditorFail(a)
  BY <1>2, <1>4
  DEF AuditorFail, MarkContractFailed, DaemonStep, AuditSteps, ContractStatus
<1>5. CASE AuditorUpgradeWrite(a)
  BY <1>2, <1>5 DEF AuditorUpgradeWrite, DaemonStep, AuditSteps
<1>6. CASE AuditorDowngradeWrite(a)
  BY <1>2, <1>6 DEF AuditorDowngradeWrite, DaemonStep, AuditSteps
<1>7. CASE \/ AuditorQuery(a) \/ AuditorProbe(a) \/ AuditorUpgrade(a)
           \/ AuditorRemove(a) \/ AuditorSend(a) \/ AuditorDowngrade(a)
  BY <1>7
  DEF AuditorQuery, AuditorProbe, AuditorUpgrade, AuditorRemove, AuditorSend,
      AuditorDowngrade, DaemonStep
<1> QED
  BY <1>3, <1>4, <1>5, <1>6, <1>7 DEF Auditor

LEMMA ReplicatorDBStep ==
  ASSUME TypeOK, NEW w \in Replicators, Replicator(w)
  PROVE  DaemonStep
<1>1. CASE ReplicatorRegister(w)
  <2>1. rep[w].job.file \in FileIds /\ rep[w].provider \in Providers
    BY <1>1, RepFields DEF TypeOK, ReplicatorRegister, Job
  <2> QED
    BY <1>1, <2>1 DEF ReplicatorRegister, DaemonStep
<1>2. CASE \/ ReplicatorQuery(w) \/ ReplicatorTake(w) \/ ReplicatorFetch(w)
           \/ ReplicatorSend(w)
  BY <1>2
  DEF ReplicatorQuery, ReplicatorTake, ReplicatorFetch, ReplicatorSend, DaemonStep
<1> QED
  BY <1>1, <1>2 DEF Replicator

LEMMA AdminDBStep ==
  ASSUME TypeOK, NEW x \in AdminRequests, Manual(x) \/ Withdrawal(x)
  PROVE  DaemonStep
<1>1. adm[x] \in AdmState
  BY DEF TypeOK
<1>2. CASE ManualRegister(x)
  <2>1. adm[x].file \in FileIds /\ adm[x].provider \in Providers
    BY <1>1, <1>2, AdmFields DEF ManualRegister
  <2> QED
    BY <1>2, <2>1 DEF ManualRegister, DaemonStep
<1>3. CASE WithdrawMark(x)
  <2>1. adm[x].con.id \in ContractIds
    BY <1>1, <1>3, AdmFields DEF WithdrawMark, Snapshot
  <2> QED
    BY <1>3, <2>1 DEF WithdrawMark, MarkContractFailed, DaemonStep, ContractStatus
<1>4. CASE \/ ManualReplicate(x) \/ ManualFetch(x) \/ ManualSend(x)
           \/ Withdraw(x) \/ WithdrawRemove(x) \/ WithdrawSend(x)
  BY <1>4
  DEF ManualReplicate, ManualFetch, ManualSend, Withdraw, WithdrawRemove,
      WithdrawSend, DaemonStep
<1> QED
  BY <1>2, <1>3, <1>4 DEF Manual, Withdrawal

LEMMA OneStatement ==
  ASSUME TypeOK, [Next]_vars
  PROVE  DBStep
<1>1. CASE UNCHANGED vars
  BY <1>1 DEF vars, DBStep, DaemonStep
<1>2. ASSUME NEW f \in FileIds, Upload(f) \/ Delete(f) \/ DownloadDone(f)
      PROVE  DBStep
  BY <1>2 DEF Upload, Delete, DownloadDone, DBStep
<1>3. Restart \/ (\E t \in LateSlots : LateTransaction(t)) => DBStep
  BY DEF Restart, LateTransaction, DBStep, DaemonStep
<1>4. DaemonStep => DBStep
  BY DEF DBStep
<1> QED
  BY <1>1, <1>2, <1>3, <1>4, AuditorDBStep, ReplicatorDBStep, AdminDBStep
  DEF Next, AdminRequests

\* The sequence moves forward only, and behind it ids keep their meaning.
LEMMA FreshIdsStep ==
  ASSUME DBTypeOK, FreshIds, DBStep
  PROVE  FreshIds'
<1>1. CASE UNCHANGED dbVars
  BY <1>1 DEF dbVars, FreshIds, ContractExists
<1>2. ASSUME NEW f \in FileIds,
             \/ CreateFile(f) \/ UpgradeFileStatusIfNeeded(f)
             \/ DowngradeFileStatusIfNeeded(f) \/ FinishDownloadJob(f)
      PROVE  FreshIds'
  BY <1>2
  DEF CreateFile, UpgradeFileStatusIfNeeded, DowngradeFileStatusIfNeeded,
      FinishDownloadJob, FreshIds, ContractExists
<1>3. ASSUME NEW f \in FileIds, DeleteFile(f)
      PROVE  FreshIds'
  BY <1>3 DEF DeleteFile, FreshIds, ContractExists, NoRow
<1>4. ASSUME NEW f \in FileIds, NEW p \in Providers, RegisterContract(f, p)
      PROVE  FreshIds'
  <2>1. nextContract \in Int /\ ContractIds \subseteq Int
    BY MaxContractsAssumption DEF DBTypeOK, ContractIds
  <2>2. ASSUME NEW c \in ContractIds, c >= nextContract'
        PROVE  ~ContractExists(c)'
    <3>1. c # nextContract /\ c >= nextContract
      BY <1>4, <2>1, <2>2 DEF RegisterContract
    <3>2. contracts'[c] = contracts[c]
      BY <1>4, <3>1 DEF RegisterContract, DBTypeOK
    <3> QED
      BY <3>1, <3>2 DEF FreshIds, ContractExists
  <2> QED
    BY <2>2 DEF FreshIds
<1>5. ASSUME NEW c \in ContractIds, NEW s \in ContractStatus, SetContractStatus(c, s)
      PROVE  FreshIds'
  BY <1>5 DEF SetContractStatus, FreshIds, ContractExists, DBTypeOK
<1> QED
  BY <1>1, <1>2, <1>3, <1>4, <1>5 DEF DBStep, DaemonStep

LEMMA NamesStay ==
  ASSUME DBTypeOK, DBStep, NEW con \in Snapshot, StillNames(con)
  PROVE  StillNames(con)'
<1> DEFINE c == con.id
<1>1. c \in ContractIds /\ c \in Int /\ nextContract \in Int
  BY MaxContractsAssumption DEF Snapshot, ContractIds, DBTypeOK
<1>2. /\ c < nextContract
      /\ ContractExists(c) => contracts[c].file = con.file
                              /\ contracts[c].provider = con.provider
  BY DEF StillNames
<1> DEFINE SameRow ==
      ContractExists(c)' => /\ ContractExists(c)
                            /\ contracts'[c].file = contracts[c].file
                            /\ contracts'[c].provider = contracts[c].provider
<1>3. CASE UNCHANGED dbVars
  <2>1. c < nextContract' /\ SameRow
    BY <1>2, <1>3 DEF dbVars, ContractExists
  <2> QED
    BY <1>2, <2>1 DEF StillNames
<1>4. ASSUME NEW f \in FileIds,
             \/ CreateFile(f) \/ UpgradeFileStatusIfNeeded(f)
             \/ DowngradeFileStatusIfNeeded(f) \/ FinishDownloadJob(f)
      PROVE  StillNames(con)'
  <2>1. c < nextContract' /\ SameRow
    BY <1>2, <1>4
    DEF CreateFile, UpgradeFileStatusIfNeeded, DowngradeFileStatusIfNeeded,
        FinishDownloadJob, ContractExists
  <2> QED
    BY <1>2, <2>1 DEF StillNames
<1>5. ASSUME NEW f \in FileIds, DeleteFile(f)
      PROVE  StillNames(con)'
  <2>1. c < nextContract' /\ SameRow
    BY <1>1, <1>2, <1>5 DEF DeleteFile, ContractExists, NoRow
  <2> QED
    BY <1>2, <2>1 DEF StillNames
<1>6. ASSUME NEW f \in FileIds, NEW p \in Providers, RegisterContract(f, p)
      PROVE  StillNames(con)'
  <2>1. contracts'[c] = contracts[c] /\ c < nextContract'
    BY <1>1, <1>2, <1>6 DEF RegisterContract, DBTypeOK
  <2> QED
    BY <1>2, <2>1 DEF StillNames, ContractExists
<1>7. ASSUME NEW d \in ContractIds, NEW s \in ContractStatus, SetContractStatus(d, s)
      PROVE  StillNames(con)'
  <2>1. nextContract' = nextContract
    BY <1>7 DEF SetContractStatus
  <2>2. CASE ContractExists(c)
    <3>1. contracts[c] \in Contract
      BY <1>1, <2>2, RowIsContract
    <3>2. \/ contracts'[c] = contracts[c]
          \/ contracts'[c] = [contracts[c] EXCEPT !.status = s]
      BY <1>1, <1>7 DEF SetContractStatus, DBTypeOK
    <3>3. SameRow
      BY <2>2, <3>1, <3>2 DEF Contract
    <3> QED
      BY <1>2, <2>1, <3>3 DEF StillNames
  <2>3. CASE ~ContractExists(c)
    <3>1. contracts'[c] = contracts[c]
      BY <1>1, <1>7, <2>3 DEF SetContractStatus, DBTypeOK
    <3> QED
      BY <1>2, <2>1, <2>3, <3>1 DEF StillNames, ContractExists
  <2> QED
    BY <2>2, <2>3
<1> QED
  BY <1>3, <1>4, <1>5, <1>6, <1>7 DEF DBStep, DaemonStep

-----------------------------------------------------------------------------
(* What a process has read keeps naming the same contract.                  *)

LEMMA HeldType ==
  ASSUME TypeOK
  PROVE  /\ \A a \in Auditors : HeldByAuditor(a) \subseteq Snapshot
         /\ \A x \in AdminRequests : HeldByAdmin(x) \subseteq Snapshot
<1>1. \A a \in Auditors : aud[a] \in AudState
  BY DEF TypeOK
<1>2. \A x \in AdminRequests : adm[x] \in AdmState
  BY DEF TypeOK
<1> QED
  BY <1>1, <1>2, AudFields, AdmFields DEF HeldByAuditor, HeldByAdmin

LEMMA FreshSnapshot ==
  ASSUME DBTypeOK, FreshIds, NEW c \in ContractIds, ContractExists(c)
  PROVE  StillNames(SnapshotOf(c))
<1>1. c \in Int /\ nextContract \in Int
  BY MaxContractsAssumption DEF ContractIds, DBTypeOK
<1> QED
  BY <1>1 DEF FreshIds, StillNames, SnapshotOf

\* An auditor only ever drops rows, except when it queries.
LEMMA AuditorHolds ==
  ASSUME TypeOK, NEW a \in Auditors, Auditor(a)
  PROVE  /\ \A b \in Auditors \ {a} : aud'[b] = aud[b]
         /\ adm' = adm
         /\ \A con \in HeldByAuditor(a)' :
              \/ con \in HeldByAuditor(a)
              \/ \E c \in ContractIds : ContractExists(c) /\ con = SnapshotOf(c)
<1>1. aud \in [Auditors -> AudState]
  BY DEF TypeOK
<1>2. CASE AuditorQuery(a)
  <2>1. PICK due \in SUBSET ContractsForAudit(NumAuditors, a) :
          aud' = [aud EXCEPT ![a] = Batch({SnapshotOf(c) : c \in due})]
    BY <1>2 DEF AuditorQuery
  <2>2. \A c \in due : c \in ContractIds /\ ContractExists(c)
    BY DEF ContractsForAudit, Live, ContractExists
  <2>3. HeldByAuditor(a)' \subseteq {SnapshotOf(c) : c \in due}
    BY <1>1, <2>1 DEF HeldByAuditor, Batch, Idle, AuditSteps
  <2> QED
    BY <1>1, <1>2, <2>1, <2>2, <2>3 DEF AuditorQuery
<1>3. CASE AuditorProbe(a)
  <2>1. PICK con \in aud[a].todo : AuditorHealthy(a, con) \/ AuditorDead(a, con)
    BY <1>3 DEF AuditorProbe
  <2>2. HeldByAuditor(a) = aud[a].todo
    BY <1>3 DEF AuditorProbe, HeldByAuditor, AuditSteps
  <2>3. \E t : /\ aud' = [aud EXCEPT ![a] = t]
               /\ \/ t = Batch(aud[a].todo \ {con})
                  \/ \E st \in AuditSteps : t = Audit(st, aud[a].todo \ {con}, con)
    BY <2>1 DEF AuditorHealthy, AuditorDead, AuditSteps
  <2>4. HeldByAuditor(a)' \subseteq aud[a].todo
    BY <1>1, <2>1, <2>3 DEF HeldByAuditor, Batch, Idle, Audit, AuditSteps
  <2> QED
    BY <1>1, <1>3, <2>2, <2>3, <2>4 DEF AuditorProbe
<1>4. CASE AuditorRemove(a)
  BY <1>1, <1>4
  DEF AuditorRemove, HeldByAuditor, Audit, AuditSteps
<1>5. CASE \/ AuditorActivate(a) \/ AuditorUpgrade(a) \/ AuditorUpgradeWrite(a)
           \/ AuditorSend(a) \/ AuditorFail(a)
           \/ AuditorDowngrade(a) \/ AuditorDowngradeWrite(a)
  <2>1. HeldByAuditor(a) = aud[a].todo \cup {aud[a].con}
    BY <1>5
    DEF AuditorActivate, AuditorUpgrade, AuditorUpgradeWrite, AuditorSend,
        AuditorFail, AuditorDowngrade, AuditorDowngradeWrite, HeldByAuditor,
        AuditSteps
  <2>2. /\ adm' = adm
        /\ \E t : /\ aud' = [aud EXCEPT ![a] = t]
                  /\ \/ t = Batch(aud[a].todo)
                     \/ \E st \in AuditSteps : t = Audit(st, aud[a].todo, aud[a].con)
    BY <1>5
    DEF AuditorActivate, AuditorUpgrade, AuditorUpgradeWrite, AuditorSend,
        AuditorFail, AuditorDowngrade, AuditorDowngradeWrite, AuditSteps
  <2>3. HeldByAuditor(a)' \subseteq aud[a].todo \cup {aud[a].con}
    BY <1>1, <2>2 DEF HeldByAuditor, Batch, Idle, Audit, AuditSteps
  <2> QED
    BY <1>1, <2>1, <2>2, <2>3
<1> QED
  BY <1>2, <1>3, <1>4, <1>5 DEF Auditor

\* An admin request reads a row when it starts and drops it when it ends.
LEMMA AdminHolds ==
  ASSUME TypeOK, NEW x \in AdminRequests, Manual(x) \/ Withdrawal(x)
  PROVE  /\ \A y \in AdminRequests \ {x} : adm'[y] = adm[y]
         /\ aud' = aud
         /\ \A con \in HeldByAdmin(x)' :
              \/ con \in HeldByAdmin(x)
              \/ \E c \in ContractIds : ContractExists(c) /\ con = SnapshotOf(c)
<1>1. adm \in [AdminRequests -> AdmState]
  BY DEF TypeOK
<1>2. CASE Manual(x)
  <2>1. aud' = aud /\ \E t : adm' = [adm EXCEPT ![x] = t]
                             /\ t.pc \notin {"remove", "sendRemoval", "mark"}
    <3>1. CASE ManualReplicate(x)
      BY <3>1 DEF ManualReplicate
    <3>2. CASE ManualFetch(x)
      BY <3>2 DEF ManualFetch, Idle
    <3>3. CASE ManualSend(x)
      BY <3>3 DEF ManualSend, Idle
    <3>4. CASE ManualRegister(x)
      <4>1. aud' = aud /\ adm' = [adm EXCEPT ![x] = Idle]
        BY <3>4 DEF ManualRegister
      <4>2. Idle.pc \notin {"remove", "sendRemoval", "mark"}
        BY DEF Idle
      <4> QED
        BY <4>1, <4>2
    <3> QED
      BY <1>2, <3>1, <3>2, <3>3, <3>4 DEF Manual
  <2> QED
    BY <1>1, <2>1 DEF HeldByAdmin
<1>3. CASE Withdraw(x)
  BY <1>1, <1>3 DEF Withdraw, HeldByAdmin
<1>4. CASE WithdrawRemove(x) \/ WithdrawSend(x) \/ WithdrawMark(x)
  BY <1>1, <1>4 DEF WithdrawRemove, WithdrawSend, WithdrawMark, HeldByAdmin, Idle
<1> QED
  BY <1>2, <1>3, <1>4 DEF Withdrawal

LEMMA HeldRowsStep ==
  ASSUME TypeOK, FreshIds, HeldRowsMatch, [Next]_vars
  PROVE  HeldRowsMatch'
<1>1. DBTypeOK /\ DBStep
  BY OneStatement DEF TypeOK
<1>2. /\ \A a \in Auditors : \A con \in HeldByAuditor(a) : StillNames(con)'
      /\ \A x \in AdminRequests : \A con \in HeldByAdmin(x) : StillNames(con)'
  BY <1>1, HeldType, NamesStay DEF HeldRowsMatch
<1>3. ASSUME NEW con, NEW c \in ContractIds, ContractExists(c), con = SnapshotOf(c)
      PROVE  StillNames(con)'
  <2>1. con \in Snapshot /\ StillNames(con)
    BY <1>1, <1>3, SnapshotType, FreshSnapshot
  <2> QED
    BY <1>1, <2>1, NamesStay
<1>4. CASE UNCHANGED <<aud, adm>>
  BY <1>2, <1>4 DEF HeldRowsMatch, HeldByAuditor, HeldByAdmin
<1>5. ASSUME NEW a \in Auditors, Auditor(a)
      PROVE  HeldRowsMatch'
  <2>1. ASSUME NEW b \in Auditors, NEW con \in HeldByAuditor(b)'
        PROVE  StillNames(con)'
    <3>1. CASE b = a
      BY <1>2, <1>3, <1>5, <2>1, <3>1, AuditorHolds
    <3>2. CASE b # a
      <4>1. con \in HeldByAuditor(b)
        BY <1>5, <2>1, <3>2, AuditorHolds DEF HeldByAuditor
      <4> QED
        BY <1>2, <4>1
    <3> QED
      BY <3>1, <3>2
  <2>2. \A x \in AdminRequests : HeldByAdmin(x)' = HeldByAdmin(x)
    BY <1>5, AuditorHolds DEF HeldByAdmin
  <2> QED
    BY <1>2, <2>1, <2>2 DEF HeldRowsMatch
<1>6. ASSUME NEW x \in AdminRequests, Manual(x) \/ Withdrawal(x)
      PROVE  HeldRowsMatch'
  <2>1. ASSUME NEW y \in AdminRequests, NEW con \in HeldByAdmin(y)'
        PROVE  StillNames(con)'
    <3>1. CASE y = x
      BY <1>2, <1>3, <1>6, <2>1, <3>1, AdminHolds
    <3>2. CASE y # x
      <4>1. con \in HeldByAdmin(y)
        BY <1>6, <2>1, <3>2, AdminHolds DEF HeldByAdmin
      <4> QED
        BY <1>2, <4>1
    <3> QED
      BY <3>1, <3>2
  <2>2. \A a \in Auditors : HeldByAuditor(a)' = HeldByAuditor(a)
    BY <1>6, AdminHolds DEF HeldByAuditor
  <2> QED
    BY <1>2, <2>1, <2>2 DEF HeldRowsMatch
<1>7. CASE Restart
  BY <1>7 DEF Restart, HeldRowsMatch, HeldByAuditor, HeldByAdmin, Idle, AuditSteps
<1>8. ASSUME NEW w \in Replicators, Replicator(w)
      PROVE  UNCHANGED <<aud, adm>>
  BY <1>8
  DEF Replicator, ReplicatorQuery, ReplicatorTake, ReplicatorFetch, ReplicatorSend,
      ReplicatorRegister
<1>9. ASSUME \/ \E f \in FileIds : Upload(f) \/ Delete(f) \/ DownloadDone(f)
             \/ \E t \in LateSlots : LateTransaction(t)
      PROVE  UNCHANGED <<aud, adm>>
  BY <1>9 DEF Upload, Delete, DownloadDone, LateTransaction, procVars
<1>10. CASE UNCHANGED vars
  BY <1>4, <1>10 DEF vars, procVars
<1> QED
  BY <1>4, <1>5, <1>6, <1>7, <1>8, <1>9, <1>10 DEF Next, AdminRequests

-----------------------------------------------------------------------------
(* ShortfallIsOwed.                                                         *)

\* A step that takes no active contract from a file does not make it short.
LEMMA ShortBefore ==
  ASSUME TargetReplicas \in [FileIds -> Int], NEW f \in FileIds,
         files'[f] = "active" => files[f] = "active",
         ContractsOf(f, {"active"}) \subseteq ContractsOf(f, {"active"})',
         Short(f)'
  PROVE  Short(f)
<1>1. IsFiniteSet(ContractIds)
  BY MaxContractsAssumption, FS_Interval DEF ContractIds
<1>2. ContractsOf(f, {"active"})' \subseteq ContractIds
  BY DEF ContractsOf
<1>3. IsFiniteSet(ContractsOf(f, {"active"})')
  BY <1>1, <1>2, FS_Subset
<1>4. /\ Cardinality(ContractsOf(f, {"active"})) \in Nat
      /\ Cardinality(ContractsOf(f, {"active"})') \in Nat
      /\ Cardinality(ContractsOf(f, {"active"})) <= Cardinality(ContractsOf(f, {"active"})')
  BY <1>3, FS_Subset, FS_CardinalityType
<1> QED
  BY <1>4 DEF Short, ActiveCount

\* Which statements leave the active contracts of f alone.
LEMMA KeepsActive ==
  ASSUME DBTypeOK, FreshIds, NEW f \in FileIds
  PROVE  /\ contracts' = contracts =>
              ContractsOf(f, {"active"}) \subseteq ContractsOf(f, {"active"})'
         /\ \A g \in FileIds, p \in Providers :
              RegisterContract(g, p) /\ nextContract <= MaxContracts =>
                ContractsOf(f, {"active"}) \subseteq ContractsOf(f, {"active"})'
         /\ \A g \in FileIds \ {f} :
              DeleteFile(g) =>
                ContractsOf(f, {"active"}) \subseteq ContractsOf(f, {"active"})'
         /\ \A c \in ContractIds :
              MarkContractActive(c) =>
                ContractsOf(f, {"active"}) \subseteq ContractsOf(f, {"active"})'
         /\ \A c \in ContractIds :
              MarkContractFailed(c) /\ (ContractExists(c) => contracts[c].file # f) =>
                ContractsOf(f, {"active"}) \subseteq ContractsOf(f, {"active"})'
<1> DEFINE A == ContractsOf(f, {"active"})
<1>1. \A c \in A : /\ c \in ContractIds /\ ContractExists(c)
                   /\ contracts[c].status = "active" /\ contracts[c].file = f
  BY DEF ContractsOf, ContractExists
<1>2. ASSUME contracts' = contracts
      PROVE  A \subseteq A'
  BY <1>2 DEF ContractsOf
<1>3. ASSUME NEW g \in FileIds, NEW p \in Providers,
             RegisterContract(g, p), nextContract <= MaxContracts
      PROVE  A \subseteq A'
  <2>1. nextContract \notin A
    BY <1>1, MaxContractsAssumption DEF FreshIds, DBTypeOK, ContractIds
  <2>2. \A c \in A : contracts'[c] = contracts[c]
    BY <1>1, <1>3, <2>1 DEF RegisterContract, DBTypeOK
  <2> QED
    BY <1>1, <2>2 DEF ContractsOf
<1>4. ASSUME NEW g \in FileIds \ {f}, DeleteFile(g)
      PROVE  A \subseteq A'
  <2>1. \A c \in A : contracts'[c] = contracts[c]
    BY <1>1, <1>4 DEF DeleteFile, ContractsOf
  <2> QED
    BY <1>1, <2>1 DEF ContractsOf
<1>5. ASSUME NEW d \in ContractIds, MarkContractActive(d)
      PROVE  A \subseteq A'
  <2>1. ASSUME NEW c \in A
        PROVE  contracts'[c].status = "active" /\ contracts'[c].file = f
    <3>1. contracts[c] \in Contract
      BY <1>1, RowIsContract
    <3> QED
      BY <1>1, <1>5, <3>1
      DEF MarkContractActive, SetContractStatus, DBTypeOK, Contract
  <2> QED
    BY <1>1, <2>1 DEF ContractsOf
<1>6. ASSUME NEW d \in ContractIds, MarkContractFailed(d),
             ContractExists(d) => contracts[d].file # f
      PROVE  A \subseteq A'
  <2>1. \A c \in A : contracts'[c] = contracts[c]
    BY <1>1, <1>6 DEF MarkContractFailed, SetContractStatus, DBTypeOK
  <2> QED
    BY <1>1, <2>1 DEF ContractsOf
<1> QED
  BY <1>2, <1>3, <1>4, <1>5, <1>6

\* A debt is paid only by the auditor that owes it, or cancelled by a restart.
LEMMA DebtStays ==
  ASSUME TypeOK, NEW a \in Auditors, NEW t,
         aud[a].pc \notin {"downgrade", "downgradeWrite"},
         aud' = [aud EXCEPT ![a] = t],
         NEW f \in FileIds, DowngradeOwed(f)
  PROVE  DowngradeOwed(f)'
BY DEF DowngradeOwed, TypeOK

LEMMA OthersDebtStays ==
  ASSUME TypeOK, NEW a \in Auditors, NEW t,
         aud' = [aud EXCEPT ![a] = t],
         NEW f \in FileIds, f # aud[a].con.file, DowngradeOwed(f)
  PROVE  DowngradeOwed(f)'
BY DEF DowngradeOwed, TypeOK

\* What has to be shown of a step.
LEMMA ShortfallStep ==
  ASSUME ShortfallIsOwed,
         \A f \in FileIds : Short(f)' =>
           \/ DowngradeOwed(f)' \/ f \in unrepaired'
           \/ /\ Short(f)
              /\ DowngradeOwed(f) => DowngradeOwed(f)'
              /\ f \in unrepaired => f \in unrepaired'
  PROVE  ShortfallIsOwed'
BY DEF ShortfallIsOwed

LEMMA ForgetKeeps ==
  ASSUME NEW F \in SUBSET FileIds, Forget(F), NEW f \in FileIds, Short(f)'
  PROVE  f \in unrepaired \cup F => f \in unrepaired'
BY DEF Forget

\* A step that leaves the tables and the debts alone.
LEMMA QuietStep ==
  ASSUME ShortfallIsOwed, UNCHANGED <<files, contracts, unrepaired>>,
         \A f \in FileIds : DowngradeOwed(f) => DowngradeOwed(f)'
  PROVE  ShortfallIsOwed'
<1>1. \A f \in FileIds : Short(f)' = Short(f)
  BY DEF Short, ActiveCount, ContractsOf
<1> QED
  BY <1>1, ShortfallStep

LEMMA ShortfallReplicator ==
  ASSUME ShortfallInv, NEW w \in Replicators, Replicator(w)
  PROVE  ShortfallIsOwed'
<1>1. \A f \in FileIds : aud' = aud => (DowngradeOwed(f) => DowngradeOwed(f)')
  BY DEF DowngradeOwed
<1>2. CASE ReplicatorRegister(w)
  <2>1. rep[w].job.file \in FileIds /\ rep[w].provider \in Providers
    BY <1>2, RepFields DEF ShortfallInv, TypeOK, ReplicatorRegister, Job
  <2>2. files' = files /\ aud' = aud
    BY <1>2 DEF ReplicatorRegister, RegisterContract, dbVars
  <2>3. ASSUME NEW f \in FileIds
        PROVE  ContractsOf(f, {"active"}) \subseteq ContractsOf(f, {"active"})'
    BY <1>2, <2>1, KeepsActive DEF ReplicatorRegister, dbVars, ShortfallInv, TypeOK
  <2>4. \A f \in FileIds : Short(f)' => Short(f)
    BY <2>2, <2>3, ShortBefore, TargetAssumption
  <2>5. \A f \in FileIds : Short(f)' => (f \in unrepaired => f \in unrepaired')
    BY <1>2, ForgetKeeps DEF ReplicatorRegister
  <2> QED
    BY <1>1, <2>2, <2>4, <2>5, ShortfallStep DEF ShortfallInv
<1>3. CASE \/ ReplicatorQuery(w) \/ ReplicatorTake(w) \/ ReplicatorFetch(w)
           \/ ReplicatorSend(w)
  <2>1. UNCHANGED <<files, contracts, unrepaired>> /\ aud' = aud
    BY <1>3
    DEF ReplicatorQuery, ReplicatorTake, ReplicatorFetch, ReplicatorSend, dbVars,
        historyVars
  <2> QED
    BY <1>1, <2>1, QuietStep DEF ShortfallInv
<1> QED
  BY <1>2, <1>3 DEF Replicator

LEMMA ShortfallAdmin ==
  ASSUME ShortfallInv, NEW x \in AdminRequests, Manual(x) \/ Withdrawal(x)
  PROVE  ShortfallIsOwed'
<1>1. \A f \in FileIds : aud' = aud => (DowngradeOwed(f) => DowngradeOwed(f)')
  BY DEF DowngradeOwed
<1>2. adm[x] \in AdmState
  BY DEF ShortfallInv, TypeOK
<1>3. CASE ManualRegister(x)
  <2>1. adm[x].file \in FileIds /\ adm[x].provider \in Providers
    BY <1>2, <1>3, AdmFields DEF ManualRegister
  <2>2. files' = files /\ aud' = aud
    BY <1>3 DEF ManualRegister, RegisterContract, dbVars
  <2>3. ASSUME NEW f \in FileIds
        PROVE  ContractsOf(f, {"active"}) \subseteq ContractsOf(f, {"active"})'
    BY <1>3, <2>1, KeepsActive DEF ManualRegister, dbVars, ShortfallInv, TypeOK
  <2>4. \A f \in FileIds : Short(f)' => Short(f)
    BY <2>2, <2>3, ShortBefore, TargetAssumption
  <2>5. \A f \in FileIds : Short(f)' => (f \in unrepaired => f \in unrepaired')
    BY <1>3, ForgetKeeps DEF ManualRegister
  <2> QED
    BY <1>1, <2>2, <2>4, <2>5, ShortfallStep DEF ShortfallInv
<1>4. CASE WithdrawMark(x)
  <2> DEFINE con == adm[x].con
  <2>1. /\ con \in Snapshot /\ con.id \in ContractIds /\ con.file \in FileIds
        /\ StillNames(con)
    <3>1. con \in HeldByAdmin(x)
      BY <1>4 DEF WithdrawMark, HeldByAdmin
    <3> QED
      BY <3>1, HeldType DEF ShortfallInv, HeldRowsMatch, Snapshot
  <2>2. files' = files /\ aud' = aud /\ Forget({con.file})
    BY <1>4 DEF WithdrawMark, MarkContractFailed, SetContractStatus, dbVars
  <2>3. ASSUME NEW f \in FileIds, f # con.file, Short(f)'
        PROVE  Short(f)
    <3>1. contracts' = contracts \/ MarkContractFailed(con.id)
      BY <1>4 DEF WithdrawMark, dbVars
    <3>2. ContractExists(con.id) => contracts[con.id].file # f
      BY <2>1, <2>3 DEF StillNames
    <3>3. ContractsOf(f, {"active"}) \subseteq ContractsOf(f, {"active"})'
      BY <2>1, <3>1, <3>2, KeepsActive DEF ShortfallInv, TypeOK
    <3> QED
      BY <2>2, <2>3, <3>3, ShortBefore, TargetAssumption
  <2>4. \A f \in FileIds : Short(f)' =>
          (f \in unrepaired \/ f = con.file => f \in unrepaired')
    BY <2>1, <2>2, ForgetKeeps
  <2> QED
    BY <1>1, <2>2, <2>3, <2>4, ShortfallStep DEF ShortfallInv
<1>5. CASE \/ ManualReplicate(x) \/ ManualFetch(x) \/ ManualSend(x)
           \/ Withdraw(x) \/ WithdrawRemove(x) \/ WithdrawSend(x)
  <2>1. UNCHANGED <<files, contracts, unrepaired>> /\ aud' = aud
    BY <1>5
    DEF ManualReplicate, ManualFetch, ManualSend, Withdraw, WithdrawRemove,
        WithdrawSend, dbVars, historyVars
  <2> QED
    BY <1>1, <2>1, QuietStep DEF ShortfallInv
<1> QED
  BY <1>3, <1>4, <1>5 DEF Manual, Withdrawal

LEMMA ShortfallAuditor ==
  ASSUME ShortfallInv, NEW a \in Auditors, Auditor(a)
  PROVE  ShortfallIsOwed'
<1> DEFINE con == aud[a].con
           Owes == {"downgrade", "downgradeWrite"}
<1>1. TypeOK /\ aud \in [Auditors -> AudState] /\ aud[a] \in AudState
  BY DEF ShortfallInv, TypeOK
<1>2. aud[a].pc \in AuditSteps =>
        /\ con \in Snapshot /\ con.id \in ContractIds /\ con.file \in FileIds
        /\ StillNames(con)
  <2>1. aud[a].pc \in AuditSteps => con \in HeldByAuditor(a)
    BY DEF HeldByAuditor
  <2> QED
    BY <1>1, <2>1, HeldType DEF ShortfallInv, HeldRowsMatch, Snapshot
<1>3. CASE \/ AuditorQuery(a) \/ AuditorProbe(a) \/ AuditorUpgrade(a)
           \/ AuditorRemove(a) \/ AuditorSend(a)
  <2>1. /\ UNCHANGED <<files, contracts, unrepaired>>
        /\ aud[a].pc \notin Owes
        /\ \E t : aud' = [aud EXCEPT ![a] = t]
    BY <1>3
    DEF AuditorQuery, AuditorProbe, AuditorHealthy, AuditorDead, AuditorUpgrade,
        AuditorRemove, AuditorSend, dbVars, historyVars
  <2>2. \A f \in FileIds : DowngradeOwed(f) => DowngradeOwed(f)'
    BY <1>1, <2>1, DebtStays
  <2> QED
    BY <2>1, <2>2, QuietStep DEF ShortfallInv
<1>4. CASE AuditorActivate(a)
  <2>1. /\ files' = files /\ Forget({})
        /\ MarkContractActive(con.id) \/ contracts' = contracts
        /\ aud[a].pc \in AuditSteps \ Owes
        /\ \E t : aud' = [aud EXCEPT ![a] = t]
    BY <1>4
    DEF AuditorActivate, MarkContractActive, SetContractStatus, dbVars, AuditSteps
  <2>2. \A f \in FileIds : DowngradeOwed(f) => DowngradeOwed(f)'
    BY <1>1, <2>1, DebtStays
  <2>3. \A f \in FileIds :
          ContractsOf(f, {"active"}) \subseteq ContractsOf(f, {"active"})'
    BY <1>2, <2>1, KeepsActive DEF ShortfallInv, TypeOK
  <2>4. \A f \in FileIds : Short(f)' => Short(f)
    BY <2>1, <2>3, ShortBefore, TargetAssumption
  <2>5. \A f \in FileIds : Short(f)' => (f \in unrepaired => f \in unrepaired')
    BY <2>1, ForgetKeeps
  <2> QED
    BY <2>2, <2>4, <2>5, ShortfallStep DEF ShortfallInv
<1>5. CASE AuditorUpgradeWrite(a)
  <2>1. /\ contracts' = contracts /\ Forget({con.file})
        /\ \A f \in FileIds \ {con.file} : files'[f] = files[f]
        /\ aud[a].pc \in AuditSteps \ Owes
        /\ \E t : aud' = [aud EXCEPT ![a] = t]
    BY <1>5
    DEF AuditorUpgradeWrite, UpgradeFileStatusIfNeeded, AuditSteps, ShortfallInv,
        TypeOK, DBTypeOK
  <2>2. \A f \in FileIds : DowngradeOwed(f) => DowngradeOwed(f)'
    BY <1>1, <2>1, DebtStays
  <2>3. \A f \in FileIds \ {con.file} : Short(f)' => Short(f)
    BY <2>1 DEF Short, ActiveCount, ContractsOf
  <2>4. \A f \in FileIds : Short(f)' =>
          (f \in unrepaired \/ f = con.file => f \in unrepaired')
    BY <1>2, <2>1, ForgetKeeps
  <2> QED
    BY <2>2, <2>3, <2>4, ShortfallStep DEF ShortfallInv
<1>6. CASE AuditorFail(a)
  <2>1. /\ files' = files /\ Forget({})
        /\ aud[a].pc \in AuditSteps \ Owes
        /\ \/ /\ MarkContractFailed(con.id)
              /\ aud' = [aud EXCEPT ![a] = Audit("downgrade", aud[a].todo, con)]
           \/ /\ contracts' = contracts
              /\ \E t : aud' = [aud EXCEPT ![a] = t]
    BY <1>6
    DEF AuditorFail, MarkContractFailed, SetContractStatus, dbVars, AuditSteps
  <2>2. \A f \in FileIds : DowngradeOwed(f) => DowngradeOwed(f)'
    BY <1>1, <2>1, DebtStays
  <2>3. \A f \in FileIds : Short(f)' => (f \in unrepaired => f \in unrepaired')
    BY <2>1, ForgetKeeps
  <2>4. ASSUME NEW f \in FileIds, Short(f)'
        PROVE  Short(f) \/ DowngradeOwed(f)'
    <3>1. CASE contracts' = contracts
      BY <2>1, <2>4, <3>1 DEF Short, ActiveCount, ContractsOf
    <3>2. CASE MarkContractFailed(con.id) /\ f # con.file
      <4>1. ContractExists(con.id) => contracts[con.id].file # f
        BY <1>2, <2>1, <3>2 DEF StillNames
      <4>2. ContractsOf(f, {"active"}) \subseteq ContractsOf(f, {"active"})'
        BY <1>2, <2>1, <3>2, <4>1, KeepsActive DEF ShortfallInv, TypeOK
      <4> QED
        BY <2>1, <2>4, <4>2, ShortBefore, TargetAssumption
    <3>3. CASE /\ f = con.file
               /\ aud' = [aud EXCEPT ![a] = Audit("downgrade", aud[a].todo, con)]
      <4>1. aud'[a].pc = "downgrade" /\ aud'[a].con.file = f
        BY <1>1, <3>3 DEF Audit
      <4> QED
        BY <4>1 DEF DowngradeOwed
    <3> QED
      BY <2>1, <3>1, <3>2, <3>3
  <2> QED
    BY <2>2, <2>3, <2>4, ShortfallStep DEF ShortfallInv
<1>7. CASE AuditorDowngrade(a)
  <2>1. /\ files' = files /\ contracts' = contracts
        /\ aud[a].pc \in AuditSteps
        /\ \/ /\ aud' = [aud EXCEPT ![a] = Audit("downgradeWrite", aud[a].todo, con)]
              /\ unrepaired' = unrepaired
           \/ /\ \E t : aud' = [aud EXCEPT ![a] = t]
              /\ ~DowngradeNeeded(con.file)
              /\ unrepaired' = unrepaired
           \/ /\ \E t : aud' = [aud EXCEPT ![a] = t]
              /\ Forget({con.file})
    BY <1>7 DEF AuditorDowngrade, dbVars, AuditSteps, historyVars
  <2>2. \A f \in FileIds : Short(f)' => Short(f)
    BY <2>1 DEF Short, ActiveCount, ContractsOf
  <2>3. CASE /\ aud' = [aud EXCEPT ![a] = Audit("downgradeWrite", aud[a].todo, con)]
             /\ unrepaired' = unrepaired
    <3>1. aud'[a].pc = "downgradeWrite" /\ aud'[a].con.file = con.file
      BY <1>1, <2>3 DEF Audit
    <3>2. \A f \in FileIds \ {con.file} : DowngradeOwed(f) => DowngradeOwed(f)'
      BY <1>1, <2>3, OthersDebtStays
    <3>3. \A f \in FileIds : DowngradeOwed(f) => DowngradeOwed(f)'
      BY <3>1, <3>2 DEF DowngradeOwed
    <3> QED
      BY <2>2, <2>3, <3>3, ShortfallStep DEF ShortfallInv
  <2>4. CASE /\ \E t : aud' = [aud EXCEPT ![a] = t]
             /\ Forget({con.file})
    <3>1. \A f \in FileIds \ {con.file} : DowngradeOwed(f) => DowngradeOwed(f)'
      BY <1>1, <2>4, OthersDebtStays
    <3>2. \A f \in FileIds : Short(f)' =>
            (f \in unrepaired \/ f = con.file => f \in unrepaired')
      BY <1>2, <2>1, <2>4, ForgetKeeps
    <3> QED
      BY <2>2, <3>1, <3>2, ShortfallStep DEF ShortfallInv
  <2>5. CASE /\ \E t : aud' = [aud EXCEPT ![a] = t]
             /\ ~DowngradeNeeded(con.file)
             /\ unrepaired' = unrepaired
    <3>1. \A f \in FileIds \ {con.file} : DowngradeOwed(f) => DowngradeOwed(f)'
      BY <1>1, <2>5, OthersDebtStays
    <3>2. ~Short(con.file)
      BY <2>5 DEF Short, DowngradeNeeded
    <3> QED
      BY <2>2, <2>5, <3>1, <3>2, ShortfallStep DEF ShortfallInv
  <2> QED
    BY <2>1, <2>3, <2>4, <2>5
<1>8. CASE AuditorDowngradeWrite(a)
  <2>1. /\ contracts' = contracts /\ Forget({})
        /\ files'[con.file] # "active"
        /\ \A f \in FileIds \ {con.file} : files'[f] = files[f]
        /\ \E t : aud' = [aud EXCEPT ![a] = t]
    BY <1>2, <1>8
    DEF AuditorDowngradeWrite, DowngradeFileStatusIfNeeded, AuditSteps,
        ShortfallInv, TypeOK, DBTypeOK
  <2>2. \A f \in FileIds : Short(f)' => Short(f) /\ f # con.file
    BY <2>1 DEF Short, ActiveCount, ContractsOf
  <2>3. \A f \in FileIds \ {con.file} : DowngradeOwed(f) => DowngradeOwed(f)'
    BY <1>1, <2>1, OthersDebtStays
  <2>4. \A f \in FileIds : Short(f)' => (f \in unrepaired => f \in unrepaired')
    BY <2>1, ForgetKeeps
  <2> QED
    BY <2>2, <2>3, <2>4, ShortfallStep DEF ShortfallInv
<1> QED
  BY <1>3, <1>4, <1>5, <1>6, <1>7, <1>8 DEF Auditor

LEMMA ShortfallFiles ==
  ASSUME ShortfallInv, NEW g \in FileIds, Upload(g) \/ Delete(g) \/ DownloadDone(g)
  PROVE  ShortfallIsOwed'
<1>1. \A f \in FileIds : DowngradeOwed(f) => DowngradeOwed(f)'
  BY DEF Upload, Delete, DownloadDone, procVars, DowngradeOwed
<1>2. DBTypeOK /\ FreshIds
  BY DEF ShortfallInv, TypeOK
<1>3. CASE Upload(g)
  <2>1. \A f \in FileIds : Short(f)' => Short(f)
    BY <1>2, <1>3
    DEF Upload, CreateFile, DBTypeOK, Short, ActiveCount, ContractsOf
  <2> QED
    BY <1>1, <1>3, <2>1, ShortfallStep DEF ShortfallInv, Upload, historyVars
<1>4. CASE Delete(g)
  <2>1. ASSUME NEW f \in FileIds, Short(f)'
        PROVE  Short(f)
    <3>1. f # g /\ files'[f] = files[f]
      BY <1>2, <1>4, <2>1 DEF Delete, DeleteFile, DBTypeOK, Short
    <3>2. ContractsOf(f, {"active"}) \subseteq ContractsOf(f, {"active"})'
      BY <1>2, <1>4, <3>1, KeepsActive DEF Delete
    <3> QED
      BY <2>1, <3>1, <3>2, ShortBefore, TargetAssumption
  <2>2. \A f \in FileIds : Short(f)' => (f \in unrepaired => f \in unrepaired')
    BY <1>4, ForgetKeeps DEF Delete
  <2> QED
    BY <1>1, <2>1, <2>2, ShortfallStep DEF ShortfallInv
<1>5. CASE DownloadDone(g)
  <2>1. \A f \in FileIds \ {g} : Short(f)' => Short(f)
    BY <1>2, <1>5
    DEF DownloadDone, FinishDownloadJob, DBTypeOK, Short, ActiveCount, ContractsOf
  <2>2. \A f \in FileIds : Short(f)' => (f \in unrepaired \/ f = g => f \in unrepaired')
    BY <1>5, ForgetKeeps DEF DownloadDone
  <2> QED
    BY <1>1, <2>1, <2>2, ShortfallStep DEF ShortfallInv
<1> QED
  BY <1>3, <1>4, <1>5

LEMMA ShortfallRestart ==
  ASSUME ShortfallInv, Restart
  PROVE  ShortfallIsOwed'
<1>1. \A f \in FileIds : Short(f)' => Short(f)
  BY DEF Restart, dbVars, Short, ActiveCount, ContractsOf
<1>2. \A f \in FileIds : Short(f)' =>
        (f \in unrepaired \/ DowngradeOwed(f) => f \in unrepaired')
  BY ForgetKeeps DEF Restart
<1>3. \A f \in FileIds : Short(f)' => f \in unrepaired'
  BY <1>1, <1>2 DEF ShortfallInv, ShortfallIsOwed
<1> QED
  BY <1>3 DEF ShortfallIsOwed

LEMMA ShortfallInit == Init => ShortfallInv
<1> SUFFICES ASSUME Init PROVE ShortfallInv
  OBVIOUS
<1>1. FreshIds
  BY DEF Init, DBInit, FreshIds, ContractExists, NoRow
<1>2. HeldRowsMatch
  BY DEF Init, HeldRowsMatch, HeldByAuditor, HeldByAdmin, Idle, AuditSteps
<1>3. ShortfallIsOwed
  BY DEF Init, DBInit, ShortfallIsOwed, Short
<1> QED
  BY <1>1, <1>2, <1>3, TypeInit DEF ShortfallInv

LEMMA ShortfallNext == ShortfallInv /\ [Next]_vars => ShortfallInv'
<1> SUFFICES ASSUME ShortfallInv, [Next]_vars PROVE ShortfallInv'
  OBVIOUS
<1>1. TypeOK'
  BY TypeNext DEF ShortfallInv
<1>2. FreshIds'
  BY OneStatement, FreshIdsStep DEF ShortfallInv, TypeOK
<1>3. HeldRowsMatch'
  BY HeldRowsStep DEF ShortfallInv
<1>4. ShortfallIsOwed'
  <2>1. CASE UNCHANGED vars \/ \E t \in LateSlots : LateTransaction(t)
    <3>1. /\ UNCHANGED <<files, contracts, unrepaired>>
          /\ \A f \in FileIds : DowngradeOwed(f) => DowngradeOwed(f)'
      BY <2>1
      DEF LateTransaction, vars, dbVars, procVars, historyVars, DowngradeOwed
    <3> QED
      BY <3>1, QuietStep DEF ShortfallInv
  <2>2. CASE Next
    BY <2>1, <2>2, ShortfallReplicator, ShortfallAdmin, ShortfallAuditor, ShortfallFiles,
       ShortfallRestart
    DEF Next, AdminRequests
  <2> QED
    BY <2>1, <2>2
<1> QED
  BY <1>1, <1>2, <1>3, <1>4 DEF ShortfallInv

\* Whatever the pools, the admins, the downloads and the restarts do, and for any
\* number of files, contracts and workers: an active file that is short of active
\* contracts is about to be downgraded by the auditor that failed one of them, or
\* one of the steps that ShortfallIsOwed names let go of it.
THEOREM ShortfallCorrect == Spec => []ShortfallIsOwed
<1>1. ShortfallInv => ShortfallIsOwed
  BY DEF ShortfallInv
<1> QED
  BY <1>1, ShortfallInit, ShortfallNext, PTL DEF Spec

\* The inductive invariant behind it, as the run checks it.
THEOREM ShortfallInvariant == Spec => []ShortfallInv
BY ShortfallInit, ShortfallNext, PTL DEF Spec

\* No statement of a worker or an admin makes a row of files or removes one.
LEMMA StatementsKeepFiles ==
  ASSUME DBTypeOK, DaemonStep
  PROVE  OnlyStatus
<1>1. \A f \in FileIds : files[f] \in FileStatus
  BY DEF DBTypeOK
<1>2. CASE UNCHANGED files
  BY <1>2 DEF OnlyStatus
<1>3. ASSUME NEW g \in FileIds,
             UpgradeFileStatusIfNeeded(g) \/ DowngradeFileStatusIfNeeded(g)
      PROVE  OnlyStatus
  BY <1>1, <1>3
  DEF UpgradeFileStatusIfNeeded, DowngradeFileStatusIfNeeded, OnlyStatus, DBTypeOK
<1> QED
  BY <1>2, <1>3 DEF DaemonStep, RegisterContract, SetContractStatus, dbVars

\* The promotion or demotion an auditor decided on before the file was deleted,
\* and a download that ends after that, do not bring it back.
THEOREM FilesComeAndGoCorrect == Spec => FilesComeAndGo
<1>1. ASSUME TypeOK, Next
      PROVE  OnlyStatus \/ \E f \in FileIds : Upload(f) \/ Delete(f)
  <2>1. DBTypeOK
    BY <1>1 DEF TypeOK
  <2>2. DaemonStep => OnlyStatus
    BY <2>1, StatementsKeepFiles
  <2>3. ASSUME NEW f \in FileIds, DownloadDone(f)
        PROVE  OnlyStatus
    BY <2>1, <2>3
    DEF DownloadDone, FinishDownloadJob, FileExists, OnlyStatus, DBTypeOK
  <2>4. Restart \/ (\E t \in LateSlots : LateTransaction(t)) => OnlyStatus
    BY DEF Restart, LateTransaction, dbVars, OnlyStatus
  <2> QED
    BY <1>1, <2>2, <2>3, <2>4, AuditorDBStep, ReplicatorDBStep, AdminDBStep
    DEF Next, AdminRequests
<1>2. TypeOK /\ [Next]_vars =>
        [OnlyStatus \/ \E f \in FileIds : Upload(f) \/ Delete(f)]_vars
  BY <1>1
<1> QED
  BY <1>2, TypeCorrect, PTL DEF Spec, FilesComeAndGo
=============================================================================
