---------------------------- MODULE Hiring_proofs ----------------------------
(***************************************************************************)
(* Proofs about Replication, continued: what the replicator pool hires and *)
(* what becomes of a contract's status, for every value of the constants.  *)
(***************************************************************************)
EXTENDS Replication_proofs

-----------------------------------------------------------------------------
(* What a statement does to the contract rows.                              *)

LEMMA SetStatusRows ==
  ASSUME DBTypeOK, NEW c \in ContractIds, NEW s \in ContractStatus,
         SetContractStatus(c, s)
  PROVE  /\ UNCHANGED <<files, nextContract>>
         /\ \A d \in ContractIds \ {c} : contracts'[d] = contracts[d]
         /\ ContractExists(c) => /\ contracts'[c].status = s
                                 /\ contracts'[c].file = contracts[c].file
                                 /\ contracts'[c].provider = contracts[c].provider
         /\ ~ContractExists(c) => contracts'[c] = contracts[c]
         /\ \A d \in ContractIds : ContractExists(d)' = ContractExists(d)
<1>1. UNCHANGED <<files, nextContract>>
  BY DEF SetContractStatus
<1>2. \A d \in ContractIds \ {c} : contracts'[d] = contracts[d]
  BY DEF SetContractStatus, DBTypeOK
<1>3. ~ContractExists(c) => contracts'[c] = contracts[c]
  BY DEF SetContractStatus, DBTypeOK
<1>4. ASSUME ContractExists(c)
      PROVE  /\ contracts'[c].status = s
             /\ contracts'[c].file = contracts[c].file
             /\ contracts'[c].provider = contracts[c].provider
  <2>1. contracts[c] \in Contract
    BY <1>4, RowIsContract
  <2>2. contracts'[c] = [contracts[c] EXCEPT !.status = s]
    BY <1>4 DEF SetContractStatus, DBTypeOK
  <2> QED
    BY <2>1, <2>2 DEF Contract
<1>5. \A d \in ContractIds : ContractExists(d)' = ContractExists(d)
  BY <1>2, <1>3, <1>4 DEF ContractExists, ContractStatus
<1> QED
  BY <1>1, <1>2, <1>3, <1>4, <1>5

LEMMA RegisterRows ==
  ASSUME DBTypeOK, FreshIds, NEW f \in FileIds, NEW p \in Providers,
         RegisterContract(f, p), nextContract <= MaxContracts
  PROVE  /\ FileExists(f) /\ files' = files
         /\ nextContract \in ContractIds /\ nextContract' = nextContract + 1
         /\ ~ContractExists(nextContract)
         /\ contracts'[nextContract] =
              [file |-> f, provider |-> p, status |-> "pending"]
         /\ \A d \in ContractIds \ {nextContract} : contracts'[d] = contracts[d]
<1>1. nextContract \in ContractIds
  BY MaxContractsAssumption DEF DBTypeOK, ContractIds
<1>2. nextContract >= nextContract
  BY MaxContractsAssumption DEF DBTypeOK
<1> QED
  BY <1>1, <1>2 DEF RegisterContract, DBTypeOK, FreshIds

LEMMA DeleteRows ==
  ASSUME DBTypeOK, NEW g \in FileIds, DeleteFile(g)
  PROVE  /\ nextContract' = nextContract
         /\ \A f \in FileIds \ {g} : files'[f] = files[f]
         /\ \A d \in ContractIds :
              IF ContractExists(d) /\ contracts[d].file = g
                THEN contracts'[d] = NoRow ELSE contracts'[d] = contracts[d]
<1>1. \A d \in ContractIds :
        ContractExists(d) /\ contracts[d].file = g <=> d \in ContractsOf(g, ContractStatus)
  BY RowIsContract DEF ContractsOf, ContractExists, Contract, ContractStatus
<1> QED
  BY <1>1 DEF DeleteFile, DBTypeOK

-----------------------------------------------------------------------------
(* The steps that change the contract rows or their histories.              *)

PoolHire(w) ==
  /\ rep[w].pc = "register" /\ nextContract <= MaxContracts
  /\ RegisterContract(rep[w].job.file, rep[w].provider)
  /\ rep' = [rep EXCEPT ![w] =
               NextHire(rep[w].todo, rep[w].job,
                        rep[w].job.excludes \cup {rep[w].provider})]
  /\ UNCHANGED <<aud, manual, withdrawn>>

ManualHire(x) ==
  /\ adm[x].pc = "register" /\ nextContract <= MaxContracts
  /\ RegisterContract(adm[x].file, adm[x].provider)
  /\ manual' = manual \cup {nextContract}
  /\ UNCHANGED <<rep, aud, withdrawn>>

Activation(a) ==
  /\ aud[a].pc = "activate"
  /\ MarkContractActive(aud[a].con.id)
  /\ aud' = [aud EXCEPT ![a] = Audit("upgrade", aud[a].todo, aud[a].con)]
  /\ UNCHANGED <<rep, manual, withdrawn>>

Firing(a) ==
  /\ aud[a].pc = "fail"
  /\ MarkContractFailed(aud[a].con.id)
  /\ aud' = [aud EXCEPT ![a] = Audit("downgrade", aud[a].todo, aud[a].con)]
  /\ UNCHANGED <<rep, manual, withdrawn>>

Dismissal(x) ==
  /\ adm[x].pc = "mark"
  /\ MarkContractFailed(adm[x].con.id)
  /\ withdrawn' = {c \in withdrawn \cup {adm[x].con.id} : ContractExists(c)'}
  /\ UNCHANGED <<rep, aud, manual>>

Quiet == UNCHANGED <<contracts, nextContract, manual, withdrawn>>

LEMMA TableStep ==
  ASSUME [Next]_vars
  PROVE  \/ Quiet
         \/ \E w \in Replicators : PoolHire(w)
         \/ \E x \in ManualRequests : ManualHire(x)
         \/ \E a \in Auditors : Activation(a)
         \/ \E a \in Auditors : Firing(a)
         \/ \E x \in WithdrawRequests : Dismissal(x)
         \/ \E f \in FileIds : Delete(f)
<1>1. ASSUME UNCHANGED vars
      PROVE  Quiet
  BY <1>1 DEF vars, dbVars, historyVars, Quiet
<1>2. ASSUME NEW w \in Replicators, Replicator(w)
      PROVE  Quiet \/ PoolHire(w)
  <2>1. CASE ReplicatorRegister(w)
    BY <2>1 DEF ReplicatorRegister, PoolHire, Quiet, dbVars
  <2>2. CASE \/ ReplicatorQuery(w) \/ ReplicatorTake(w) \/ ReplicatorFetch(w)
             \/ ReplicatorSend(w)
    BY <2>2
    DEF ReplicatorQuery, ReplicatorTake, ReplicatorFetch, ReplicatorSend, Quiet,
        dbVars, historyVars
  <2> QED
    BY <1>2, <2>1, <2>2 DEF Replicator
<1>3. ASSUME NEW a \in Auditors, Auditor(a)
      PROVE  Quiet \/ Activation(a) \/ Firing(a)
  <2>1. CASE AuditorActivate(a)
    BY <2>1 DEF AuditorActivate, Activation, Quiet, dbVars
  <2>2. CASE AuditorFail(a)
    BY <2>2 DEF AuditorFail, Firing, Quiet, dbVars
  <2>3. CASE AuditorUpgradeWrite(a) \/ AuditorDowngradeWrite(a)
    BY <2>3
    DEF AuditorUpgradeWrite, AuditorDowngradeWrite, UpgradeFileStatusIfNeeded,
        DowngradeFileStatusIfNeeded, Quiet
  <2>4. CASE \/ AuditorQuery(a) \/ AuditorProbe(a) \/ AuditorUpgrade(a)
             \/ AuditorRemove(a) \/ AuditorSend(a) \/ AuditorDowngrade(a)
    BY <2>4
    DEF AuditorQuery, AuditorProbe, AuditorUpgrade, AuditorRemove, AuditorSend,
        AuditorDowngrade, Quiet, dbVars, historyVars
  <2> QED
    BY <1>3, <2>1, <2>2, <2>3, <2>4 DEF Auditor
<1>4. ASSUME NEW x \in ManualRequests, Manual(x)
      PROVE  Quiet \/ ManualHire(x)
  <2>1. CASE ManualRegister(x)
    BY <2>1 DEF ManualRegister, ManualHire, Quiet, dbVars
  <2>2. CASE ManualReplicate(x) \/ ManualFetch(x) \/ ManualSend(x)
    BY <2>2
    DEF ManualReplicate, ManualFetch, ManualSend, Quiet, dbVars, historyVars
  <2> QED
    BY <1>4, <2>1, <2>2 DEF Manual
<1>5. ASSUME NEW x \in WithdrawRequests, Withdrawal(x)
      PROVE  Quiet \/ Dismissal(x)
  <2>1. CASE WithdrawMark(x)
    BY <2>1 DEF WithdrawMark, Dismissal, Quiet, dbVars
  <2>2. CASE Withdraw(x) \/ WithdrawRemove(x) \/ WithdrawSend(x)
    BY <2>2 DEF Withdraw, WithdrawRemove, WithdrawSend, Quiet, dbVars, historyVars
  <2> QED
    BY <1>5, <2>1, <2>2 DEF Withdrawal
<1>6. ASSUME NEW f \in FileIds, Upload(f) \/ DownloadDone(f)
      PROVE  Quiet
  BY <1>6
  DEF Upload, DownloadDone, CreateFile, FinishDownloadJob, Quiet, historyVars
<1>7. ASSUME Restart \/ \E t \in LateSlots : LateTransaction(t)
      PROVE  Quiet
  BY <1>7 DEF Restart, LateTransaction, Quiet, dbVars, historyVars
<1> QED
  BY <1>1, <1>2, <1>3, <1>4, <1>5, <1>6, <1>7 DEF Next

-----------------------------------------------------------------------------
(* RowsHaveFiles.                                                           *)

\* The foreign key: a statement leaves no contract without its file.
LEMMA ForeignKeyStep ==
  ASSUME DBTypeOK, FreshIds, DBStep,
         \A c \in ContractIds : ContractExists(c) => FileExists(contracts[c].file),
         NEW c \in ContractIds, ContractExists(c)'
  PROVE  FileExists(contracts[c].file)'
<1>1. ContractExists(c) => contracts[c].file \in FileIds /\ FileExists(contracts[c].file)
  BY RowIsContract DEF Contract
<1>2. CASE UNCHANGED dbVars
  BY <1>1, <1>2 DEF dbVars, ContractExists, FileExists
<1>3. ASSUME NEW f \in FileIds,
             \/ CreateFile(f) \/ UpgradeFileStatusIfNeeded(f)
             \/ DowngradeFileStatusIfNeeded(f) \/ FinishDownloadJob(f)
      PROVE  FileExists(contracts[c].file)'
  <2>1. contracts' = contracts
    BY <1>3
    DEF CreateFile, UpgradeFileStatusIfNeeded, DowngradeFileStatusIfNeeded,
        FinishDownloadJob
  <2>2. \A g \in FileIds : FileExists(g) => FileExists(g)'
    BY <1>3
    DEF CreateFile, UpgradeFileStatusIfNeeded, DowngradeFileStatusIfNeeded,
        FinishDownloadJob, FileExists, DBTypeOK
  <2>3. contracts[c].file \in FileIds /\ FileExists(contracts[c].file)
    BY <1>1, <2>1 DEF ContractExists
  <2> QED
    BY <2>1, <2>2, <2>3
<1>4. ASSUME NEW f \in FileIds, DeleteFile(f)
      PROVE  FileExists(contracts[c].file)'
  <2>1. ContractExists(c) /\ contracts[c].file # f /\ contracts'[c] = contracts[c]
    BY <1>4, DeleteRows DEF ContractExists, NoRow
  <2> QED
    BY <1>1, <1>4, <2>1, DeleteRows DEF FileExists
<1>5. ASSUME NEW f \in FileIds, NEW p \in Providers,
             RegisterContract(f, p), nextContract <= MaxContracts
      PROVE  FileExists(contracts[c].file)'
  <2>1. /\ FileExists(f) /\ files' = files
        /\ contracts'[nextContract] =
             [file |-> f, provider |-> p, status |-> "pending"]
        /\ \A d \in ContractIds \ {nextContract} : contracts'[d] = contracts[d]
    BY <1>5, RegisterRows
  <2>2. CASE c = nextContract
    BY <2>1, <2>2 DEF FileExists
  <2>3. CASE c # nextContract
    BY <1>1, <2>1, <2>3 DEF FileExists, ContractExists
  <2> QED
    BY <2>2, <2>3
<1>6. ASSUME NEW d \in ContractIds, NEW s \in ContractStatus, SetContractStatus(d, s)
      PROVE  FileExists(contracts[c].file)'
  <2>1. /\ files' = files /\ ContractExists(c)
        /\ contracts'[c].file = contracts[c].file
    BY <1>6, SetStatusRows
  <2> QED
    BY <1>1, <2>1 DEF FileExists
<1> QED
  BY <1>2, <1>3, <1>4, <1>5, <1>6 DEF DBStep, DaemonStep

LEMMA HeldFields ==
  ASSUME TypeOK
  PROVE  /\ \A a \in Auditors : aud[a].pc \in AuditSteps \cup {"send"} =>
              /\ aud[a].con \in HeldByAuditor(a)
              /\ aud[a].con.id \in ContractIds /\ aud[a].con.file \in FileIds
         /\ \A x \in AdminRequests : adm[x].pc \in {"remove", "sendRemoval", "mark"} =>
              /\ adm[x].con \in HeldByAdmin(x)
              /\ adm[x].con.id \in ContractIds /\ adm[x].con.file \in FileIds
         /\ \A x \in AdminRequests : adm[x].pc = "register" =>
              adm[x].file \in FileIds /\ adm[x].provider \in Providers
         /\ \A w \in Replicators : rep[w].pc = "register" =>
              rep[w].job.file \in FileIds /\ rep[w].provider \in Providers
<1>1. /\ \A a \in Auditors : aud[a] \in AudState
      /\ \A x \in AdminRequests : adm[x] \in AdmState
      /\ \A w \in Replicators : rep[w] \in RepState
  BY DEF TypeOK
<1> QED
  BY <1>1, AudFields, AdmFields, RepFields
  DEF HeldByAuditor, HeldByAdmin, Snapshot, Job

\* What the hire of a worker and the hire of an admin do to the rows.
LEMMA PoolHireRows ==
  ASSUME TypeOK, FreshIds, NEW w \in Replicators, PoolHire(w)
  PROVE  /\ rep[w].job.file \in FileIds /\ rep[w].provider \in Providers
         /\ nextContract \in ContractIds /\ nextContract' = nextContract + 1
         /\ ~ContractExists(nextContract)
         /\ contracts'[nextContract].file = rep[w].job.file
         /\ contracts'[nextContract].provider = rep[w].provider
         /\ contracts'[nextContract].status = "pending"
         /\ \A d \in ContractIds \ {nextContract} : contracts'[d] = contracts[d]
<1>1. rep[w].job.file \in FileIds /\ rep[w].provider \in Providers
  BY HeldFields DEF PoolHire
<1>2. /\ nextContract \in ContractIds /\ nextContract' = nextContract + 1
      /\ ~ContractExists(nextContract)
      /\ contracts'[nextContract] = [file |-> rep[w].job.file,
                                     provider |-> rep[w].provider,
                                     status |-> "pending"]
      /\ \A d \in ContractIds \ {nextContract} : contracts'[d] = contracts[d]
  BY <1>1, RegisterRows DEF PoolHire, TypeOK
<1> QED
  BY <1>1, <1>2

LEMMA ManualHireRows ==
  ASSUME TypeOK, FreshIds, NEW x \in ManualRequests, ManualHire(x)
  PROVE  /\ nextContract \in ContractIds /\ nextContract' = nextContract + 1
         /\ ~ContractExists(nextContract)
         /\ contracts'[nextContract].status = "pending"
         /\ \A d \in ContractIds \ {nextContract} : contracts'[d] = contracts[d]
<1>1. adm[x].file \in FileIds /\ adm[x].provider \in Providers
  BY HeldFields DEF ManualHire, AdminRequests
<1>2. /\ nextContract \in ContractIds /\ nextContract' = nextContract + 1
      /\ ~ContractExists(nextContract)
      /\ contracts'[nextContract] = [file |-> adm[x].file,
                                     provider |-> adm[x].provider,
                                     status |-> "pending"]
      /\ \A d \in ContractIds \ {nextContract} : contracts'[d] = contracts[d]
  BY <1>1, RegisterRows DEF ManualHire, TypeOK
<1> QED
  BY <1>2

LEMMA RowsHaveFilesStep ==
  ASSUME TypeOK, FreshIds, RowsHaveFiles, [Next]_vars
  PROVE  RowsHaveFiles'
<1>1. DBTypeOK /\ DBStep
  BY OneStatement DEF TypeOK
<1>2. ASSUME NEW c \in ContractIds, ContractExists(c)'
      PROVE  FileExists(contracts[c].file)'
  BY <1>1, <1>2, ForeignKeyStep DEF RowsHaveFiles
<1> DEFINE Exist == \A c \in manual \cup withdrawn : ContractExists(c)
<1>3. manual \cup withdrawn \subseteq ContractIds /\ Exist
  BY DEF TypeOK, RowsHaveFiles
<1>4. Exist'
  <2>1. CASE Quiet
    BY <1>3, <2>1 DEF Quiet, ContractExists
  <2>2. ASSUME NEW w \in Replicators, PoolHire(w)
        PROVE  Exist'
    <3>1. \A d \in ContractIds : ContractExists(d) => ContractExists(d)'
      BY <2>2, PoolHireRows DEF ContractExists
    <3> QED
      BY <1>3, <2>2, <3>1 DEF PoolHire
  <2>3. ASSUME NEW x \in ManualRequests, ManualHire(x)
        PROVE  Exist'
    <3>1. /\ ~ContractExists(nextContract)
          /\ contracts'[nextContract].status = "pending"
          /\ \A d \in ContractIds \ {nextContract} : contracts'[d] = contracts[d]
      BY <2>3, ManualHireRows
    <3> QED
      BY <1>3, <2>3, <3>1 DEF ManualHire, ContractExists
  <2>4. ASSUME NEW a \in Auditors, Activation(a) \/ Firing(a)
        PROVE  Exist'
    <3>1. PICK s \in ContractStatus : SetContractStatus(aud[a].con.id, s)
      BY <2>4
      DEF Activation, Firing, MarkContractActive, MarkContractFailed, ContractStatus
    <3>2. \A d \in ContractIds : ContractExists(d)' = ContractExists(d)
      BY <1>1, <2>4, <3>1, HeldFields, SetStatusRows DEF Activation, Firing, AuditSteps
    <3> QED
      BY <1>3, <2>4, <3>2 DEF Activation, Firing
  <2>5. ASSUME NEW x \in WithdrawRequests, Dismissal(x)
        PROVE  Exist'
    <3>1. \A d \in ContractIds : ContractExists(d)' = ContractExists(d)
      BY <1>1, <2>5, HeldFields, SetStatusRows
      DEF Dismissal, MarkContractFailed, ContractStatus, AdminRequests
    <3> QED
      BY <1>3, <2>5, <3>1 DEF Dismissal
  <2>6. ASSUME NEW f \in FileIds, Delete(f)
        PROVE  Exist'
    BY <2>6 DEF Delete
  <2> QED
    BY <2>1, <2>2, <2>3, <2>4, <2>5, <2>6, TableStep
<1> QED
  BY <1>2, <1>4 DEF RowsHaveFiles

-----------------------------------------------------------------------------
(* AuditsApart.                                                             *)

LEMMA FreshBatch ==
  ASSUME TypeOK, NEW a \in Auditors, AuditorQuery(a)
  PROVE  /\ \A b \in Auditors \ {a} : aud'[b] = aud[b]
         /\ contracts' = contracts
         /\ aud'[a].pc = "batch"
         /\ \A con \in aud'[a].todo :
              /\ InShare(con.id, NumAuditors, a)
              /\ contracts[con.id].status \in Live
              /\ \A d \in aud'[a].todo : con.id = d.id => con = d
<1>1. PICK due \in SUBSET ContractsForAudit(NumAuditors, a) :
        due # {} /\ aud' = [aud EXCEPT ![a] = Batch({SnapshotOf(c) : c \in due})]
  BY DEF AuditorQuery
<1>2. aud'[a] = [pc |-> "batch", todo |-> {SnapshotOf(c) : c \in due}]
  <2>1. {SnapshotOf(c) : c \in due} # {}
    BY <1>1
  <2> QED
    BY <1>1, <2>1 DEF TypeOK, Batch
<1>3. \A c \in due : /\ SnapshotOf(c).id = c
                     /\ InShare(c, NumAuditors, a)
                     /\ contracts[c].status \in Live
  BY DEF SnapshotOf, ContractsForAudit
<1>4. \A b \in Auditors \ {a} : aud'[b] = aud[b]
  BY <1>1 DEF TypeOK
<1>5. contracts' = contracts
  BY DEF AuditorQuery, dbVars
<1> QED
  BY <1>2, <1>3, <1>4, <1>5

\* Except when it queries, an auditor takes up no row, keeps the rows of a batch
\* apart from the one at hand, and never goes back to a row it has dropped.
LEMMA AuditorKeeps ==
  ASSUME TypeOK, NEW a \in Auditors, Auditor(a), ~AuditorQuery(a),
         aud[a].pc \in AuditSteps \cup {"send"} => aud[a].con \notin aud[a].todo
  PROVE  /\ \A b \in Auditors \ {a} : aud'[b] = aud[b]
         /\ HeldByAuditor(a)' \subseteq HeldByAuditor(a)
         /\ MayActivate(a)' \subseteq MayActivate(a)
         /\ aud'[a].pc \in AuditSteps \cup {"send"} => aud'[a].con \notin aud'[a].todo
<1>1. aud \in [Auditors -> AudState]
  BY DEF TypeOK
<1>2. CASE AuditorProbe(a)
  <2>1. PICK con \in aud[a].todo : AuditorHealthy(a, con) \/ AuditorDead(a, con)
    BY <1>2 DEF AuditorProbe
  <2> DEFINE rest == aud[a].todo \ {con}
  <2>2. HeldByAuditor(a) = aud[a].todo /\ MayActivate(a) = aud[a].todo
    BY <1>2 DEF AuditorProbe, HeldByAuditor, MayActivate, AuditSteps
  <2>3. PICK t : /\ aud' = [aud EXCEPT ![a] = t]
                 /\ \/ t = Batch(rest)
                    \/ \E st \in AuditSteps : t = Audit(st, rest, con)
    BY <2>1 DEF AuditorHealthy, AuditorDead, AuditSteps
  <2>4. aud'[a] = t /\ \A b \in Auditors \ {a} : aud'[b] = aud[b]
    BY <1>1, <2>3
  <2>5. CASE t = Batch(rest)
    BY <2>2, <2>4, <2>5 DEF HeldByAuditor, MayActivate, Batch, Idle, AuditSteps
  <2>6. CASE \E st \in AuditSteps : t = Audit(st, rest, con)
    BY <2>1, <2>2, <2>4, <2>6 DEF HeldByAuditor, MayActivate, Audit, AuditSteps
  <2> QED
    BY <2>3, <2>5, <2>6
<1>3. CASE AuditorRemove(a)
  BY <1>1, <1>3
  DEF AuditorRemove, HeldByAuditor, MayActivate, Audit, AuditSteps
<1>4. CASE \/ AuditorActivate(a) \/ AuditorUpgrade(a) \/ AuditorUpgradeWrite(a)
           \/ AuditorSend(a) \/ AuditorFail(a)
           \/ AuditorDowngrade(a) \/ AuditorDowngradeWrite(a)
  <2>1. /\ aud[a].pc \in AuditSteps \cup {"send"}
        /\ \E t : /\ aud' = [aud EXCEPT ![a] = t]
                  /\ \/ t = Batch(aud[a].todo)
                     \/ \E st \in AuditSteps \ {"activate"} :
                          t = Audit(st, aud[a].todo, aud[a].con)
    BY <1>4
    DEF AuditorActivate, AuditorUpgrade, AuditorUpgradeWrite, AuditorSend,
        AuditorFail, AuditorDowngrade, AuditorDowngradeWrite, AuditSteps
  <2>2. PICK t : /\ aud' = [aud EXCEPT ![a] = t]
                 /\ \/ t = Batch(aud[a].todo)
                    \/ \E st \in AuditSteps \ {"activate"} :
                         t = Audit(st, aud[a].todo, aud[a].con)
    BY <2>1
  <2>3. aud'[a] = t /\ \A b \in Auditors \ {a} : aud'[b] = aud[b]
    BY <1>1, <2>2
  <2>4. /\ HeldByAuditor(a) = aud[a].todo \cup {aud[a].con}
        /\ aud[a].todo \subseteq MayActivate(a)
    BY <2>1 DEF HeldByAuditor, MayActivate, AuditSteps
  <2>5. CASE t = Batch(aud[a].todo)
    BY <2>3, <2>4, <2>5 DEF HeldByAuditor, MayActivate, Batch, Idle, AuditSteps
  <2>6. CASE \E st \in AuditSteps \ {"activate"} :
               t = Audit(st, aud[a].todo, aud[a].con)
    BY <2>1, <2>3, <2>4, <2>6 DEF HeldByAuditor, MayActivate, Audit, AuditSteps
  <2> QED
    BY <2>2, <2>5, <2>6
<1> QED
  BY <1>2, <1>3, <1>4 DEF Auditor

\* What every step leaves true of the rows an auditor holds.
LEMMA AuditsStep ==
  ASSUME TypeOK, AuditsApart, [Next]_vars, NEW a \in Auditors
  PROVE  /\ \A con \in HeldByAuditor(a)' :
              /\ InShare(con.id, NumAuditors, a)
              /\ \A d \in HeldByAuditor(a)' : con.id = d.id => con = d
         /\ aud'[a].pc \in AuditSteps \cup {"send"} => aud'[a].con \notin aud'[a].todo
         /\ \A con \in MayActivate(a)' :
              \/ con \in MayActivate(a)
              \/ contracts' = contracts /\ contracts[con.id].status \in Live
<1>1. CASE aud'[a] = aud[a]
  BY <1>1 DEF AuditsApart, HeldByAuditor, MayActivate
<1>2. CASE AuditorQuery(a)
  <2>1. HeldByAuditor(a)' = aud'[a].todo /\ MayActivate(a)' = aud'[a].todo
    BY <1>2, FreshBatch DEF HeldByAuditor, MayActivate, AuditSteps
  <2> QED
    BY <1>2, <2>1, FreshBatch DEF AuditSteps
<1>3. CASE Auditor(a) /\ ~AuditorQuery(a)
  <2>1. /\ HeldByAuditor(a)' \subseteq HeldByAuditor(a)
        /\ MayActivate(a)' \subseteq MayActivate(a)
        /\ aud'[a].pc \in AuditSteps \cup {"send"} => aud'[a].con \notin aud'[a].todo
    BY <1>3, AuditorKeeps DEF AuditsApart
  <2> QED
    BY <2>1 DEF AuditsApart
<1>4. CASE Restart
  <2>1. aud'[a] = Idle
    BY <1>4 DEF Restart
  <2> QED
    BY <2>1 DEF HeldByAuditor, MayActivate, Idle, AuditSteps
<1>5. ASSUME NEW b \in Auditors \ {a}, Auditor(b)
      PROVE  aud'[a] = aud[a]
  BY <1>5, AuditorHolds
<1>6. ASSUME NEW w \in Replicators, Replicator(w)
      PROVE  aud' = aud
  BY <1>6
  DEF Replicator, ReplicatorQuery, ReplicatorTake, ReplicatorFetch, ReplicatorSend,
      ReplicatorRegister
<1>7. ASSUME NEW x \in AdminRequests, Manual(x) \/ Withdrawal(x)
      PROVE  aud' = aud
  BY <1>7, AdminHolds
<1>8. ASSUME \/ \E f \in FileIds : Upload(f) \/ Delete(f) \/ DownloadDone(f)
             \/ \E t \in LateSlots : LateTransaction(t)
      PROVE  aud' = aud
  BY <1>8 DEF Upload, Delete, DownloadDone, LateTransaction, procVars
<1>9. CASE UNCHANGED vars
  BY <1>1, <1>9 DEF vars, procVars
<1>10. CASE Next
  <2>1. \/ aud'[a] = aud[a] \/ Auditor(a) \/ Restart
    BY <1>5, <1>6, <1>7, <1>8, <1>10 DEF Next, AdminRequests
  <2> QED
    BY <1>1, <1>2, <1>3, <1>4, <2>1
<1> QED
  BY <1>9, <1>10

\* Two auditors share no contract.
LEMMA SharesDisjoint ==
  ASSUME NEW id, NEW n, NEW a, NEW b, InShare(id, n, a), InShare(id, n, b)
  PROVE  a = b
BY DEF InShare

LEMMA AuditsApartStep ==
  ASSUME TypeOK, FreshIds, AuditsApart, [Next]_vars
  PROVE  AuditsApart'
<1>1. DBTypeOK
  BY DEF TypeOK
<1>2. ASSUME NEW b \in Auditors, NEW con \in MayActivate(b)',
             contracts'[con.id].status = "failed"
      PROVE  con.id \in withdrawn'
  <2> DEFINE c == con.id
  <2>1. CASE contracts' = contracts /\ contracts[c].status \in Live
    BY <1>2, <2>1 DEF Live
  <2>2. CASE con \in MayActivate(b)
    <3>1. /\ con \in HeldByAuditor(b) /\ c \in ContractIds
          /\ InShare(c, NumAuditors, b)
          /\ contracts[c].status = "failed" => c \in withdrawn
      <4>1. con \in HeldByAuditor(b)
        BY <2>2 DEF MayActivate, HeldByAuditor, AuditSteps
      <4> QED
        BY <2>2, <4>1, HeldType DEF AuditsApart, Snapshot
    <3>2. CASE Quiet
      BY <1>2, <3>1, <3>2 DEF Quiet
    <3>3. ASSUME NEW w \in Replicators, PoolHire(w)
          PROVE  c \in withdrawn'
      <4>1. contracts'[nextContract].status = "pending"
            /\ \A d \in ContractIds \ {nextContract} : contracts'[d] = contracts[d]
        BY <3>3, PoolHireRows
      <4> QED
        BY <1>2, <3>1, <3>3, <4>1 DEF PoolHire
    <3>4. ASSUME NEW x \in ManualRequests, ManualHire(x)
          PROVE  c \in withdrawn'
      <4>1. contracts'[nextContract].status = "pending"
            /\ \A d \in ContractIds \ {nextContract} : contracts'[d] = contracts[d]
        BY <3>4, ManualHireRows
      <4> QED
        BY <1>2, <3>1, <3>4, <4>1 DEF ManualHire
    <3>5. ASSUME NEW a \in Auditors, Activation(a)
          PROVE  c \in withdrawn'
      <4> DEFINE e == aud[a].con.id
      <4>1. e \in ContractIds /\ SetContractStatus(e, "active")
        BY <3>5, HeldFields DEF Activation, MarkContractActive, AuditSteps
      <4>2. /\ \A d \in ContractIds \ {e} : contracts'[d] = contracts[d]
            /\ contracts'[e].status = "active" \/ contracts'[e] = contracts[e]
        BY <1>1, <4>1, SetStatusRows DEF ContractStatus
      <4> QED
        BY <1>2, <3>1, <3>5, <4>2 DEF Activation
    <3>6. ASSUME NEW a \in Auditors, Firing(a)
          PROVE  c \in withdrawn'
      <4> DEFINE e == aud[a].con.id
      <4>1. /\ e \in ContractIds /\ SetContractStatus(e, "failed")
            /\ aud[a].con \in HeldByAuditor(a)
        BY <3>6, HeldFields DEF Firing, MarkContractFailed, AuditSteps
      <4>2. \A d \in ContractIds \ {e} : contracts'[d] = contracts[d]
        BY <1>1, <4>1, SetStatusRows DEF ContractStatus
      <4>3. c # e
        <5>1. SUFFICES ASSUME c = e PROVE FALSE
          OBVIOUS
        <5>2. a = b
          BY <3>1, <4>1, <5>1, SharesDisjoint DEF AuditsApart
        <5>3. con = aud[a].con
          BY <3>1, <4>1, <5>1, <5>2 DEF AuditsApart
        <5>4. aud'[a] = Audit("downgrade", aud[a].todo, aud[a].con)
          BY <3>6 DEF Firing, TypeOK
        <5>5. con \in aud[a].todo
          BY <1>2, <5>2, <5>4 DEF MayActivate, Audit
        <5> QED
          BY <3>6, <5>3, <5>5 DEF AuditsApart, Firing, AuditSteps
      <4> QED
        BY <1>2, <3>1, <3>6, <4>2, <4>3 DEF Firing
    <3>7. ASSUME NEW x \in WithdrawRequests, Dismissal(x)
          PROVE  c \in withdrawn'
      <4> DEFINE e == adm[x].con.id
      <4>1. e \in ContractIds /\ SetContractStatus(e, "failed")
        BY <3>7, HeldFields DEF Dismissal, MarkContractFailed, AdminRequests
      <4>2. \A d \in ContractIds \ {e} : contracts'[d] = contracts[d]
        BY <1>1, <4>1, SetStatusRows DEF ContractStatus
      <4>3. ContractExists(c)'
        BY <1>2 DEF ContractExists
      <4>4. c \in withdrawn \cup {e}
        BY <1>2, <3>1, <4>2
      <4> QED
        BY <3>7, <4>3, <4>4 DEF Dismissal
    <3>8. ASSUME NEW f \in FileIds, Delete(f)
          PROVE  c \in withdrawn'
      <4>1. contracts'[c] = contracts[c] /\ ContractExists(c)'
        BY <1>1, <1>2, <3>1, <3>8, DeleteRows DEF Delete, NoRow, ContractExists
      <4> QED
        BY <1>2, <3>1, <3>8, <4>1 DEF Delete
    <3> QED
      BY <3>2, <3>3, <3>4, <3>5, <3>6, <3>7, <3>8, TableStep
  <2> QED
    BY <1>2, <2>1, <2>2, AuditsStep
<1> QED
  BY <1>2, AuditsStep DEF AuditsApart

-----------------------------------------------------------------------------
(* StatusNeverGoesBack.                                                     *)

LEMMA StatusStep ==
  ASSUME TypeOK, FreshIds, AuditsApart, [Next]_vars, NEW c \in ContractIds
  PROVE  /\ contracts[c].status = "failed" /\ contracts'[c].status \in Live
              => c \in withdrawn
         /\ contracts[c].status = "active" => contracts'[c].status # "pending"
<1>1. DBTypeOK
  BY DEF TypeOK
<1>2. CASE Quiet
  BY <1>2 DEF Quiet, Live
<1>3. ASSUME NEW w \in Replicators, PoolHire(w)
      PROVE  contracts'[c] = contracts[c] \/ contracts[c].status = "none"
  BY <1>3, PoolHireRows DEF ContractExists
<1>4. ASSUME NEW x \in ManualRequests, ManualHire(x)
      PROVE  contracts'[c] = contracts[c] \/ contracts[c].status = "none"
  BY <1>4, ManualHireRows DEF ContractExists
<1>5. ASSUME NEW a \in Auditors, Activation(a)
      PROVE  \/ contracts'[c] = contracts[c]
             \/ /\ contracts'[c].status = "active"
                /\ contracts[c].status = "failed" => c \in withdrawn
  <2> DEFINE con == aud[a].con
  <2>1. con.id \in ContractIds /\ SetContractStatus(con.id, "active")
    BY <1>5, HeldFields DEF Activation, MarkContractActive, AuditSteps
  <2>2. con \in MayActivate(a)
    BY <1>5 DEF Activation, MayActivate
  <2>3. contracts[con.id].status = "failed" => con.id \in withdrawn
    BY <2>2 DEF AuditsApart
  <2> QED
    BY <1>1, <2>1, <2>3, SetStatusRows DEF ContractStatus
<1>6. ASSUME NEW a \in Auditors, Firing(a)
      PROVE  contracts'[c] = contracts[c] \/ contracts'[c].status = "failed"
  <2>1. aud[a].con.id \in ContractIds /\ SetContractStatus(aud[a].con.id, "failed")
    BY <1>6, HeldFields DEF Firing, MarkContractFailed, AuditSteps
  <2> QED
    BY <1>1, <2>1, SetStatusRows DEF ContractStatus
<1>7. ASSUME NEW x \in WithdrawRequests, Dismissal(x)
      PROVE  contracts'[c] = contracts[c] \/ contracts'[c].status = "failed"
  <2>1. adm[x].con.id \in ContractIds /\ SetContractStatus(adm[x].con.id, "failed")
    BY <1>7, HeldFields DEF Dismissal, MarkContractFailed, AdminRequests
  <2> QED
    BY <1>1, <2>1, SetStatusRows DEF ContractStatus
<1>8. ASSUME NEW f \in FileIds, Delete(f)
      PROVE  contracts'[c] = contracts[c] \/ contracts'[c].status = "none"
  BY <1>1, <1>8, DeleteRows DEF Delete, NoRow
<1> QED
  BY <1>2, <1>3, <1>4, <1>5, <1>6, <1>7, <1>8, TableStep DEF Live

-----------------------------------------------------------------------------
(* How the pool's own contracts of a file change.                           *)

\* The pool's contracts of f may have become fewer, but none was added.
Kept(f) ==
  \A c \in OwnReplicas(f)' :
    c \in OwnReplicas(f) /\ contracts'[c].provider = contracts[c].provider

Unmoved(f) == Kept(f) /\ OwnReplicas(f) \subseteq OwnReplicas(f)'

\* The hire of worker w added one contract to its file g and left the others.
HireAdds(w, g) ==
  /\ g = rep[w].job.file
  /\ nextContract \notin OwnReplicas(g)
  /\ OwnReplicas(g)' = OwnReplicas(g) \cup {nextContract}
  /\ \A c \in OwnReplicas(g) : contracts'[c].provider = contracts[c].provider
  /\ contracts'[nextContract].provider = rep[w].provider
  /\ \A f \in FileIds \ {g} : Unmoved(f)

LEMMA OwnIds ==
  /\ \A f : OwnReplicas(f) \subseteq ContractIds
  /\ \A f : OwnReplicas(f)' \subseteq ContractIds
BY DEF OwnReplicas, ContractsOf

\* A hire by the pool adds the new contract to the file's, and nothing else.
LEMMA PoolHireAdds ==
  ASSUME TypeOK, FreshIds, RowsHaveFiles, NEW w \in Replicators, PoolHire(w)
  PROVE  \E g \in FileIds : HireAdds(w, g)
<1>1. ~ContractExists(nextContract) =>
        /\ nextContract \notin manual \cup withdrawn
        /\ \A f : nextContract \notin OwnReplicas(f)
  BY DEF RowsHaveFiles, OwnReplicas, ContractsOf, ContractExists, Live
<1>2. PICK g \in FileIds : g = rep[w].job.file
  BY PoolHireRows
<1>3. PICK n \in ContractIds : n = nextContract
  BY PoolHireRows
<1>4. /\ ~ContractExists(n)
      /\ contracts'[n].file = g /\ contracts'[n].provider = rep[w].provider
      /\ contracts'[n].status = "pending"
      /\ \A d \in ContractIds \ {n} : contracts'[d] = contracts[d]
  BY <1>2, <1>3, PoolHireRows
<1>5. UNCHANGED <<manual, withdrawn>>
  BY DEF PoolHire
<1>6. n \notin manual \cup withdrawn /\ \A f : n \notin OwnReplicas(f)
  BY <1>1, <1>3, <1>4
<1>7. \A f : \A d \in ContractIds \ {n} : d \in OwnReplicas(f) <=> d \in OwnReplicas(f)'
  BY <1>4, <1>5 DEF OwnReplicas, ContractsOf
<1>8. \A f \in FileIds \ {g} : n \notin OwnReplicas(f)'
  BY <1>4 DEF OwnReplicas, ContractsOf
<1>9. n \in OwnReplicas(g)'
  BY <1>4, <1>5, <1>6 DEF OwnReplicas, ContractsOf, Live
<1>10. \A f \in FileIds \ {g} : Unmoved(f)
  BY <1>4, <1>6, <1>7, <1>8, OwnIds DEF Unmoved, Kept
<1>11. OwnReplicas(g)' = OwnReplicas(g) \cup {n}
  BY <1>6, <1>7, <1>9, OwnIds
<1>12. \A c \in OwnReplicas(g) : contracts'[c].provider = contracts[c].provider
  BY <1>4, <1>6, OwnIds
<1>13. HireAdds(w, g)
  BY <1>2, <1>3, <1>4, <1>6, <1>10, <1>11, <1>12 DEF HireAdds
<1> QED
  BY <1>13

\* One row gets a new status, and possibly joins the withdrawn ones.
LEMMA OneRowStep ==
  ASSUME DBTypeOK, NEW c \in ContractIds, NEW s \in {"active", "failed"},
         SetContractStatus(c, s),
         s = "active" => contracts[c].status # "failed" \/ c \in withdrawn,
         manual' = manual,
         \A d \in ContractIds : ContractExists(d) /\ d \in withdrawn => d \in withdrawn',
         \A d \in ContractIds \ {c} : d \in withdrawn' => d \in withdrawn
  PROVE  \/ \A f \in FileIds : Unmoved(f)
         \/ \E g \in FileIds : Kept(g) /\ \A f \in FileIds \ {g} : Unmoved(f)
<1>1. /\ \A d \in ContractIds \ {c} : contracts'[d] = contracts[d]
      /\ \A d \in ContractIds : ContractExists(d)' = ContractExists(d)
  BY SetStatusRows DEF ContractStatus
<1>2. \A f : \A d \in ContractIds :
        /\ d \in OwnReplicas(f) =>
             ContractExists(d) /\ contracts[d].file = f /\ d \notin manual \cup withdrawn
        /\ d \in OwnReplicas(f)' =>
             ContractExists(d)' /\ contracts'[d].file = f /\ d \notin manual \cup withdrawn'
  BY DEF OwnReplicas, ContractsOf, ContractExists, Live
<1>3. \A f : \A d \in ContractIds \ {c} : d \in OwnReplicas(f) <=> d \in OwnReplicas(f)'
  <2> SUFFICES ASSUME NEW f, NEW d \in ContractIds \ {c}
               PROVE  d \in OwnReplicas(f) <=> d \in OwnReplicas(f)'
    OBVIOUS
  <2>1. contracts'[d] = contracts[d]
    BY <1>1
  <2>2. ContractExists(d) => (d \in withdrawn <=> d \in withdrawn')
    OBVIOUS
  <2>3. contracts[d].status \in Live => ContractExists(d)
    BY DEF Live, ContractExists
  <2> QED
    BY <2>1, <2>2, <2>3 DEF OwnReplicas, ContractsOf
<1>4. \A f : OwnReplicas(f) \subseteq ContractIds /\ OwnReplicas(f)' \subseteq ContractIds
  BY DEF OwnReplicas, ContractsOf
<1>5. CASE ~ContractExists(c)
  <2>1. \A f : c \notin OwnReplicas(f) /\ c \notin OwnReplicas(f)'
    BY <1>1, <1>2, <1>5
  <2>2. \A f \in FileIds : Unmoved(f)
    BY <1>1, <1>3, <1>4, <2>1 DEF Unmoved, Kept
  <2> QED
    BY <2>2
<1>6. CASE ContractExists(c)
  <2> DEFINE g == contracts[c].file
  <2>1. /\ g \in FileIds /\ contracts[c].status \in ContractStatus
        /\ contracts'[c].file = g /\ contracts'[c].status = s
        /\ contracts'[c].provider = contracts[c].provider
    BY <1>6, RowIsContract, SetStatusRows DEF Contract, ContractStatus
  <2>2. \A f \in FileIds \ {g} : c \notin OwnReplicas(f) /\ c \notin OwnReplicas(f)'
    BY <1>2, <2>1
  <2>3. \A f \in FileIds \ {g} : Unmoved(f)
    BY <1>1, <1>3, <1>4, <2>2 DEF Unmoved, Kept
  <2>4. c \in OwnReplicas(g)' => c \in OwnReplicas(g)
    <3>1. ASSUME c \in OwnReplicas(g)'
          PROVE  c \in OwnReplicas(g)
      <4>1. s \in Live /\ c \notin manual /\ c \notin withdrawn'
        BY <2>1, <3>1 DEF OwnReplicas, ContractsOf
      <4>2. s = "active" /\ c \notin withdrawn
        BY <1>6, <4>1 DEF Live
      <4>3. contracts[c].status \in Live
        BY <2>1, <4>2 DEF ContractStatus, Live
      <4> QED
        BY <4>1, <4>2, <4>3 DEF OwnReplicas, ContractsOf
    <3> QED
      BY <3>1
  <2>5. Kept(g)
    BY <1>1, <1>3, <1>4, <2>1, <2>4 DEF Kept
  <2> QED
    BY <2>1, <2>3, <2>5
<1> QED
  BY <1>5, <1>6

LEMMA OwnStep ==
  ASSUME TypeOK, FreshIds, RowsHaveFiles, AuditsApart, [Next]_vars
  PROVE  \/ /\ nextContract' = nextContract \/ nextContract' = nextContract + 1
            /\ \A f \in FileIds : Unmoved(f)
         \/ /\ nextContract' = nextContract
            /\ \E g \in FileIds : Kept(g) /\ \A f \in FileIds \ {g} : Unmoved(f)
         \/ \E w \in Replicators, g \in FileIds : PoolHire(w) /\ HireAdds(w, g)
<1>1. DBTypeOK /\ manual \cup withdrawn \subseteq ContractIds
  BY DEF TypeOK
<1>2. \A f : OwnReplicas(f) \subseteq ContractIds /\ OwnReplicas(f)' \subseteq ContractIds
  BY DEF OwnReplicas, ContractsOf
<1>3. ~ContractExists(nextContract) =>
        /\ nextContract \notin manual \cup withdrawn
        /\ \A f : nextContract \notin OwnReplicas(f)
  BY DEF RowsHaveFiles, OwnReplicas, ContractsOf, ContractExists, Live
<1>4. CASE Quiet
  <2>1. \A f \in FileIds : Unmoved(f)
    BY <1>4 DEF Quiet, Unmoved, Kept, OwnReplicas, ContractsOf
  <2> QED
    BY <1>4, <2>1 DEF Quiet
<1>5. ASSUME NEW w \in Replicators, PoolHire(w)
      PROVE  \E g \in FileIds : HireAdds(w, g)
  BY <1>5, PoolHireAdds
<1>6. ASSUME NEW x \in ManualRequests, ManualHire(x)
      PROVE  nextContract' = nextContract + 1 /\ \A f \in FileIds : Unmoved(f)
  <2> DEFINE n == nextContract
  <2>1. /\ n \in ContractIds /\ ~ContractExists(n) /\ nextContract' = n + 1
        /\ \A d \in ContractIds \ {n} : contracts'[d] = contracts[d]
    BY <1>6, ManualHireRows
  <2>2. manual' = manual \cup {n} /\ withdrawn' = withdrawn
    BY <1>6 DEF ManualHire
  <2>3. \A f : n \notin OwnReplicas(f) /\ n \notin OwnReplicas(f)'
    BY <1>3, <2>1, <2>2 DEF OwnReplicas
  <2>4. \A f : \A d \in ContractIds \ {n} : d \in OwnReplicas(f) <=> d \in OwnReplicas(f)'
    BY <2>1, <2>2 DEF OwnReplicas, ContractsOf
  <2>5. \A f \in FileIds : Unmoved(f)
    BY <1>2, <2>1, <2>3, <2>4 DEF Unmoved, Kept
  <2> QED
    BY <2>1, <2>5
<1> DEFINE Fewer == \E g \in FileIds : Kept(g) /\ \A f \in FileIds \ {g} : Unmoved(f)
           Same == \A f \in FileIds : Unmoved(f)
<1>7. ASSUME NEW a \in Auditors, Activation(a)
      PROVE  nextContract' = nextContract /\ (Same \/ Fewer)
  <2> DEFINE con == aud[a].con
  <2>1. con.id \in ContractIds /\ SetContractStatus(con.id, "active")
    BY <1>7, HeldFields DEF Activation, MarkContractActive, AuditSteps
  <2>2. con \in MayActivate(a)
    BY <1>7 DEF Activation, MayActivate
  <2>3. contracts[con.id].status # "failed" \/ con.id \in withdrawn
    BY <2>2 DEF AuditsApart
  <2>4. UNCHANGED <<manual, withdrawn>>
    BY <1>7 DEF Activation
  <2>5. Same \/ Fewer
    BY <1>1, <2>1, <2>3, <2>4, OneRowStep
  <2> QED
    BY <2>1, <2>5 DEF SetContractStatus
<1>8. ASSUME NEW a \in Auditors, Firing(a)
      PROVE  nextContract' = nextContract /\ (Same \/ Fewer)
  <2>1. aud[a].con.id \in ContractIds /\ SetContractStatus(aud[a].con.id, "failed")
    BY <1>8, HeldFields DEF Firing, MarkContractFailed, AuditSteps
  <2>2. UNCHANGED <<manual, withdrawn>>
    BY <1>8 DEF Firing
  <2>3. Same \/ Fewer
    BY <1>1, <2>1, <2>2, OneRowStep
  <2> QED
    BY <2>1, <2>3 DEF SetContractStatus
<1>9. ASSUME NEW x \in WithdrawRequests, Dismissal(x)
      PROVE  nextContract' = nextContract /\ (Same \/ Fewer)
  <2> DEFINE e == adm[x].con.id
  <2>1. e \in ContractIds /\ SetContractStatus(e, "failed")
    BY <1>9, HeldFields DEF Dismissal, MarkContractFailed, AdminRequests
  <2>2. \A d \in ContractIds : ContractExists(d)' = ContractExists(d)
    BY <1>1, <2>1, SetStatusRows DEF ContractStatus
  <2>3. /\ manual' = manual
        /\ withdrawn' = {c \in withdrawn \cup {e} : ContractExists(c)'}
    BY <1>9 DEF Dismissal
  <2>4. /\ \A d \in ContractIds :
             ContractExists(d) /\ d \in withdrawn => d \in withdrawn'
        /\ \A d \in ContractIds \ {e} : d \in withdrawn' => d \in withdrawn
    BY <2>2, <2>3
  <2>5. Same \/ Fewer
    BY <1>1, <2>1, <2>3, <2>4, OneRowStep
  <2> QED
    BY <2>1, <2>5 DEF SetContractStatus
<1>10. ASSUME NEW g \in FileIds, Delete(g)
       PROVE  nextContract' = nextContract /\ Fewer
  <2>1. /\ nextContract' = nextContract
        /\ \A d \in ContractIds :
             IF ContractExists(d) /\ contracts[d].file = g
               THEN contracts'[d] = NoRow ELSE contracts'[d] = contracts[d]
    BY <1>1, <1>10, DeleteRows DEF Delete
  <2>2. \A d \in ContractIds : ContractExists(d)' =>
          /\ d \in manual <=> d \in manual'
          /\ d \in withdrawn <=> d \in withdrawn'
    BY <1>10 DEF Delete
  <2>3. \A f : \A d \in OwnReplicas(f)' :
          d \in OwnReplicas(f) /\ contracts'[d] = contracts[d]
    BY <2>1, <2>2 DEF OwnReplicas, ContractsOf, Live, NoRow, ContractExists
  <2>4. \A f \in FileIds \ {g} : \A d \in OwnReplicas(f) : d \in OwnReplicas(f)'
    BY <2>1, <2>2 DEF OwnReplicas, ContractsOf, Live, NoRow, ContractExists
  <2> QED
    BY <2>1, <2>3, <2>4 DEF Unmoved, Kept
<1> QED
  BY <1>4, <1>5, <1>6, <1>7, <1>8, <1>9, <1>10, TableStep

-----------------------------------------------------------------------------
(* JobsApart.                                                               *)

LEMMA IdsFinite ==
  ASSUME NEW S \in SUBSET ContractIds
  PROVE  /\ IsFiniteSet(S) /\ Cardinality(S) \in Nat
         /\ \A T \in SUBSET S : Cardinality(T) \in Nat /\ Cardinality(T) <= Cardinality(S)
<1>1. IsFiniteSet(ContractIds)
  BY MaxContractsAssumption, FS_Interval DEF ContractIds
<1>2. \A T \in SUBSET ContractIds : IsFiniteSet(T) /\ Cardinality(T) \in Nat
  BY <1>1, FS_Subset, FS_CardinalityType
<1> QED
  BY <1>2, FS_Subset

LEMMA KeptIsFewer ==
  ASSUME NEW f, Kept(f)
  PROVE  /\ Cardinality(OwnReplicas(f)) \in Nat
         /\ Cardinality(OwnReplicas(f)') \in Nat
         /\ Cardinality(OwnReplicas(f)') <= Cardinality(OwnReplicas(f))
         /\ ProvidersOf(OwnReplicas(f))' \subseteq ProvidersOf(OwnReplicas(f))
<1>1. OwnReplicas(f)' \subseteq OwnReplicas(f)
  BY DEF Kept
<1>2. ProvidersOf(OwnReplicas(f))' \subseteq ProvidersOf(OwnReplicas(f))
  BY DEF Kept, ProvidersOf
<1> QED
  BY <1>1, <1>2, OwnIds, IdsFinite

\* A job that fits still fits when its file has lost contracts.
LEMMA FitsStay ==
  ASSUME NEW job \in Job, JobFits(job), Kept(job.file)
  PROVE  JobFits(job)'
<1>1. TargetReplicas[job.file] \in Int /\ job.left \in Nat
  BY TargetAssumption DEF Job
<1> QED
  BY <1>1, KeptIsFewer DEF JobFits

\* The count and the excluded providers of a fresh job.
LEMMA QueryFits ==
  ASSUME TypeOK, NEW f \in FileIds
  PROVE  JobFits([file |-> f, left |-> TargetReplicas[f] - ReplicaCount(f),
                  excludes |-> ProvidersOf(ContractsOf(f, Live))])
<1> DEFINE L == ContractsOf(f, Live)
<1>1. OwnReplicas(f) \subseteq L /\ L \subseteq ContractIds
  BY DEF OwnReplicas, ContractsOf
<1>2. /\ Cardinality(OwnReplicas(f)) \in Nat /\ Cardinality(L) \in Nat
      /\ Cardinality(OwnReplicas(f)) <= Cardinality(L)
      /\ IsFiniteSet(L)
  BY <1>1, IdsFinite
<1>3. /\ IsFiniteSet(ProvidersOf(L))
      /\ Cardinality(ProvidersOf(L)) <= Cardinality(L)
  <2> DEFINE prov == [c \in L |-> contracts[c].provider]
  <2> HIDE DEF L
  <2>1. prov \in [L -> ProvidersOf(L)]
    BY DEF ProvidersOf
  <2>2. \A p \in ProvidersOf(L) : \E c \in L : prov[c] = p
    BY DEF ProvidersOf
  <2>3. prov \in Surjection(L, ProvidersOf(L))
    BY <2>1, <2>2 DEF Surjection
  <2> QED
    BY <1>2, <2>3, FS_Surjection
<1>4. Cardinality(ProvidersOf(L)) \in Nat
  BY <1>3, FS_CardinalityType
<1>5. ProvidersOf(OwnReplicas(f)) \subseteq ProvidersOf(L)
  BY <1>1 DEF ProvidersOf
<1>6. TargetReplicas[f] \in Int
  BY TargetAssumption
<1> QED
  BY <1>2, <1>3, <1>4, <1>5, <1>6 DEF JobFits, ReplicaCount

\* The draw finds a provider that is not excluded, if there are enough of them.
LEMMA DrawIsNew ==
  ASSUME NEW job \in Job, JobFits(job),
         TargetReplicas[job.file] <= Cardinality(Providers),
         NEW p \in FindRandomProvider(job.excludes)
  PROVE  p \notin job.excludes
<1> DEFINE E == job.excludes
<1>1. /\ IsFiniteSet(E) /\ Cardinality(E) \in Nat
      /\ job.left \in Nat \ {0} /\ TargetReplicas[job.file] \in Int
      /\ Cardinality(E) + job.left <= TargetReplicas[job.file]
  BY FS_CardinalityType, TargetAssumption DEF JobFits, Job
<1>2. Providers \ E # {}
  <2>1. SUFFICES ASSUME Providers \subseteq E PROVE FALSE
    OBVIOUS
  <2>2. Cardinality(Providers) \in Nat /\ Cardinality(Providers) <= Cardinality(E)
    BY <1>1, <2>1, FS_Subset, FS_CardinalityType
  <2> QED
    BY <1>1, <2>2
<1> QED
  BY <1>2 DEF FindRandomProvider

\* What worker w holds, when it holds a batch and when it works on a job.
LEMMA JobFields ==
  ASSUME TypeOK, NEW w \in Replicators
  PROVE  /\ JobsOf(w) \subseteq Job
         /\ rep[w].pc \in {"hire", "send", "register"} =>
              JobsOf(w) = rep[w].todo \cup {rep[w].job}
         /\ rep[w].pc = "batch" => JobsOf(w) = rep[w].todo
<1>1. rep[w] \in RepState
  BY DEF TypeOK
<1>2. rep[w].pc \in {"idle", "batch", "hire", "send", "register"}
  BY <1>1 DEF RepState, Idle
<1> QED
  BY <1>1, <1>2, RepFields DEF JobsOf

\* The end of a round of the hiring loop: the next round has one less to hire, or
\* the batch goes on.
LEMMA NextHireApart ==
  ASSUME NEW w \in Replicators, NEW todo \in SUBSET Job, NEW job \in Job,
         NEW excludes \in SUBSET Providers,
         rep'[w] = NextHire(todo, job, excludes),
         job \notin todo, InShare(job.file, NumReplicators, w),
         \A j \in todo : /\ InShare(j.file, NumReplicators, w) /\ JobFits(j)'
                         /\ j.file # job.file
                         /\ \A i \in todo : j.file = i.file => j = i,
         \A next \in Job : /\ next.file = job.file /\ next.left = job.left - 1
                           /\ next.excludes = excludes
                           => JobFits(next)'
  PROVE  JobsApartFor(w)'
<1>1. CASE job.left > 1
  <2> DEFINE next == [job EXCEPT !.left = @ - 1, !.excludes = excludes]
  <2>1. /\ next \in Job /\ next.file = job.file /\ next.left = job.left - 1
        /\ next.excludes = excludes
    <3>1. job = [file |-> job.file, left |-> job.left, excludes |-> job.excludes]
      BY DEF Job
    <3>2. job.left - 1 \in Nat \ {0}
      BY <1>1 DEF Job
    <3>3. next \in Job
      BY <3>1, <3>2 DEF Job
    <3>4. next.file = job.file /\ next.left = job.left - 1 /\ next.excludes = excludes
      BY DEF Job
    <3> QED
      BY <3>3, <3>4
  <2>2. rep'[w] = [pc |-> "hire", todo |-> todo, job |-> next]
    BY <1>1 DEF NextHire, Hiring
  <2>3. JobsOf(w)' = todo \cup {next}
    BY <2>2 DEF JobsOf
  <2>4. next \notin todo
    BY <2>1
  <2> HIDE DEF next
  <2>5. ASSUME NEW j \in todo \cup {next}
        PROVE  /\ InShare(j.file, NumReplicators, w) /\ JobFits(j)'
               /\ \A i \in todo \cup {next} : j.file = i.file => j = i
    BY <2>1
  <2> QED
    BY <2>2, <2>3, <2>4, <2>5 DEF JobsApartFor
<1>2. CASE ~(job.left > 1) /\ todo = {}
  <2>1. rep'[w] = Idle
    BY <1>2 DEF NextHire, Batch
  <2> QED
    BY <2>1 DEF JobsApartFor, JobsOf, Idle
<1>3. CASE ~(job.left > 1) /\ todo # {}
  <2>1. rep'[w] = [pc |-> "batch", todo |-> todo]
    BY <1>3 DEF NextHire, Batch
  <2>2. JobsOf(w)' = todo
    BY <2>1 DEF JobsOf
  <2> QED
    BY <2>1, <2>2 DEF JobsApartFor
<1> QED
  BY <1>1, <1>2, <1>3

\* A worker that does nothing, while no file gains a contract.
LEMMA OthersApart ==
  ASSUME TypeOK, NEW w \in Replicators, JobsApartFor(w), rep'[w] = rep[w],
         \A job \in JobsOf(w) : Kept(job.file)
  PROVE  JobsApartFor(w)'
<1>1. JobsOf(w)' = JobsOf(w)
  BY DEF JobsOf
<1>2. \A job \in JobsOf(w) : JobFits(job)'
  BY JobFields, FitsStay DEF JobsApartFor
<1> QED
  BY <1>1, <1>2 DEF JobsApartFor

\* The steps of a worker that leave the tables alone.
LEMMA WorkerApart ==
  ASSUME TypeOK, NEW w \in Replicators, JobsApartFor(w), Replicator(w), Quiet,
         \A f \in FileIds : Kept(f)
  PROVE  JobsApartFor(w)'
<1> DEFINE r == rep[w]
           Work == {"hire", "send", "register"}
<1>1. r \in RepState /\ rep \in [Replicators -> RepState]
  BY DEF TypeOK
<1>2. \A job \in Job : JobFits(job) => JobFits(job)'
  <2>1. \A job \in Job : job.file \in FileIds
    BY DEF Job
  <2> QED
    BY <2>1, FitsStay
<1>3. CASE ReplicatorQuery(w)
  <2>9. PICK Files \in GetFilesNeedingReplication(NumReplicators, w) :
          Files # {} /\ rep' = [rep EXCEPT ![w] = Batch({JobFor(f) : f \in Files})]
    BY <1>3 DEF ReplicatorQuery
  <2> DEFINE Jobs == {JobFor(f) : f \in Files}
  <2>1. Jobs # {} /\ rep' = [rep EXCEPT ![w] = Batch(Jobs)]
    BY <2>9
  <2>2. rep'[w] = [pc |-> "batch", todo |-> Jobs]
    BY <1>1, <2>1 DEF Batch
  <2>3. JobsOf(w)' = Jobs
    BY <2>2 DEF JobsOf
  <2>4. \A f \in Files : /\ f \in FileIds /\ JobFor(f).file = f
                         /\ InShare(f, NumReplicators, w) /\ JobFits(JobFor(f))
    BY QueryFits DEF GetFilesNeedingReplication, FilesNeedingReplication, JobFor
  <2>5. rep'[w] \in RepState
    BY <1>3, ReplicatorType DEF TypeOK
  <2>6. Jobs \subseteq Job
    BY <2>2, <2>5, RepFields
  <2>7. \A job \in Jobs : JobFits(job)'
    BY <1>2, <2>4, <2>6
  <2>8. \A job \in Jobs : /\ InShare(job.file, NumReplicators, w)
                          /\ \A other \in Jobs : job.file = other.file => job = other
    BY <2>4
  <2> QED
    BY <2>2, <2>3, <2>7, <2>8 DEF JobsApartFor
<1>4. CASE ReplicatorTake(w)
  <2>1. PICK job \in r.todo : rep' = [rep EXCEPT ![w] = Hiring(r.todo \ {job}, job)]
    BY <1>4 DEF ReplicatorTake
  <2>2. JobsOf(w) = r.todo /\ r.todo \subseteq Job
    BY <1>4, JobFields DEF ReplicatorTake
  <2>3. rep'[w] = [pc |-> "hire", todo |-> r.todo \ {job}, job |-> job]
    BY <1>1, <2>1 DEF Hiring
  <2>4. JobsOf(w)' = r.todo
    BY <2>1, <2>3 DEF JobsOf
  <2> QED
    BY <1>2, <2>2, <2>3, <2>4 DEF JobsApartFor
<1>5. ASSUME r.pc \in Work, rep' = [rep EXCEPT ![w] = NextHire(r.todo, r.job, r.job.excludes)]
      PROVE  JobsApartFor(w)'
  <2>1. /\ r.todo \in SUBSET Job /\ r.job \in Job /\ r.job.file \in FileIds
        /\ r.job.excludes \in SUBSET Providers
    BY <1>1, <1>5, RepFields DEF Job
  <2>2. JobsOf(w) = r.todo \cup {r.job}
    BY <1>5, JobFields
  <2>3. rep'[w] = NextHire(r.todo, r.job, r.job.excludes)
    BY <1>1, <1>5
  <2>4. ASSUME NEW next \in Job, next.file = r.job.file,
               next.left = r.job.left - 1, next.excludes = r.job.excludes
        PROVE  JobFits(next)
    <3>1. JobFits(r.job)
      BY <2>2 DEF JobsApartFor
    <3>2. /\ Cardinality(OwnReplicas(next.file)) \in Nat
          /\ TargetReplicas[next.file] \in Int /\ r.job.left \in Nat
          /\ IsFiniteSet(r.job.excludes) /\ Cardinality(r.job.excludes) \in Nat
      BY <2>1, <2>4, <3>1, OwnIds, IdsFinite, FS_CardinalityType, TargetAssumption
      DEF JobFits, Job
    <3> QED
      BY <2>4, <3>1, <3>2 DEF JobFits
  <2>5. PICK todo \in SUBSET Job, job \in Job, excludes \in SUBSET Providers :
          todo = r.todo /\ job = r.job /\ excludes = r.job.excludes
    BY <2>1
  <2>6. /\ job \notin todo /\ InShare(job.file, NumReplicators, w)
        /\ \A j \in todo : /\ InShare(j.file, NumReplicators, w) /\ JobFits(j)'
                           /\ j.file # job.file
                           /\ \A i \in todo : j.file = i.file => j = i
    BY <1>2, <1>5, <2>2, <2>5 DEF JobsApartFor
  <2>7. \A next \in Job : /\ next.file = job.file /\ next.left = job.left - 1
                          /\ next.excludes = excludes
                          => JobFits(next)'
    BY <1>2, <2>4, <2>5
  <2> QED
    BY <2>3, <2>5, <2>6, <2>7, NextHireApart
<1>6. CASE ReplicatorFetch(w)
  <2>1. r.pc = "hire" /\ JobsOf(w) = r.todo \cup {r.job} /\ r.job \in Job
    BY <1>1, <1>6, JobFields, RepFields DEF ReplicatorFetch
  <2>2. CASE rep' = [rep EXCEPT ![w] = NextHire(r.todo, r.job, r.job.excludes)]
    BY <1>5, <2>1, <2>2
  <2>3. ASSUME NEW p \in FindRandomProvider(r.job.excludes),
               rep' = [rep EXCEPT ![w] =
                         [pc |-> "send", todo |-> r.todo, job |-> r.job,
                          provider |-> p, list |-> HireList(BagOf[r.job.file], p)]]
        PROVE  JobsApartFor(w)'
    <3>1. rep'[w] = [pc |-> "send", todo |-> r.todo, job |-> r.job,
                     provider |-> p, list |-> HireList(BagOf[r.job.file], p)]
      BY <1>1, <2>3
    <3>2. JobsOf(w)' = JobsOf(w)
      BY <2>1, <3>1 DEF JobsOf
    <3>3. /\ JobFits(r.job)
          /\ \A job \in JobsOf(w) : JobFits(job)'
      BY <1>2, <2>1, JobFields DEF JobsApartFor
    <3>4. TargetReplicas[r.job.file] <= Cardinality(Providers) =>
            p \notin r.job.excludes
      BY <2>1, <3>3, DrawIsNew
    <3>5. /\ rep'[w].pc = "send" /\ rep'[w].todo = r.todo /\ rep'[w].job = r.job
          /\ rep'[w].provider = p
      BY <3>1
    <3> QED
      BY <2>1, <3>2, <3>3, <3>4, <3>5 DEF JobsApartFor
  <2> QED
    BY <1>6, <2>2, <2>3 DEF ReplicatorFetch
<1>7. CASE ReplicatorSend(w)
  <2>1. r.pc = "send" /\ JobsOf(w) = r.todo \cup {r.job} /\ r.job \in Job
    BY <1>1, <1>7, JobFields, RepFields DEF ReplicatorSend
  <2>2. CASE rep' = [rep EXCEPT ![w] = NextHire(r.todo, r.job, r.job.excludes)]
    BY <1>5, <2>1, <2>2
  <2>3. CASE rep' = [rep EXCEPT ![w] =
                       [pc |-> "register", todo |-> r.todo, job |-> r.job,
                        provider |-> r.provider]]
    <3>1. rep'[w] = [pc |-> "register", todo |-> r.todo, job |-> r.job,
                     provider |-> r.provider]
      BY <1>1, <2>3
    <3>2. JobsOf(w)' = JobsOf(w)
      BY <2>1, <3>1 DEF JobsOf
    <3>3. \A job \in JobsOf(w) : JobFits(job)'
      BY <1>2, JobFields DEF JobsApartFor
    <3>4. /\ rep'[w].todo = r.todo /\ rep'[w].job = r.job
          /\ rep'[w].provider = r.provider
      BY <3>1
    <3> QED
      BY <2>1, <3>2, <3>3, <3>4 DEF JobsApartFor
  <2> QED
    BY <1>7, <2>2, <2>3 DEF ReplicatorSend
<1>8. CASE ReplicatorRegister(w)
  <2>1. r.pc = "register"
        /\ rep' = [rep EXCEPT ![w] = NextHire(r.todo, r.job, r.job.excludes)]
    <3>1. ~ (nextContract' = nextContract + 1)
      BY DEF Quiet, TypeOK, DBTypeOK
    <3> QED
      BY <1>8, <3>1 DEF ReplicatorRegister, RegisterContract
  <2> QED
    BY <1>5, <2>1
<1> QED
  BY <1>3, <1>4, <1>6, <1>7, <1>8 DEF Replicator

\* What the job at hand says when its worker registers the contract.
LEMMA HireIsCovered ==
  ASSUME TypeOK, JobsApart, NEW w \in Replicators, NEW g \in FileIds,
         PoolHire(w), HireAdds(w, g)
  PROVE  /\ rep[w].job \in JobsOf(w) /\ rep[w].job \in Job /\ JobFits(rep[w].job)
         /\ rep[w].job.file = g
         /\ Cardinality(OwnReplicas(g)) \in Nat
         /\ Cardinality(OwnReplicas(g)') = Cardinality(OwnReplicas(g)) + 1
         /\ Cardinality(OwnReplicas(g)') <= TargetReplicas[g]
         /\ ProvidersOf(OwnReplicas(g))' \subseteq
              ProvidersOf(OwnReplicas(g)) \cup {rep[w].provider}
         /\ TargetReplicas[g] <= Cardinality(Providers) =>
              rep[w].provider \notin ProvidersOf(OwnReplicas(g))
<1> DEFINE job == rep[w].job
<1>1. rep[w].pc = "register" /\ job.file = g
  BY DEF PoolHire, HireAdds
<1>2. job \in JobsOf(w) /\ job \in Job
  BY <1>1, JobFields
<1>3. JobFits(job)
  BY <1>2 DEF JobsApart, JobsApartFor
<1>4. /\ IsFiniteSet(OwnReplicas(g)) /\ Cardinality(OwnReplicas(g)) \in Nat
  BY OwnIds, IdsFinite
<1>5. Cardinality(OwnReplicas(g)') = Cardinality(OwnReplicas(g)) + 1
  BY <1>4, FS_AddElement DEF HireAdds
<1>6. Cardinality(OwnReplicas(g)) + job.left <= TargetReplicas[g]
      /\ job.left \in Nat \ {0} /\ TargetReplicas[g] \in Int
  BY <1>1, <1>2, <1>3, TargetAssumption DEF JobFits, Job
<1>7. ProvidersOf(OwnReplicas(g))' \subseteq
        ProvidersOf(OwnReplicas(g)) \cup {rep[w].provider}
  BY DEF ProvidersOf, HireAdds
<1>8. TargetReplicas[g] <= Cardinality(Providers) => rep[w].provider \notin job.excludes
  BY <1>1 DEF JobsApart, JobsApartFor
<1>9. ProvidersOf(OwnReplicas(g)) \subseteq job.excludes
  BY <1>1, <1>3 DEF JobFits
<1> QED
  BY <1>1, <1>2, <1>3, <1>4, <1>5, <1>6, <1>7, <1>8, <1>9

LEMMA HireApart ==
  ASSUME TypeOK, JobsApart, NEW w \in Replicators, NEW g \in FileIds,
         PoolHire(w), HireAdds(w, g)
  PROVE  JobsApart'
<1>1. /\ rep \in [Replicators -> RepState]
      /\ rep[w].pc = "register" /\ rep[w].job.file = g
  BY DEF TypeOK, PoolHire, HireAdds
<1>2. PICK todo \in SUBSET Job, job \in Job, p \in Providers :
        todo = rep[w].todo /\ job = rep[w].job /\ p = rep[w].provider
  BY <1>1, RepFields
<1>3. /\ job \in JobsOf(w) /\ JobsOf(w) = todo \cup {job} /\ job.file = g
      /\ job \notin todo /\ InShare(g, NumReplicators, w)
  BY <1>1, <1>2, JobFields DEF JobsApart, JobsApartFor
<1>4. \A f \in FileIds \ {g} : Kept(f)
  BY DEF HireAdds, Unmoved
<1>5. ASSUME NEW v \in Replicators \ {w}
      PROVE  JobsApartFor(v)'
  <2>1. rep'[v] = rep[v]
    BY <1>1 DEF PoolHire
  <2>2. ASSUME NEW j \in JobsOf(v)
        PROVE  Kept(j.file)
    <3>1. j.file # g
      BY <1>3, SharesDisjoint DEF JobsApart, JobsApartFor
    <3> QED
      BY <1>4, <3>1, JobFields DEF Job
  <2> QED
    BY <2>1, <2>2, OthersApart DEF JobsApart
<1>6. JobsApartFor(w)'
  <2> DEFINE excludes == job.excludes \cup {p}
  <2>1. excludes \in SUBSET Providers
    BY DEF Job
  <2>2. rep'[w] = NextHire(todo, job, excludes)
    BY <1>1, <1>2 DEF PoolHire
  <2>3. ASSUME NEW j \in todo
        PROVE  /\ InShare(j.file, NumReplicators, w) /\ JobFits(j)'
               /\ j.file # job.file
               /\ \A i \in todo : j.file = i.file => j = i
    <3>1. /\ JobFits(j) /\ InShare(j.file, NumReplicators, w) /\ j.file # job.file
          /\ \A i \in todo : j.file = i.file => j = i
      BY <1>3 DEF JobsApart, JobsApartFor
    <3>2. Kept(j.file)
      BY <1>3, <1>4, <3>1 DEF Job
    <3> QED
      BY <3>1, <3>2, FitsStay
  <2>4. ASSUME NEW next \in Job, next.file = job.file,
               next.left = job.left - 1, next.excludes = excludes
        PROVE  JobFits(next)'
    <3>1. /\ JobFits(job)
          /\ Cardinality(OwnReplicas(g)) \in Nat
          /\ Cardinality(OwnReplicas(g)') = Cardinality(OwnReplicas(g)) + 1
          /\ ProvidersOf(OwnReplicas(g))' \subseteq ProvidersOf(OwnReplicas(g)) \cup {p}
      BY <1>2, HireIsCovered
    <3>2. /\ IsFiniteSet(job.excludes) /\ Cardinality(job.excludes) \in Nat
          /\ job.left \in Nat /\ TargetReplicas[g] \in Int
      BY <3>1, FS_CardinalityType, TargetAssumption DEF JobFits, Job
    <3>3. /\ IsFiniteSet(excludes) /\ Cardinality(excludes) \in Nat
          /\ Cardinality(excludes) <= Cardinality(job.excludes) + 1
      <4>1. /\ IsFiniteSet(excludes)
            /\ Cardinality(excludes) = IF p \in job.excludes
                                         THEN Cardinality(job.excludes)
                                         ELSE Cardinality(job.excludes) + 1
        BY <3>2, FS_AddElement
      <4> HIDE DEF excludes
      <4> QED
        BY <3>2, <4>1
    <3>4. Cardinality(OwnReplicas(g)') + (job.left - 1) <= TargetReplicas[g]
      BY <1>3, <3>1, <3>2 DEF JobFits
    <3>5. Cardinality(excludes) + (job.left - 1) <= TargetReplicas[g]
      BY <1>3, <3>1, <3>2, <3>3 DEF JobFits
    <3>6. ProvidersOf(OwnReplicas(g))' \subseteq excludes
      BY <1>3, <3>1 DEF JobFits
    <3> QED
      BY <1>3, <2>4, <3>3, <3>4, <3>5, <3>6 DEF JobFits
  <2> HIDE DEF excludes
  <2>5. job \notin todo /\ InShare(job.file, NumReplicators, w)
    BY <1>3
  <2>6. \A next \in Job : /\ next.file = job.file /\ next.left = job.left - 1
                          /\ next.excludes = excludes
                          => JobFits(next)'
    BY <2>4
  <2> QED
    BY <2>1, <2>2, <2>3, <2>5, <2>6, NextHireApart
<1> QED
  BY <1>5, <1>6 DEF JobsApart

\* While no file gains a contract of the pool.
LEMMA KeptApart ==
  ASSUME TypeOK, JobsApart, [Next]_vars, \A f \in FileIds : Kept(f),
         \A w \in Replicators : ~PoolHire(w)
  PROVE  JobsApart'
<1>1. ASSUME NEW w \in Replicators, rep'[w] = rep[w]
      PROVE  JobsApartFor(w)'
  <2>1. \A job \in JobsOf(w) : Kept(job.file)
    BY JobFields DEF Job
  <2> QED
    BY <1>1, <2>1, OthersApart DEF JobsApart
<1>2. ASSUME NEW w \in Replicators, Replicator(w)
      PROVE  JobsApart'
  <2>1. Quiet /\ \A v \in Replicators \ {w} : rep'[v] = rep[v]
    <3>1. CASE ReplicatorRegister(w)
      BY <1>2, <3>1 DEF ReplicatorRegister, PoolHire, Quiet, dbVars, TypeOK
    <3>2. CASE \/ ReplicatorQuery(w) \/ ReplicatorTake(w) \/ ReplicatorFetch(w)
               \/ ReplicatorSend(w)
      BY <3>2
      DEF ReplicatorQuery, ReplicatorTake, ReplicatorFetch, ReplicatorSend, Quiet,
          dbVars, historyVars, TypeOK
    <3> QED
      BY <1>2, <3>1, <3>2 DEF Replicator
  <2>2. JobsApartFor(w)'
    BY <1>2, <2>1, WorkerApart DEF JobsApart
  <2> QED
    BY <1>1, <2>1, <2>2 DEF JobsApart
<1>3. CASE Restart
  BY <1>3 DEF Restart, JobsApart, JobsApartFor, JobsOf, Idle
<1>4. CASE rep' = rep
  BY <1>1, <1>4 DEF JobsApart
<1>5. ASSUME NEW a \in Auditors, Auditor(a)
      PROVE  rep' = rep
  BY <1>5
  DEF Auditor, AuditorQuery, AuditorProbe, AuditorActivate, AuditorUpgrade,
      AuditorUpgradeWrite, AuditorRemove, AuditorSend, AuditorFail,
      AuditorDowngrade, AuditorDowngradeWrite
<1>6. ASSUME NEW x \in AdminRequests, Manual(x) \/ Withdrawal(x)
      PROVE  rep' = rep
  BY <1>6
  DEF Manual, ManualReplicate, ManualFetch, ManualSend, ManualRegister,
      Withdrawal, Withdraw, WithdrawRemove, WithdrawSend, WithdrawMark
<1>7. ASSUME \/ \E f \in FileIds : Upload(f) \/ Delete(f) \/ DownloadDone(f)
             \/ \E t \in LateSlots : LateTransaction(t)
      PROVE  rep' = rep
  BY <1>7 DEF Upload, Delete, DownloadDone, LateTransaction, procVars
<1>8. UNCHANGED vars => rep' = rep
  BY DEF vars, procVars
<1> QED
  BY <1>2, <1>3, <1>4, <1>5, <1>6, <1>7, <1>8 DEF Next, AdminRequests

-----------------------------------------------------------------------------
(* The invariant, and what follows from it.                                 *)

LEMMA HiringInit == Init => HiringInv
<1> SUFFICES ASSUME Init PROVE HiringInv
  OBVIOUS
<1>1. TypeOK /\ FreshIds /\ HeldRowsMatch
  BY ShortfallInit DEF ShortfallInv
<1>2. RowsHaveFiles
  BY DEF Init, DBInit, RowsHaveFiles, ContractExists, NoRow
<1>3. AuditsApart
  BY DEF Init, AuditsApart, HeldByAuditor, MayActivate, Idle, AuditSteps
<1>4. JobsApart
  BY DEF Init, JobsApart, JobsApartFor, JobsOf, Idle
<1>5. \A f : OwnReplicas(f) = {}
  BY DEF Init, DBInit, OwnReplicas, ContractsOf, NoRow, Live
<1>6. NoOverHire /\ DistinctProviders
  BY <1>5, FS_EmptySet DEF NoOverHire, DistinctProviders
<1> QED
  BY <1>1, <1>2, <1>3, <1>4, <1>6 DEF HiringInv

LEMMA HiringNext == HiringInv /\ [Next]_vars => HiringInv'
<1> SUFFICES ASSUME HiringInv, [Next]_vars PROVE HiringInv'
  OBVIOUS
<1>1. /\ TypeOK /\ FreshIds /\ HeldRowsMatch /\ RowsHaveFiles /\ AuditsApart
      /\ JobsApart /\ NoOverHire /\ DistinctProviders
  BY DEF HiringInv
<1>2. TypeOK' /\ FreshIds' /\ HeldRowsMatch'
  BY <1>1, TypeNext, OneStatement, FreshIdsStep, HeldRowsStep DEF TypeOK
<1>3. RowsHaveFiles' /\ AuditsApart'
  BY <1>1, RowsHaveFilesStep, AuditsApartStep
<1>4. ASSUME NEW f \in FileIds, Kept(f)
      PROVE  /\ Cardinality(OwnReplicas(f)') > 0 =>
                  Cardinality(OwnReplicas(f)') <= TargetReplicas[f]
             /\ TargetReplicas[f] <= Cardinality(Providers) =>
                  \A c, d \in OwnReplicas(f)' :
                    contracts'[c].provider = contracts'[d].provider => c = d
  <2>1. /\ Cardinality(OwnReplicas(f)) > 0 =>
             Cardinality(OwnReplicas(f)) <= TargetReplicas[f]
        /\ TargetReplicas[f] \in Int
    BY <1>1, TargetAssumption DEF NoOverHire
  <2>2. Cardinality(OwnReplicas(f)') > 0 =>
          Cardinality(OwnReplicas(f)') <= TargetReplicas[f]
    BY <1>4, <2>1, KeptIsFewer
  <2>3. ASSUME TargetReplicas[f] <= Cardinality(Providers),
               NEW c \in OwnReplicas(f)', NEW d \in OwnReplicas(f)',
               contracts'[c].provider = contracts'[d].provider
        PROVE  c = d
    BY <1>1, <1>4, <2>3 DEF DistinctProviders, Kept
  <2> QED
    BY <2>2, <2>3
<1>5. ASSUME \A f \in FileIds : Kept(f), \A w \in Replicators : ~PoolHire(w)
      PROVE  JobsApart' /\ NoOverHire' /\ DistinctProviders'
  <2>1. JobsApart'
    BY <1>1, <1>5, KeptApart
  <2>2. NoOverHire' /\ DistinctProviders'
    BY <1>4, <1>5 DEF NoOverHire, DistinctProviders
  <2> QED
    BY <2>1, <2>2
<1>6. ASSUME NEW w \in Replicators, NEW g \in FileIds, PoolHire(w), HireAdds(w, g)
      PROVE  JobsApart' /\ NoOverHire' /\ DistinctProviders'
  <2>1. JobsApart'
    BY <1>1, <1>6, HireApart
  <2>2. \A f \in FileIds \ {g} : Kept(f)
    BY <1>6 DEF HireAdds, Unmoved
  <2>3. Cardinality(OwnReplicas(g)') <= TargetReplicas[g]
    BY <1>1, <1>6, HireIsCovered
  <2>4. ASSUME TargetReplicas[g] <= Cardinality(Providers),
               NEW c \in OwnReplicas(g)', NEW d \in OwnReplicas(g)',
               contracts'[c].provider = contracts'[d].provider
        PROVE  c = d
    <3>1. rep[w].provider \notin {contracts[e].provider : e \in OwnReplicas(g)}
      BY <1>1, <1>6, <2>4, HireIsCovered DEF ProvidersOf
    <3>2. \A e \in OwnReplicas(g)' :
            \/ e = nextContract /\ contracts'[e].provider = rep[w].provider
            \/ e \in OwnReplicas(g) /\ contracts'[e].provider = contracts[e].provider
      BY <1>6 DEF HireAdds
    <3>3. \A e \in OwnReplicas(g)' :
            e # nextContract => contracts'[e].provider # rep[w].provider
      BY <3>1, <3>2
    <3>4. CASE c \in OwnReplicas(g) /\ d \in OwnReplicas(g)
      BY <1>1, <1>6, <2>4, <3>4 DEF DistinctProviders, HireAdds
    <3> QED
      BY <2>4, <3>2, <3>3, <3>4
  <2>5. NoOverHire'
    BY <1>4, <2>2, <2>3 DEF NoOverHire
  <2>6. DistinctProviders'
    BY <1>4, <2>2, <2>4 DEF DistinctProviders
  <2> QED
    BY <2>1, <2>5, <2>6
<1>7. JobsApart' /\ NoOverHire' /\ DistinctProviders'
  <2>1. CASE \E w \in Replicators : PoolHire(w)
    <3>1. PICK w \in Replicators : PoolHire(w)
      BY <2>1
    <3> QED
      BY <1>1, <1>6, <3>1, PoolHireAdds
  <2>2. CASE \A w \in Replicators : ~PoolHire(w)
    <3>1. \A f \in FileIds : Kept(f)
      BY <1>1, <2>2, OwnStep DEF Unmoved
    <3> QED
      BY <1>5, <2>2, <3>1
  <2> QED
    BY <2>1, <2>2
<1> QED
  BY <1>2, <1>3, <1>7 DEF HiringInv

\* For any number of files, targets, contracts, workers and requests: what the
\* replicators and the auditors have read and still hold is good enough to act on.
THEOREM HiringInvariant == Spec => []HiringInv
BY HiringInit, HiringNext, PTL DEF Spec

\* The pool never hires more providers for a file than its target, although every
\* count is old when it is used.
THEOREM NoOverHireCorrect == Spec => []NoOverHire
<1>1. HiringInv => NoOverHire
  BY DEF HiringInv
<1> QED
  BY <1>1, HiringInvariant, PTL

\* The pool hires no provider twice for a file, as long as there are enough of them.
THEOREM DistinctProvidersCorrect == Spec => []DistinctProviders
<1>1. HiringInv => DistinctProviders
  BY DEF HiringInv
<1> QED
  BY <1>1, HiringInvariant, PTL

\* A failed contract comes back only if an admin withdrew it, and an active one is
\* never pending again, whatever stale snapshots the auditors write from.
THEOREM StatusNeverGoesBackCorrect == Spec => StatusNeverGoesBack
<1>1. HiringInv /\ [Next]_vars =>
        [\A c \in ContractIds :
           /\ contracts[c].status = "failed" /\ contracts'[c].status \in Live
                => c \in withdrawn
           /\ contracts[c].status = "active" => contracts'[c].status # "pending"]_vars
  BY StatusStep DEF HiringInv
<1> QED
  BY <1>1, HiringInvariant, PTL DEF Spec, StatusNeverGoesBack

\* The part of Heals that takes no fairness.  A file that is short of replicas
\* belongs to one worker, whatever became of the batches and hires of before: no
\* other worker's query returns it, its own worker's always returns some file, and
\* this one if no more files of the share are short than the query returns; there
\* is always a provider to draw; and a hire that is registered brings the file one
\* replica nearer to its target.
THEOREM ShortageIsSeen ==
  ASSUME HiringInv, NumReplicators # 0, IsFiniteSet(FileIds),
         NEW f \in FileIds, FileExists(f),
         Cardinality(ContractsOf(f, Live)) < TargetReplicas[f]
  PROVE  \E w \in Replicators :
           /\ \A v \in Replicators \ {w} :
                \A F \in GetFilesNeedingReplication(NumReplicators, v) : f \notin F
           /\ \A F \in GetFilesNeedingReplication(NumReplicators, w) :
                /\ F # {}
                /\ ~Crowded(w) => f \in F
           /\ \A excludes : FindRandomProvider(excludes) # {}
           /\ \A p \in Providers :
                RegisterContract(f, p) /\ nextContract <= MaxContracts =>
                  Cardinality(ContractsOf(f, Live))' =
                    Cardinality(ContractsOf(f, Live)) + 1
<1> DEFINE w == f % NumReplicators
<1>1. f \in Nat /\ NumReplicators \in Nat \ {0}
  BY FileIdsAssumption, WorkersAssumption
<1>2. w \in Replicators
  BY <1>1 DEF Replicators
<1>3. ASSUME NEW F \in GetFilesNeedingReplication(NumReplicators, w)
      PROVE  F # {} /\ (~Crowded(w) => f \in F)
  <2> DEFINE needing == FilesNeedingReplication(NumReplicators, w)
  <2>1. f \in needing
    BY DEF FilesNeedingReplication, InShare, ReplicaCount
  <2>2. IsFiniteSet(needing)
    <3>1. needing \subseteq FileIds
      BY DEF FilesNeedingReplication
    <3> QED
      BY <3>1, FS_Subset
  <2>3. /\ F \subseteq needing
        /\ Cardinality(F) = ReplicationLimit \/ F = needing
        /\ ~Crowded(w) <=> ~(Cardinality(needing) > ReplicationLimit)
    BY DEF GetFilesNeedingReplication, Crowded
  <2> HIDE DEF needing
  <2>4. /\ Cardinality(F) <= Cardinality(needing)
        /\ Cardinality(F) = Cardinality(needing) => F = needing
    BY <2>2, <2>3, FS_Subset
  <2>5. Cardinality(F) \in Nat /\ Cardinality(needing) \in Nat
    BY <2>2, <2>3, FS_Subset, FS_CardinalityType
  <2>6. F # {}
    <3>1. Cardinality({}) = 0
      BY FS_EmptySet
    <3> QED
      BY <2>1, <2>3, <3>1, ReplicationLimitAssumption
  <2>7. ~Crowded(w) => F = needing
    BY <2>3, <2>4, <2>5, ReplicationLimitAssumption
  <2> QED
    BY <2>1, <2>6, <2>7
<1>4. ASSUME NEW v \in Replicators \ {w}
      PROVE  \A F \in GetFilesNeedingReplication(NumReplicators, v) : f \notin F
  BY <1>4 DEF GetFilesNeedingReplication, FilesNeedingReplication, InShare
<1>5. \A excludes : FindRandomProvider(excludes) # {}
  BY ProvidersAssumption DEF FindRandomProvider
<1>6. ASSUME NEW p \in Providers, RegisterContract(f, p), nextContract <= MaxContracts
      PROVE  Cardinality(ContractsOf(f, Live))' = Cardinality(ContractsOf(f, Live)) + 1
  <2>1. DBTypeOK /\ FreshIds
    BY DEF HiringInv, TypeOK
  <2>2. /\ nextContract \in ContractIds /\ ~ContractExists(nextContract)
        /\ contracts' = [contracts EXCEPT ![nextContract] =
             [file |-> f, provider |-> p, status |-> "pending"]]
    BY <1>6, <2>1, MaxContractsAssumption
    DEF RegisterContract, FreshIds, DBTypeOK, ContractIds
  <2>3. nextContract \notin ContractsOf(f, Live)
    BY <2>2 DEF ContractsOf, ContractExists, Live
  <2>4. ContractsOf(f, Live)' = ContractsOf(f, Live) \cup {nextContract}
    BY <2>1, <2>2 DEF ContractsOf, DBTypeOK, Live
  <2>5. IsFiniteSet(ContractsOf(f, Live))
    BY CountIsNat
  <2>6. Cardinality(ContractsOf(f, Live) \cup {nextContract}) =
          Cardinality(ContractsOf(f, Live)) + 1
    BY <2>3, <2>5, FS_AddElement
  <2> QED
    BY <2>4, <2>6
<1> QED
  BY <1>2, <1>3, <1>4, <1>5, <1>6

-----------------------------------------------------------------------------
(* Who is paid without a row.                                               *)

\* A list goes on chain only with the transaction of the process that holds it, or
\* with a late one.
LEMMA PaidBySending ==
  ASSUME TypeOK, [Next]_vars, NEW b \in Bags, NEW p \in Providers,
         p \notin chain[b], p \in chain'[b]
  PROVE  Paying(b, p)
<1>1. /\ chain \in [Bags -> SUBSET Providers]
      /\ late \in [LateSlots -> Transaction \cup {NoTransaction}]
  BY DEF TypeOK, ChainTypeOK
<1>2. ASSUME NEW bag, NEW list, SendTransaction(bag, list)
      PROVE  bag = b /\ p \in list
  BY <1>1, <1>2 DEF SendTransaction, chainVars
<1>3. chain' # chain /\ ~UNCHANGED chainVars
  BY DEF chainVars
<1>9. ASSUME NEW t \in LateSlots, LateTransaction(t)
      PROVE  Paying(b, p)
  <2>1. Lands(t) /\ late[t] \in Transaction
    BY <1>1, <1>3, <1>9 DEF LateTransaction, Lands, Expires
  <2>2. late[t].bag = b /\ p \in late[t].list
    BY <1>1, <2>1 DEF Lands
  <2> QED
    BY <2>1, <2>2 DEF Paying
<1>4. ASSUME NEW w \in Replicators, Replicator(w)
      PROVE  Paying(b, p)
  <2>1. ReplicatorSend(w)
    BY <1>3, <1>4
    DEF Replicator, ReplicatorQuery, ReplicatorTake, ReplicatorFetch, ReplicatorRegister
  <2> QED
    BY <1>2, <2>1 DEF ReplicatorSend, Paying
<1>5. ASSUME NEW a \in Auditors, Auditor(a)
      PROVE  Paying(b, p)
  <2>1. AuditorSend(a)
    BY <1>3, <1>5
    DEF Auditor, AuditorQuery, AuditorProbe, AuditorActivate, AuditorUpgrade,
        AuditorUpgradeWrite, AuditorRemove, AuditorFail, AuditorDowngrade,
        AuditorDowngradeWrite
  <2> QED
    BY <1>2, <2>1 DEF AuditorSend, Paying
<1>6. ASSUME NEW x \in AdminRequests, Manual(x) \/ Withdrawal(x)
      PROVE  Paying(b, p)
  <2>1. ManualSend(x) \/ WithdrawSend(x)
    BY <1>3, <1>6
    DEF Manual, ManualReplicate, ManualFetch, ManualRegister,
        Withdrawal, Withdraw, WithdrawRemove, WithdrawMark
  <2> QED
    BY <1>2, <2>1 DEF ManualSend, WithdrawSend, Paying
<1>7. ~\E f \in FileIds : Upload(f) \/ Delete(f) \/ DownloadDone(f)
  BY <1>3 DEF Upload, Delete, DownloadDone
<1>8. ~Restart /\ ~UNCHANGED vars
  BY <1>3 DEF Restart, vars
<1> QED
  BY <1>4, <1>5, <1>6, <1>7, <1>8, <1>9 DEF Next, AdminRequests

\* Who has hired a provider inserts its row, is refused by the database, or is cut
\* off by a restart.
LEMMA RegisteringEnds ==
  ASSUME TypeOK, [Next]_vars, NEW b \in Bags, NEW p \in Providers,
         Registering(b, p), ~Registering(b, p)', ~UNCHANGED dbVars
  PROVE  \E f \in FileIds :
           BagOf[f] = b /\ nextContract <= MaxContracts /\ RegisterContract(f, p)
<1>1. ~UNCHANGED <<rep, adm>>
  BY DEF Registering
<1>2. /\ rep \in [Replicators -> RepState]
      /\ adm \in [AdminRequests -> AdmState]
  BY DEF TypeOK
<1>3. ASSUME NEW w \in Replicators, Replicator(w)
      PROVE  \E f \in FileIds :
               BagOf[f] = b /\ nextContract <= MaxContracts /\ RegisterContract(f, p)
  <2>1. ReplicatorRegister(w)
    BY <1>3
    DEF Replicator, ReplicatorQuery, ReplicatorTake, ReplicatorFetch, ReplicatorSend
  <2>2. /\ nextContract <= MaxContracts
        /\ RegisterContract(rep[w].job.file, rep[w].provider)
        /\ rep[w].job.file \in FileIds
    BY <1>2, <2>1, RepFields DEF ReplicatorRegister, Job
  <2>3. adm' = adm /\ \A v \in Replicators \ {w} : rep'[v] = rep[v]
    BY <1>2, <2>1 DEF ReplicatorRegister
  <2>4. rep[w].provider = p /\ BagOf[rep[w].job.file] = b
    BY <2>3 DEF Registering
  <2> QED
    BY <2>2, <2>4
<1>4. ASSUME NEW x \in AdminRequests, Manual(x)
      PROVE  \E f \in FileIds :
               BagOf[f] = b /\ nextContract <= MaxContracts /\ RegisterContract(f, p)
  <2>1. ManualRegister(x)
    BY <1>4 DEF Manual, ManualReplicate, ManualFetch, ManualSend
  <2>2. /\ nextContract <= MaxContracts /\ adm[x].file \in FileIds
        /\ RegisterContract(adm[x].file, adm[x].provider)
    BY <1>2, <2>1, AdmFields DEF ManualRegister, dbVars
  <2>3. rep' = rep /\ \A y \in AdminRequests \ {x} : adm'[y] = adm[y]
    BY <1>2, <2>1 DEF ManualRegister
  <2>4. adm[x].provider = p /\ BagOf[adm[x].file] = b
    BY <2>3 DEF Registering
  <2> QED
    BY <2>2, <2>4
<1>5. ASSUME NEW x \in AdminRequests, Withdrawal(x)
      PROVE  FALSE
  <2>1. WithdrawMark(x)
    BY <1>5 DEF Withdrawal, Withdraw, WithdrawRemove, WithdrawSend
  <2>2. rep' = rep /\ adm' = [adm EXCEPT ![x] = Idle] /\ adm[x].pc = "mark"
    BY <2>1 DEF WithdrawMark
  <2> QED
    BY <1>2, <2>2 DEF Registering
<1>6. \A a \in Auditors : ~Auditor(a)
  BY <1>1
  DEF Auditor, AuditorQuery, AuditorProbe, AuditorActivate, AuditorUpgrade,
      AuditorUpgradeWrite, AuditorRemove, AuditorSend, AuditorFail,
      AuditorDowngrade, AuditorDowngradeWrite
<1>7. /\ ~\E f \in FileIds : Upload(f) \/ Delete(f) \/ DownloadDone(f)
      /\ ~\E t \in LateSlots : LateTransaction(t)
  BY <1>1 DEF Upload, Delete, DownloadDone, LateTransaction, procVars
<1>8. ~Restart /\ ~UNCHANGED vars
  BY DEF Restart, vars
<1> QED
  BY <1>3, <1>4, <1>5, <1>6, <1>7, <1>8 DEF Next, AdminRequests

\* A live row stops being one only when it is failed, by its auditor or an admin,
\* or when its file is deleted.
LEMMA LiveRowEnds ==
  ASSUME TypeOK, FreshIds, HeldRowsMatch, [Next]_vars,
         NEW c \in ContractIds, contracts[c].status \in Live,
         \/ contracts'[c].status \notin Live
         \/ contracts'[c].provider # contracts[c].provider
         \/ contracts'[c].file # contracts[c].file
  PROVE  \/ \E a \in Auditors :
              /\ aud[a].pc = "fail" /\ aud[a].con.provider = contracts[c].provider
              /\ aud[a].con.file = contracts[c].file
         \/ \E x \in WithdrawRequests :
              /\ adm[x].pc = "mark" /\ adm[x].con.provider = contracts[c].provider
              /\ adm[x].con.file = contracts[c].file
         \/ contracts[c].file \in FileIds /\ Delete(contracts[c].file)
<1>1. DBTypeOK /\ ContractExists(c)
  BY DEF TypeOK, ContractExists, Live
<1>2. contracts'[c] # contracts[c] /\ contracts[c] \in Contract
  BY <1>1, RowIsContract
<1>3. ~Quiet
  BY <1>2 DEF Quiet
<1>4. ASSUME NEW w \in Replicators, PoolHire(w)
      PROVE  FALSE
  BY <1>1, <1>2, <1>4, PoolHireRows
<1>5. ASSUME NEW x \in ManualRequests, ManualHire(x)
      PROVE  FALSE
  BY <1>1, <1>2, <1>5, ManualHireRows DEF AdminRequests
<1>6. ASSUME NEW a \in Auditors, Activation(a)
      PROVE  FALSE
  <2>1. aud[a].con.id \in ContractIds
    BY <1>6, HeldFields DEF Activation, AuditSteps
  <2> QED
    BY <1>1, <1>2, <1>6, <2>1, SetStatusRows
    DEF Activation, MarkContractActive, ContractStatus, Live
<1>7. ASSUME NEW a \in Auditors, Firing(a)
      PROVE  /\ aud[a].pc = "fail" /\ aud[a].con.provider = contracts[c].provider
             /\ aud[a].con.file = contracts[c].file
  <2>1. /\ aud[a].pc = "fail" /\ aud[a].con \in HeldByAuditor(a)
        /\ aud[a].con.id \in ContractIds
    BY <1>7, HeldFields DEF Firing, AuditSteps
  <2>2. aud[a].con.id = c
    BY <1>1, <1>2, <1>7, <2>1, SetStatusRows
    DEF Firing, MarkContractFailed, ContractStatus
  <2> QED
    BY <1>1, <2>1, <2>2 DEF HeldRowsMatch, StillNames
<1>8. ASSUME NEW x \in WithdrawRequests, Dismissal(x)
      PROVE  /\ adm[x].pc = "mark" /\ adm[x].con.provider = contracts[c].provider
             /\ adm[x].con.file = contracts[c].file
  <2>1. /\ x \in AdminRequests /\ adm[x].pc = "mark"
        /\ adm[x].con \in HeldByAdmin(x) /\ adm[x].con.id \in ContractIds
    BY <1>8, HeldFields DEF Dismissal, AdminRequests
  <2>2. adm[x].con.id = c
    BY <1>1, <1>2, <1>8, <2>1, SetStatusRows
    DEF Dismissal, MarkContractFailed, ContractStatus
  <2> QED
    BY <1>1, <2>1, <2>2 DEF HeldRowsMatch, StillNames
<1>9. ASSUME NEW f \in FileIds, Delete(f)
      PROVE  contracts[c].file \in FileIds /\ Delete(contracts[c].file)
  <2>1. DeleteFile(f)
    BY <1>9 DEF Delete
  <2>2. contracts[c].file = f
    BY <1>1, <1>2, <2>1, DeleteRows
  <2> QED
    BY <1>9, <2>2
<1> QED
  BY <1>3, <1>4, <1>5, <1>6, <1>7, <1>8, <1>9, TableStep

LEMMA PaidStep ==
  ASSUME ShortfallInv, [Next]_vars, NEW b \in Bags, NEW p \in Providers,
         PaidUnknown(b, p)', ~PaidUnknown(b, p)
  PROVE  \/ p \notin chain[b] /\ Paying(b, p)
         \/ Registering(b, p) /\ UNCHANGED dbVars
         \/ \E a \in Auditors : aud[a].pc = "fail" /\ RowOf(aud[a].con, b, p)
         \/ \E x \in WithdrawRequests : adm[x].pc = "mark" /\ RowOf(adm[x].con, b, p)
         \/ \E f \in FileIds : BagOf[f] = b /\ Delete(f)
<1>1. TypeOK /\ FreshIds /\ HeldRowsMatch /\ DBTypeOK
  BY DEF ShortfallInv, TypeOK
<1>2. /\ p \in chain'[b] /\ ~Registering(b, p)'
      /\ \A c \in ContractIds :
           contracts'[c].status \in Live /\ contracts'[c].provider = p
             => BagOf[contracts'[c].file] # b
  BY DEF PaidUnknown
<1>3. CASE p \notin chain[b]
  BY <1>1, <1>2, <1>3, PaidBySending
<1>4. CASE Registering(b, p)
  <2>1. SUFFICES ASSUME ~UNCHANGED dbVars PROVE FALSE
    BY <1>4
  <2>2. PICK f \in FileIds :
          BagOf[f] = b /\ nextContract <= MaxContracts /\ RegisterContract(f, p)
    BY <1>1, <1>2, <1>4, <2>1, RegisteringEnds
  <2>3. /\ nextContract \in ContractIds
        /\ contracts'[nextContract] = [file |-> f, provider |-> p, status |-> "pending"]
    BY <1>1, <2>2, RegisterRows
  <2> QED
    BY <1>2, <2>2, <2>3 DEF Live
<1>5. ASSUME NEW c \in ContractIds, contracts[c].status \in Live,
             contracts[c].provider = p, BagOf[contracts[c].file] = b
      PROVE  \/ \E a \in Auditors : aud[a].pc = "fail" /\ RowOf(aud[a].con, b, p)
             \/ \E x \in WithdrawRequests :
                  adm[x].pc = "mark" /\ RowOf(adm[x].con, b, p)
             \/ \E f \in FileIds : BagOf[f] = b /\ Delete(f)
  <2>1. \/ contracts'[c].status \notin Live
        \/ contracts'[c].provider # contracts[c].provider
        \/ contracts'[c].file # contracts[c].file
    BY <1>2, <1>5
  <2> QED
    BY <1>1, <1>5, <2>1, LiveRowEnds DEF RowOf
<1> QED
  BY <1>3, <1>4, <1>5 DEF PaidUnknown

\* The gateway loses sight of a provider it pays only in the ways the property
\* names, for any workers, admins and files, also files that share a bag.
THEOREM PaidUnknownOnlyByCorrect == Spec => PaidUnknownOnlyBy
<1>1. ShortfallInv /\ [Next]_vars =>
        [\A b \in Bags, p \in Providers : PaidUnknown(b, p)' /\ ~PaidUnknown(b, p) =>
           \/ p \notin chain[b] /\ Paying(b, p)
           \/ Registering(b, p) /\ UNCHANGED dbVars
           \/ \E a \in Auditors : aud[a].pc = "fail" /\ RowOf(aud[a].con, b, p)
           \/ \E x \in WithdrawRequests :
                adm[x].pc = "mark" /\ RowOf(adm[x].con, b, p)
           \/ \E f \in FileIds : BagOf[f] = b /\ Delete(f)]_vars
  BY PaidStep
<1> QED
  BY <1>1, ShortfallInvariant, PTL DEF Spec, PaidUnknownOnlyBy
=============================================================================
