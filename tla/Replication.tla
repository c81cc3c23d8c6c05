---------------------------- MODULE Replication ----------------------------
(***************************************************************************)
(* Replication of files to storage providers: the Replicator and Auditor   *)
(* pools (internal/daemons) and the two admin handlers that touch the same *)
(* contracts (manualReplicate and withdrawContract), working concurrently  *)
(* on the database and on the storage contracts.                           *)
(*                                                                         *)
(* Every worker and every admin request is a process.  A process takes one *)
(* step per SQL statement and per blockchain call; what it read in one     *)
(* step (a batch, a row, a provider list) it uses in later ones, when it   *)
(* may be stale.                                                           *)
(***************************************************************************)
EXTENDS Database, StorageContract

CONSTANTS
  NumReplicators,  \* cfg.ReplicatorWorkers
  NumAuditors,     \* cfg.AuditorWorkers
  ManualRequests,  \* manualReplicate requests that can be in progress
  WithdrawRequests \* withdrawContract requests that can be in progress

ASSUME WorkersAssumption == NumReplicators \in Nat /\ NumAuditors \in Nat

Replicators == 0 .. NumReplicators - 1
Auditors == 0 .. NumAuditors - 1
AdminRequests == ManualRequests \cup WithdrawRequests

VARIABLES
  rep,             \* [Replicators -> state of RunReplicatorWorker]
  aud,             \* [Auditors -> state of RunAuditorWorker]
  adm,             \* [AdminRequests -> state of the handler]
  manual,          \* history: contracts registered by manualReplicate
  withdrawn,       \* history: contracts failed by withdrawContract
  unrepaired       \* history: active files whose shortfall no step in
                   \* progress will look at again

procVars == <<rep, aud, adm>>
historyVars == <<manual, withdrawn, unrepaired>>
vars == <<dbVars, chainVars, procVars, historyVars>>

Idle == [pc |-> "idle"]

\* A file the replicator works on: replicas still to hire, providers excluded.
Job == [file : FileIds, left : Nat \ {0}, excludes : SUBSET Providers]

RepState ==
  {Idle}
  \cup [pc : {"batch"}, todo : SUBSET Job]
  \cup [pc : {"hire"}, todo : SUBSET Job, job : Job]
  \cup [pc : {"send"}, todo : SUBSET Job, job : Job,
        provider : Providers, list : SUBSET Providers]
  \cup [pc : {"register"}, todo : SUBSET Job, job : Job, provider : Providers]

\* A contract as an audit query or a handler read it.
Snapshot == [id : ContractIds, file : FileIds, provider : Providers,
             status : ContractStatus]

AuditSteps == {"activate", "upgrade", "upgradeWrite", "remove", "fail",
               "downgrade", "downgradeWrite"}

AudState ==
  {Idle}
  \cup [pc : {"batch"}, todo : SUBSET Snapshot]
  \cup [pc : AuditSteps, todo : SUBSET Snapshot, con : Snapshot]
  \cup [pc : {"send"}, todo : SUBSET Snapshot, con : Snapshot,
        list : SUBSET Providers]

AdmState ==
  {Idle}
  \cup [pc : {"hire", "register"}, file : FileIds, provider : Providers]
  \cup [pc : {"send"}, file : FileIds, provider : Providers,
        list : SUBSET Providers]
  \cup [pc : {"remove", "mark"}, con : Snapshot]
  \cup [pc : {"sendRemoval"}, con : Snapshot, list : SUBSET Providers]

TypeOK ==
  /\ DBTypeOK
  /\ ChainTypeOK
  /\ rep \in [Replicators -> RepState]
  /\ aud \in [Auditors -> AudState]
  /\ adm \in [AdminRequests -> AdmState]
  /\ manual \subseteq ContractIds
  /\ withdrawn \subseteq ContractIds
  /\ unrepaired \subseteq FileIds

Init ==
  /\ DBInit
  /\ ChainInit
  /\ rep = [w \in Replicators |-> Idle]
  /\ aud = [a \in Auditors |-> Idle]
  /\ adm = [x \in AdminRequests |-> Idle]
  /\ manual = {}
  /\ withdrawn = {}
  /\ unrepaired = {}

\* An active file with fewer active contracts than its target.
Short(f) == files[f] = "active" /\ ActiveCount(f) < TargetReplicas[f]

\* An auditor that has marked a contract of f failed has yet to finish
\* DowngradeFileStatusIfNeeded.
DowngradeOwed(f) ==
  \E a \in Auditors :
    aud[a].pc \in {"downgrade", "downgradeWrite"} /\ aud[a].con.file = f

\* A step that changes the tables and then forgets about the files of F: those
\* it leaves short are unrepaired from here on, until they are not short.
Forget(F) == unrepaired' = {f \in unrepaired \cup F : Short(f)'}

-----------------------------------------------------------------------------
(* RunReplicatorWorker and processFile.                                    *)

\* What a worker does next with the jobs in todo still to be taken.
Batch(todo) == IF todo = {} THEN Idle ELSE [pc |-> "batch", todo |-> todo]

Hiring(todo, job) == [pc |-> "hire", todo |-> todo, job |-> job]

\* Mutant of NextHire: a provider just hired is not excluded from the next draw.
NextHire_ForgetsHired(todo, job, excludes) ==
  IF job.left > 1
    THEN Hiring(todo, [job EXCEPT !.left = @ - 1])
    ELSE Batch(todo)

\* End of one iteration of the hiring loop, successful or not.
NextHire(todo, job, excludes) ==
  IF job.left > 1
    THEN Hiring(todo, [job EXCEPT !.left = @ - 1, !.excludes = excludes])
    ELSE Batch(todo)

\* What the query returns of a file, and processFile makes of it.
JobFor(f) == [file |-> f,
              left |-> TargetReplicas[f] - ReplicaCount(f),
              excludes |-> ProvidersOf(ContractsOf(f, Live))]

ReplicatorQuery(w) ==
  /\ rep[w].pc = "idle"
  /\ \E F \in GetFilesNeedingReplication(NumReplicators, w) :
       /\ F # {}
       /\ rep' = [rep EXCEPT ![w] = Batch({JobFor(f) : f \in F})]
  /\ UNCHANGED <<dbVars, chainVars, aud, adm, historyVars>>

ReplicatorTake(w) ==
  /\ rep[w].pc = "batch"
  /\ \E job \in rep[w].todo :
       rep' = [rep EXCEPT ![w] = Hiring(rep[w].todo \ {job}, job)]
  /\ UNCHANGED <<dbVars, chainVars, aud, adm, historyVars>>

\* FindRandomProvider, then HireProvider up to FetchProviderContract.
ReplicatorFetch(w) ==
  /\ rep[w].pc = "hire"
  /\ LET r == rep[w] IN
       \/ \E p \in FindRandomProvider(r.job.excludes) :
            rep' = [rep EXCEPT ![w] =
                      [pc |-> "send", todo |-> r.todo, job |-> r.job,
                       provider |-> p, list |-> HireList(BagOf[r.job.file], p)]]
       \* The rates or the contract cannot be fetched, or the provider
       \* declines: "Hire failed", continue.
       \/ rep' = [rep EXCEPT ![w] = NextHire(r.todo, r.job, r.job.excludes)]
  /\ UNCHANGED <<dbVars, chainVars, aud, adm, historyVars>>

\* The rest of HireProvider: the transaction.
ReplicatorSend(w) ==
  /\ rep[w].pc = "send"
  /\ LET r == rep[w] IN
       /\ SendTransaction(BagOf[r.job.file], r.list)
       /\ \/ rep' = [rep EXCEPT ![w] =
                       [pc |-> "register", todo |-> r.todo, job |-> r.job,
                        provider |-> r.provider]]
          \* "Hire failed": the transaction may land all the same.
          \/ rep' = [rep EXCEPT ![w] = NextHire(r.todo, r.job, r.job.excludes)]
  /\ UNCHANGED <<dbVars, aud, adm, historyVars>>

ReplicatorRegister(w) ==
  /\ rep[w].pc = "register"
  /\ nextContract <= MaxContracts
  /\ LET r == rep[w] IN
       \/ /\ RegisterContract(r.job.file, r.provider)
          /\ rep' = [rep EXCEPT ![w] =
                       NextHire(r.todo, r.job, r.job.excludes \cup {r.provider})]
       \* "Failed to save contract to DB", also when the file is gone.
       \/ /\ rep' = [rep EXCEPT ![w] = NextHire(r.todo, r.job, r.job.excludes)]
          /\ UNCHANGED dbVars
  /\ Forget({})
  /\ UNCHANGED <<chainVars, aud, adm, manual, withdrawn>>

Replicator(w) ==
  \/ ReplicatorQuery(w)
  \/ ReplicatorTake(w)
  \/ ReplicatorFetch(w)
  \/ ReplicatorSend(w)
  \/ ReplicatorRegister(w)

-----------------------------------------------------------------------------
(* RunAuditorWorker and processContract.                                   *)

SnapshotOf(c) == [id |-> c, file |-> contracts[c].file,
                  provider |-> contracts[c].provider,
                  status |-> contracts[c].status]

Audit(step, todo, con) == [pc |-> step, todo |-> todo, con |-> con]

AuditorQuery(a) ==
  /\ aud[a].pc = "idle"
  /\ \E due \in SUBSET ContractsForAudit(NumAuditors, a) :
       /\ due # {}
       /\ aud' = [aud EXCEPT ![a] = Batch({SnapshotOf(c) : c \in due})]
  /\ UNCHANGED <<dbVars, chainVars, rep, adm, historyVars>>

\* AuditProvider reports a healthy provider.  An already active contract only
\* gets a new last_check (UpdateContractCheck), which is not modelled.
AuditorHealthy(a, con) ==
  LET rest == aud[a].todo \ {con} IN
    aud' = [aud EXCEPT ![a] =
              IF con.status = "pending" THEN Audit("activate", rest, con)
                                        ELSE Batch(rest)]

\* AuditProvider reports an unhealthy provider.
AuditorDead(a, con) ==
  aud' = [aud EXCEPT ![a] = Audit("remove", aud[a].todo \ {con}, con)]

AuditorProbe(a) ==
  /\ aud[a].pc = "batch"
  /\ \E con \in aud[a].todo : AuditorHealthy(a, con) \/ AuditorDead(a, con)
  /\ UNCHANGED <<dbVars, chainVars, rep, adm, historyVars>>

\* Mutant of AuditorActivate: the file is not promoted.
AuditorActivate_NoPromotion(a) ==
  /\ aud[a].pc = "activate"
  /\ MarkContractActive(aud[a].con.id)
  /\ aud' = [aud EXCEPT ![a] = Batch(aud[a].todo)]
  /\ Forget({})
  /\ UNCHANGED <<chainVars, rep, adm, manual, withdrawn>>

AuditorActivate(a) ==
  /\ aud[a].pc = "activate"
  /\ LET s == aud[a] IN
       \/ /\ MarkContractActive(s.con.id)
          /\ aud' = [aud EXCEPT ![a] = Audit("upgrade", s.todo, s.con)]
       \* "Failed to activate contract"
       \/ /\ aud' = [aud EXCEPT ![a] = Batch(s.todo)]
          /\ UNCHANGED dbVars
  /\ Forget({})
  /\ UNCHANGED <<chainVars, rep, adm, manual, withdrawn>>

AuditorUpgrade(a) ==
  /\ aud[a].pc = "upgrade"
  /\ LET s == aud[a] IN
       \/ /\ UpgradeNeeded(s.con.file)
          /\ aud' = [aud EXCEPT ![a] = Audit("upgradeWrite", s.todo, s.con)]
       \* Not needed, or "Failed to update file status".
       \/ aud' = [aud EXCEPT ![a] = Batch(s.todo)]
  /\ UNCHANGED <<dbVars, chainVars, rep, adm, historyVars>>

AuditorUpgradeWrite(a) ==
  /\ aud[a].pc = "upgradeWrite"
  /\ LET s == aud[a] IN
       /\ UpgradeFileStatusIfNeeded(s.con.file)
       /\ Forget({s.con.file})
       /\ aud' = [aud EXCEPT ![a] = Batch(s.todo)]
  /\ UNCHANGED <<chainVars, rep, adm, manual, withdrawn>>

\* RemoveProvider up to the transaction.  Both of its ways to give up (the
\* contract cannot be fetched, the provider is not in its list) are only
\* logged: the contract is marked failed all the same.
AuditorRemove(a) ==
  /\ aud[a].pc = "remove"
  /\ LET s == aud[a]
         bag == BagOf[s.con.file]
     IN  \/ /\ s.con.provider \in chain[bag]
            /\ aud' = [aud EXCEPT ![a] =
                         [pc |-> "send", todo |-> s.todo, con |-> s.con,
                          list |-> RemovalList(bag, s.con.provider)]]
         \/ aud' = [aud EXCEPT ![a] = Audit("fail", s.todo, s.con)]
  /\ UNCHANGED <<dbVars, chainVars, rep, adm, historyVars>>

AuditorSend(a) ==
  /\ aud[a].pc = "send"
  /\ LET s == aud[a] IN
       /\ SendTransaction(BagOf[s.con.file], s.list)
       /\ aud' = [aud EXCEPT ![a] = Audit("fail", s.todo, s.con)]
  /\ UNCHANGED <<dbVars, rep, adm, historyVars>>

AuditorFail(a) ==
  /\ aud[a].pc = "fail"
  /\ LET s == aud[a] IN
       \/ /\ MarkContractFailed(s.con.id)
          /\ aud' = [aud EXCEPT ![a] = Audit("downgrade", s.todo, s.con)]
       \* "Critical DB Error marking failed"
       \/ /\ aud' = [aud EXCEPT ![a] = Batch(s.todo)]
          /\ UNCHANGED dbVars
  /\ Forget({})
  /\ UNCHANGED <<chainVars, rep, adm, manual, withdrawn>>

AuditorDowngrade(a) ==
  /\ aud[a].pc = "downgrade"
  /\ UNCHANGED <<dbVars, chainVars, rep, adm>>
  /\ LET s == aud[a] IN
       \/ /\ DowngradeNeeded(s.con.file)
          /\ aud' = [aud EXCEPT ![a] = Audit("downgradeWrite", s.todo, s.con)]
          /\ UNCHANGED historyVars
       \/ /\ ~DowngradeNeeded(s.con.file)
          /\ aud' = [aud EXCEPT ![a] = Batch(s.todo)]
          /\ UNCHANGED historyVars
       \* "Failed to downgrade file status"
       \/ /\ aud' = [aud EXCEPT ![a] = Batch(s.todo)]
          /\ Forget({s.con.file})
          /\ UNCHANGED <<manual, withdrawn>>

AuditorDowngradeWrite(a) ==
  /\ aud[a].pc = "downgradeWrite"
  /\ LET s == aud[a] IN
       /\ DowngradeFileStatusIfNeeded(s.con.file)
       /\ Forget({})
       /\ aud' = [aud EXCEPT ![a] = Batch(s.todo)]
  /\ UNCHANGED <<chainVars, rep, adm, manual, withdrawn>>

Auditor(a) ==
  \/ AuditorQuery(a)
  \/ AuditorProbe(a)
  \/ AuditorActivate(a)
  \/ AuditorUpgrade(a)
  \/ AuditorUpgradeWrite(a)
  \/ AuditorRemove(a)
  \/ AuditorSend(a)
  \/ AuditorFail(a)
  \/ AuditorDowngrade(a)
  \/ AuditorDowngradeWrite(a)

-----------------------------------------------------------------------------
(* AdminServer.manualReplicate: hires one more provider, whatever the       *)
(* target.                                                                  *)

ManualReplicate(x) ==
  /\ adm[x].pc = "idle"
  /\ \E f \in FileIds :
       /\ FileExists(f)
       \* The error of GetFileContracts is ignored: nothing is excluded then.
       /\ \E excludes \in {ProvidersOf(ContractsOf(f, ContractStatus)), {}} :
            \E p \in FindRandomProvider(excludes) :
              adm' = [adm EXCEPT ![x] =
                        [pc |-> "hire", file |-> f, provider |-> p]]
  /\ UNCHANGED <<dbVars, chainVars, rep, aud, historyVars>>

ManualFetch(x) ==
  /\ adm[x].pc = "hire"
  /\ LET s == adm[x] IN
       \/ adm' = [adm EXCEPT ![x] =
                    [pc |-> "send", file |-> s.file, provider |-> s.provider,
                     list |-> HireList(BagOf[s.file], s.provider)]]
       \/ adm' = [adm EXCEPT ![x] = Idle]                 \* "Hire failed"
  /\ UNCHANGED <<dbVars, chainVars, rep, aud, historyVars>>

ManualSend(x) ==
  /\ adm[x].pc = "send"
  /\ LET s == adm[x] IN
       /\ SendTransaction(BagOf[s.file], s.list)
       /\ \/ adm' = [adm EXCEPT ![x] = [pc |-> "register", file |-> s.file,
                                        provider |-> s.provider]]
          \/ adm' = [adm EXCEPT ![x] = Idle]
  /\ UNCHANGED <<dbVars, rep, aud, historyVars>>

\* The handler ignores the error of RegisterContract.
ManualRegister(x) ==
  /\ adm[x].pc = "register"
  /\ nextContract <= MaxContracts
  /\ \/ /\ RegisterContract(adm[x].file, adm[x].provider)
        /\ manual' = manual \cup {nextContract}
     \/ UNCHANGED <<dbVars, manual>>
  /\ adm' = [adm EXCEPT ![x] = Idle]
  /\ Forget({})
  /\ UNCHANGED <<chainVars, rep, aud, withdrawn>>

(* AdminServer.withdrawContract: RemoveProvider, then MarkContractFailed.   *)
(* Unlike the auditor it gives up when RemoveProvider fails, and it does    *)
(* not downgrade the file.                                                  *)

Withdraw(x) ==
  /\ adm[x].pc = "idle"
  /\ \E c \in ContractIds :
       /\ ContractExists(c)
       /\ adm' = [adm EXCEPT ![x] = [pc |-> "remove", con |-> SnapshotOf(c)]]
  /\ UNCHANGED <<dbVars, chainVars, rep, aud, historyVars>>

WithdrawRemove(x) ==
  /\ adm[x].pc = "remove"
  /\ LET con == adm[x].con
         bag == BagOf[con.file]
     IN  \/ /\ con.provider \in chain[bag]
            /\ adm' = [adm EXCEPT ![x] =
                         [pc |-> "sendRemoval", con |-> con,
                          list |-> RemovalList(bag, con.provider)]]
         \/ adm' = [adm EXCEPT ![x] = Idle]
  /\ UNCHANGED <<dbVars, chainVars, rep, aud, historyVars>>

WithdrawSend(x) ==
  /\ adm[x].pc = "sendRemoval"
  /\ LET s == adm[x] IN
       /\ SendTransaction(BagOf[s.con.file], s.list)
       /\ \/ adm' = [adm EXCEPT ![x] = [pc |-> "mark", con |-> s.con]]
          \/ adm' = [adm EXCEPT ![x] = Idle]
  /\ UNCHANGED <<dbVars, rep, aud, historyVars>>

\* The handler ignores the error of MarkContractFailed.
WithdrawMark(x) ==
  /\ adm[x].pc = "mark"
  /\ LET con == adm[x].con IN
       /\ \/ /\ MarkContractFailed(con.id)
             /\ withdrawn' = {c \in withdrawn \cup {con.id} : ContractExists(c)'}
          \/ UNCHANGED <<dbVars, withdrawn>>
       /\ Forget({con.file})
  /\ adm' = [adm EXCEPT ![x] = Idle]
  /\ UNCHANGED <<chainVars, rep, aud, manual>>

Manual(x) ==
  \/ ManualReplicate(x)
  \/ ManualFetch(x)
  \/ ManualSend(x)
  \/ ManualRegister(x)

Withdrawal(x) ==
  \/ Withdraw(x)
  \/ WithdrawRemove(x)
  \/ WithdrawSend(x)
  \/ WithdrawMark(x)

-----------------------------------------------------------------------------
(* The rest of the gateway, as far as it writes the files table, and the    *)
(* end of the process.                                                      *)

\* PutObject and uploadFile: the INSERT that ends an upload.
Upload(f) ==
  /\ CreateFile(f)
  /\ UNCHANGED <<chainVars, procVars, historyVars>>

\* DeleteObject, DeleteMulti and the cascade of DeleteBucket.  The storage
\* contract of the bag is left as it is.
Delete(f) ==
  /\ DeleteFile(f)
  /\ Forget({})
  /\ manual' = {c \in manual : ContractExists(c)'}
  /\ withdrawn' = {c \in withdrawn : ContractExists(c)'}
  /\ UNCHANGED <<chainVars, procVars>>

\* A download of the file ends well (GetObject's reader is closed, or a restore
\* finds the file).
DownloadDone(f) ==
  /\ FinishDownloadJob(f)
  /\ Forget({f})
  /\ UNCHANGED <<chainVars, procVars, manual, withdrawn>>

\* A transaction whose sender has gone on takes effect, or is dropped.
LateTransaction(t) ==
  /\ Lands(t) \/ Expires(t)
  /\ UNCHANGED <<dbVars, procVars, historyVars>>

\* The process dies at any point and starts again: what the workers and the
\* handlers held in memory is lost; the tables, the chain and the transactions
\* that are under way stay.
Restart ==
  /\ rep' = [w \in Replicators |-> Idle]
  /\ aud' = [a \in Auditors |-> Idle]
  /\ adm' = [x \in AdminRequests |-> Idle]
  /\ UNCHANGED <<dbVars, chainVars, manual, withdrawn>>
  /\ Forget({f \in FileIds : DowngradeOwed(f)})

Next ==
  \/ \E w \in Replicators : Replicator(w)
  \/ \E a \in Auditors : Auditor(a)
  \/ \E x \in ManualRequests : Manual(x)
  \/ \E x \in WithdrawRequests : Withdrawal(x)
  \/ \E f \in FileIds : Upload(f) \/ Delete(f) \/ DownloadDone(f)
  \/ \E t \in LateSlots : LateTransaction(t)
  \/ Restart

Spec == Init /\ [][Next]_vars

\* A replicator's loop runs for ever and takes every file of a batch.  A restart
\* may cut off any iteration of it, but not every one; and a hire or a statement
\* that is tried again and again succeeds.
ReplicatorFairness(w) ==
  /\ WF_vars(ReplicatorQuery(w))
  /\ \A f \in FileIds : SF_vars(ReplicatorTake(w) /\ rep'[w].job.file = f)
  /\ SF_vars(ReplicatorFetch(w) /\ rep'[w].pc = "send")
  /\ SF_vars(ReplicatorSend(w) /\ rep'[w].pc = "register")
  /\ SF_vars(ReplicatorRegister(w) /\ nextContract' > nextContract)

FairSpec == Spec /\ \A w \in Replicators : ReplicatorFairness(w)

-----------------------------------------------------------------------------
(* Properties.                                                              *)

\* An active file that has fewer active contracts than its target is either
\* about to be downgraded by an auditor that is at work on it, or one of five
\* things happened to it: a finished download promoted it, an admin withdrew
\* one of its contracts, an auditor promoted it on a count that was no longer
\* true, or the auditor's downgrade failed or was cut off by a restart.  No
\* other interleaving of the auditors leaves an active file short.
ShortfallIsOwed ==
  \A f \in FileIds : Short(f) => DowngradeOwed(f) \/ f \in unrepaired

\* Ids that the contracts sequence has not handed out have no row.
FreshIds == \A c \in ContractIds : c >= nextContract => ~ContractExists(c)

\* The contract rows a process has read and will still use.
HeldByAuditor(a) ==
  (IF aud[a].pc = "idle" THEN {} ELSE aud[a].todo)
  \cup (IF aud[a].pc \in AuditSteps \cup {"send"} THEN {aud[a].con} ELSE {})

HeldByAdmin(x) ==
  IF adm[x].pc \in {"remove", "sendRemoval", "mark"} THEN {adm[x].con} ELSE {}

\* A row that was read may be gone by now, but its id still means the same
\* contract: the same provider of the same file.
StillNames(con) ==
  /\ con.id < nextContract
  /\ ContractExists(con.id) =>
       /\ contracts[con.id].file = con.file
       /\ contracts[con.id].provider = con.provider

HeldRowsMatch ==
  /\ \A a \in Auditors : \A con \in HeldByAuditor(a) : StillNames(con)
  /\ \A x \in AdminRequests : \A con \in HeldByAdmin(x) : StillNames(con)

\* The inductive invariant behind ShortfallIsOwed.
ShortfallInv == TypeOK /\ FreshIds /\ HeldRowsMatch /\ ShortfallIsOwed

\* The contracts of f the replicator pool answers for: those that count as
\* replicas, less the ones an admin hired and the ones an admin withdrew (which
\* an auditor holding a stale snapshot may have made active again).
OwnReplicas(f) == ContractsOf(f, Live) \ (manual \cup withdrawn)

\* The replicator pool never hires more providers for a file than its target,
\* although every worker counts the contracts once per batch and hires from
\* that count while auditors, admins and restarts change the table.
NoOverHire ==
  \A f \in FileIds :
    LET n == Cardinality(OwnReplicas(f)) IN n > 0 => n <= TargetReplicas[f]

\* As long as the target does not exceed the number of known providers, the
\* contracts the replicator pool answers for are with different providers.
DistinctProviders ==
  \A f \in FileIds :
    TargetReplicas[f] <= Cardinality(Providers) =>
      \A c, d \in OwnReplicas(f) :
        contracts[c].provider = contracts[d].provider => c = d

\* The histories speak of rows that exist, and a row of a file that exists.
RowsHaveFiles ==
  /\ \A c \in manual \cup withdrawn : ContractExists(c)
  /\ \A c \in ContractIds : ContractExists(c) => FileExists(contracts[c].file)

\* The rows auditor a may still mark active.
MayActivate(a) ==
  (IF aud[a].pc = "idle" THEN {} ELSE aud[a].todo)
  \cup (IF aud[a].pc = "activate" THEN {aud[a].con} ELSE {})

\* An auditor holds rows of its own share only, each of them once, and none that
\* it has failed already: what it may still activate is failed only if an admin
\* withdrew it.
AuditsApart ==
  \A a \in Auditors :
    /\ \A con \in HeldByAuditor(a) :
         /\ InShare(con.id, NumAuditors, a)
         /\ \A d \in HeldByAuditor(a) : con.id = d.id => con = d
    /\ aud[a].pc \in AuditSteps \cup {"send"} => aud[a].con \notin aud[a].todo
    /\ \A con \in MayActivate(a) :
         contracts[con.id].status = "failed" => con.id \in withdrawn

\* The jobs worker w has taken or will take.
JobsOf(w) ==
  (IF rep[w].pc = "idle" THEN {} ELSE rep[w].todo)
  \cup (IF rep[w].pc \in {"hire", "send", "register"} THEN {rep[w].job} ELSE {})

\* There is room for what the job may still hire, and the job excludes every
\* provider the file has.
JobFits(job) ==
  /\ Cardinality(OwnReplicas(job.file)) + job.left <= TargetReplicas[job.file]
  /\ ProvidersOf(OwnReplicas(job.file)) \subseteq job.excludes
  /\ IsFiniteSet(job.excludes)
  /\ Cardinality(job.excludes) + job.left <= TargetReplicas[job.file]

\* A replicator has at most one job for a file, a file of its own share, and the
\* job still fits although the table has changed since it was made.
JobsApartFor(w) ==
  /\ \A job \in JobsOf(w) :
       /\ InShare(job.file, NumReplicators, w)
       /\ JobFits(job)
       /\ \A other \in JobsOf(w) : job.file = other.file => job = other
  /\ rep[w].pc \in {"hire", "send", "register"} => rep[w].job \notin rep[w].todo
  /\ /\ rep[w].pc \in {"send", "register"}
     /\ TargetReplicas[rep[w].job.file] <= Cardinality(Providers)
     => rep[w].provider \notin rep[w].job.excludes

JobsApart == \A w \in Replicators : JobsApartFor(w)

\* The inductive invariant behind NoOverHire and DistinctProviders: a batch and a
\* count that were read long ago are still good enough to hire from.
HiringInv ==
  /\ TypeOK /\ FreshIds /\ HeldRowsMatch
  /\ RowsHaveFiles /\ AuditsApart /\ JobsApart
  /\ NoOverHire /\ DistinctProviders

\* A failed contract stays failed, unless an admin withdrew it while an auditor
\* held it as pending; and an active one never becomes pending.
StatusNeverGoesBack ==
  [][\A c \in ContractIds :
       /\ contracts[c].status = "failed" /\ contracts'[c].status \in Live
            => c \in withdrawn
       /\ contracts[c].status = "active" => contracts'[c].status # "pending"]_vars

\* A pending file with as many active contracts as its target, and no auditor at
\* work to promote it.  Nothing looks at its status again until another of its
\* contracts becomes active.
Overlooked(f) ==
  /\ files[f] = "pending" /\ ActiveCount(f) >= TargetReplicas[f]
  /\ ~\E a \in Auditors :
        aud[a].pc \in {"upgrade", "upgradeWrite"} /\ aud[a].con.file = f

\* A file is overlooked only when an auditor was about to promote it and was cut
\* off or refused by the database, when a downgrade used a count that was no
\* longer true, or when it is uploaded with a target of zero.
PromotionOwed ==
  [][\A f \in FileIds : Overlooked(f)' /\ ~Overlooked(f) =>
       \/ TargetReplicas[f] <= 0
       \/ \E a \in Auditors :
            /\ aud[a].pc \in {"upgrade", "upgradeWrite", "downgradeWrite"}
            /\ aud[a].con.file = f]_vars

\* Provider p has been hired for bag b, and its row is about to be inserted.
Registering(b, p) ==
  \/ \E w \in Replicators :
       /\ rep[w].pc = "register" /\ rep[w].provider = p
       /\ BagOf[rep[w].job.file] = b
  \/ \E x \in AdminRequests :
       /\ adm[x].pc = "register" /\ adm[x].provider = p
       /\ BagOf[adm[x].file] = b

\* The storage contract of bag b pays provider p, and the gateway does not know.
PaidUnknown(b, p) ==
  /\ p \in chain[b]
  /\ ~Registering(b, p)
  /\ \A c \in ContractIds :
       contracts[c].status \in Live /\ contracts[c].provider = p
         => BagOf[contracts[c].file] # b

\* A transaction whose list pays p for bag b is about to be sent, or is late.
Paying(b, p) ==
  \/ \E w \in Replicators :
       rep[w].pc = "send" /\ BagOf[rep[w].job.file] = b /\ p \in rep[w].list
  \/ \E a \in Auditors :
       aud[a].pc = "send" /\ BagOf[aud[a].con.file] = b /\ p \in aud[a].list
  \/ \E x \in AdminRequests :
       \/ adm[x].pc = "send" /\ BagOf[adm[x].file] = b /\ p \in adm[x].list
       \/ /\ adm[x].pc = "sendRemoval" /\ BagOf[adm[x].con.file] = b
          /\ p \in adm[x].list
  \/ \E t \in LateSlots :
       /\ late[t] \in Transaction /\ late[t].bag = b /\ p \in late[t].list

RowOf(con, b, p) == con.provider = p /\ BagOf[con.file] = b

\* A provider comes to be paid without a row only when a list that pays it takes
\* effect: that of a hire which was reported as failed, or of anyone who fetched it
\* before the provider was removed, perhaps long after its sender went on or died;
\* when the row of its hire was refused, or a restart came before it; when its row
\* was failed and the removal had no effect; or when its file was deleted.
PaidUnknownOnlyBy ==
  [][\A b \in Bags, p \in Providers : PaidUnknown(b, p)' /\ ~PaidUnknown(b, p) =>
       \/ p \notin chain[b] /\ Paying(b, p)
       \/ Registering(b, p) /\ UNCHANGED dbVars
       \/ \E a \in Auditors : aud[a].pc = "fail" /\ RowOf(aud[a].con, b, p)
       \/ \E x \in WithdrawRequests : adm[x].pc = "mark" /\ RowOf(adm[x].con, b, p)
       \/ \E f \in FileIds : BagOf[f] = b /\ Delete(f)]_vars

\* A file comes with its upload and goes with its deletion: no daemon or download
\* brings back the row of a file that was deleted while it was at work on it.
FilesComeAndGo ==
  [][OnlyStatus \/ \E f \in FileIds : Upload(f) \/ Delete(f)]_vars

\* More files of a worker's share are short than its query returns.  Which ones it
\* returns is up to the database: a file may be left out for ever.
Crowded(w) ==
  Cardinality(FilesNeedingReplication(NumReplicators, w)) > ReplicationLimit

\* Replicator "Нанимает новых провайдеров, если надежность падает" (README.md:18):
\* a file with too few providers gets enough of them, however often auditors fire
\* them and the process is restarted, unless it is deleted, or more files are short
\* than a query returns (or the bound of the model is reached).
Heals ==
  \A f \in FileIds :
    (FileExists(f) /\ Cardinality(ContractsOf(f, Live)) < TargetReplicas[f])
      ~> \/ ~FileExists(f)
         \/ Cardinality(ContractsOf(f, Live)) >= TargetReplicas[f]
         \/ \E w \in Replicators : Crowded(w)
         \/ nextContract > MaxContracts

\* The replicas of the abstract ledger are the pool's own contracts.
Ledger == INSTANCE ReplicaLedger WITH
  Files <- FileIds,
  replicas <- [f \in FileIds |->
                 {[id |-> c, provider |-> contracts[c].provider] :
                    c \in OwnReplicas(f)}],
  next <- nextContract

\* Replication implements the ledger: whatever the workers do with rows, batches
\* and counts they read earlier, a replica is added only below the target, with a
\* new id and a new provider, and a lost one never comes back.
ImplementsLedger == Ledger!Spec

-----------------------------------------------------------------------------
(* What the documentation says and the code does not do.                    *)

\* "Увольняет" мертвых (README.md:17): a provider the auditor fired is paid
\* again only when it is hired again.  HireProvider and RemoveProvider send the
\* whole list they fetched some time before, so a hire that overlaps a removal
\* puts the removed provider back on the contract.
OnlyHiresAdd ==
  [][\A b \in Bags : \A p \in chain'[b] \ chain[b] :
       \/ \E w \in Replicators :
            /\ rep[w].pc = "send"
            /\ BagOf[rep[w].job.file] = b /\ rep[w].provider = p
       \/ \E x \in ManualRequests :
            /\ adm[x].pc = "send"
            /\ BagOf[adm[x].file] = b /\ adm[x].provider = p]_vars
=============================================================================
