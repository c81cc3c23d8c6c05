------------------------------ MODULE Daemons ------------------------------
(***************************************************************************)
(* The daemons as a process (internal/daemons, cmd/adapter/main.go): pools *)
(* of workers that loop over batches of rows until their context is done,  *)
(* and main, which starts the pools and stops two of them.                 *)
(*                                                                         *)
(* The rows of table contracts are kept in the order of last_check, which  *)
(* decides whose turn it is when a query has a LIMIT.  What the daemons do *)
(* to files, bags and the chain is the subject of Replication and Gateway: *)
(* here a replicator is busy for a while and may register a contract.      *)
(***************************************************************************)
EXTENDS Integers, SequencesExt

CONSTANTS
  MaxContracts,                                \* bound: ids 1..MaxContracts
  NumReplicators, NumAuditors, NumPingers,
  AuditLimit, PingLimit                        \* LIMIT of the two queries

ASSUME DaemonsAssumption ==
  /\ {MaxContracts, NumReplicators, NumAuditors, NumPingers} \subseteq Nat
  /\ {AuditLimit, PingLimit} \subseteq Nat \ {0}

ContractIds == 1..MaxContracts
Replicators == 0..(NumReplicators - 1)
Auditors == 0..(NumAuditors - 1)
Pingers == 0..(NumPingers - 1)

VARIABLES
  status,          \* [ContractIds -> status of the row, or "none"]
  byCheck,         \* the rows, least recently checked first
  due,             \* rows whose last_check is more than two minutes ago
  rep, aud, ping,  \* the workers of the three pools
  main,            \* where main is
  cancelled        \* the contexts that were cancelled

tableVars == <<status, byCheck, due>>
workerVars == <<rep, aud, ping>>
mainVars == <<main, cancelled>>
vars == <<tableVars, workerVars, mainVars>>

Live == {"active", "pending"}
RowStatus == Live \cup {"failed"}

\* What GetContractsForAudit returned of a row.
Snapshot == [id : ContractIds, status : Live]

\* AuditProvider: "cut" is a provider reported unreachable because the context
\* of the request was done.
Outcome == {"healthy", "dead", "cut"}

AuditorState ==
  [pc : {"loop", "stopped"}]
  \cup [pc : {"batch", "probe"}, batch : Seq(Snapshot) \ {<<>>}]
  \cup [pc : {"write"}, batch : Seq(Snapshot) \ {<<>>}, outcome : Outcome]

PingerState ==
  [pc : {"loop", "stopped"}]
  \cup [pc : {"ping"}, batch : Seq(ContractIds) \ {<<>>}]

Rows == {c \in ContractIds : status[c] # "none"}

TypeOK ==
  /\ status \in [ContractIds -> RowStatus \cup {"none"}]
  /\ byCheck \in Seq(ContractIds)
  /\ {byCheck[i] : i \in DOMAIN byCheck} = Rows
  /\ Len(byCheck) = Cardinality(Rows)
  \* The rows that are due are those checked longest ago.
  /\ due \subseteq Rows
  /\ due = {byCheck[i] : i \in 1..Cardinality(due)}
  /\ rep \in [Replicators -> {"loop", "busy", "stopped"}]
  /\ aud \in [Auditors -> AuditorState]
  /\ ping \in [Pingers -> PingerState]
  /\ main \in {"running", "replicators", "auditors", "done"}
  /\ cancelled \subseteq {"main", "replicators", "auditors"}

Loop == [pc |-> "loop"]
Stopped == [pc |-> "stopped"]

Start ==
  /\ rep' = [r \in Replicators |-> "loop"]
  /\ aud' = [a \in Auditors |-> Loop]
  /\ ping' = [p \in Pingers |-> Loop]
  /\ main' = "running"
  /\ cancelled' = {}

Init ==
  /\ status = [c \in ContractIds |-> "none"]
  /\ byCheck = <<>>
  /\ due = {}
  /\ rep = [r \in Replicators |-> "loop"]
  /\ aud = [a \in Auditors |-> Loop]
  /\ ping = [p \in Pingers |-> Loop]
  /\ main = "running"
  /\ cancelled = {}

Up == main # "done"

\* A pool's context is a child of main's: it is done when either is cancelled.
Done(pool) == {pool, "main"} \cap cancelled # {}

-----------------------------------------------------------------------------
(* Table contracts.                                                         *)

\* Where row c is in the order.
Place(c) == CHOOSE i \in DOMAIN byCheck : byCheck[i] = c

\* The n-th smallest number of P.
Nth(P, n) == CHOOSE i \in P : Cardinality({j \in P : j <= i}) = n

\* ORDER BY last_check LIMIT n, of the rows at the places P.
Oldest(P, n) ==
  [k \in 1..(IF Cardinality(P) < n THEN Cardinality(P) ELSE n) |->
     byCheck[Nth(P, k)]]

\* The row gets a status, and last_check = NOW(): it goes behind all others.
Check(c, s) ==
  /\ status' = [status EXCEPT ![c] = s]
  /\ byCheck' = Append(RemoveAt(byCheck, Place(c)), c)
  /\ due' = due \ {c}

\* Mutant of RegisterContract: the default of last_check is not NOW() but long ago.
RegisterContract_First(c) ==
  /\ c = Cardinality(Rows) + 1
  /\ status' = [status EXCEPT ![c] = "pending"]
  /\ byCheck' = <<c>> \o byCheck
  /\ due' = due \cup {c}

\* The sequence hands out the next id.
RegisterContract(c) ==
  /\ c = Cardinality(Rows) + 1
  /\ status' = [status EXCEPT ![c] = "pending"]
  /\ byCheck' = Append(byCheck, c)
  /\ UNCHANGED due

MarkContractFailed(c) == Check(c, "failed")
MarkContractActive(c) == Check(c, "active")

\* Mutant of UpdateContractCheck: last_check stays.
UpdateContractCheck_Not(c) == UNCHANGED tableVars

UpdateContractCheck(c) == Check(c, status[c])

\* The ids a worker is responsible for.
Share(worker, workers) == {c \in ContractIds : c % workers = worker}

AuditRows(a) ==
  {i \in DOMAIN byCheck : /\ status[byCheck[i]] \in Live
                          /\ byCheck[i] \in Share(a, NumAuditors) \cap due}

\* Mutant of GetContractsForAudit: the files are joined by their bag, which two
\* of them share, so a contract is returned twice.
GetContractsForAudit_Joined(a) ==
  LET rows == Oldest(AuditRows(a), AuditLimit - 1) IN
    [k \in 1..(2 * Len(rows)) |->
       LET c == rows[(k + 1) \div 2] IN [id |-> c, status |-> status[c]]]

GetContractsForAudit(a) ==
  LET rows == Oldest(AuditRows(a), AuditLimit) IN
    [k \in DOMAIN rows |-> [id |-> rows[k], status |-> status[rows[k]]]]

PingRows(p) == {i \in DOMAIN byCheck : byCheck[i] \in Share(p, NumPingers)}

\* Whatever the status of the contract, and however recently it was pinged.
GetAllContracts(p) == Oldest(PingRows(p), PingLimit)

\* Two minutes have passed since the oldest of the rows not due was checked.
Age ==
  /\ Up
  /\ due # Rows
  /\ due' = due \cup {byCheck[Cardinality(due) + 1]}
  /\ UNCHANGED <<status, byCheck, workerVars, mainVars>>

-----------------------------------------------------------------------------
(* Replicators.                                                             *)

\* Mutant of ReplicatorStops: the loop does not look at its context.
ReplicatorStops_Never(r) == FALSE /\ UNCHANGED <<rep, tableVars>>

ReplicatorStops(r) ==
  /\ rep[r] = "loop" /\ Done("replicators")
  /\ rep' = [rep EXCEPT ![r] = "stopped"]
  /\ UNCHANGED tableVars

ReplicatorTakes(r) ==
  /\ rep[r] = "loop" /\ ~Done("replicators")
  /\ rep' = [rep EXCEPT ![r] = "busy"]
  /\ UNCHANGED tableVars

\* The end of processFile: with a cancelled context nothing is registered.
ReplicatorEnds(r) ==
  /\ rep[r] = "busy"
  /\ rep' = [rep EXCEPT ![r] = "loop"]
  /\ \/ ~Done("replicators") /\ \E c \in ContractIds : RegisterContract(c)
     \/ UNCHANGED tableVars

Replicator(r) ==
  /\ Up
  /\ ReplicatorStops(r) \/ ReplicatorTakes(r) \/ ReplicatorEnds(r)
  /\ UNCHANGED <<aud, ping, mainVars>>

-----------------------------------------------------------------------------
(* Auditors: RunAuditorWorker and processContract.                          *)

At(a, pcs) == Up /\ aud[a].pc \in pcs

\* The context is looked at before every query and before every contract.
AuditorStops(a) ==
  /\ At(a, {"loop", "batch"})
  /\ Done("auditors")
  /\ aud' = [aud EXCEPT ![a] = Stopped]
  /\ UNCHANGED <<tableVars, rep, ping, mainVars>>

\* A query that fails or finds nothing is tried again later.
AuditorQuery(a) ==
  /\ At(a, {"loop"})
  /\ ~Done("auditors")
  /\ GetContractsForAudit(a) # <<>>
  /\ aud' = [aud EXCEPT ![a] =
               [pc |-> "batch", batch |-> GetContractsForAudit(a)]]
  /\ UNCHANGED <<tableVars, rep, ping, mainVars>>

AuditorBegins(a) ==
  /\ At(a, {"batch"})
  /\ ~Done("auditors")
  /\ aud' = [aud EXCEPT ![a].pc = "probe"]
  /\ UNCHANGED <<tableVars, rep, ping, mainVars>>

AuditProvider(a) ==
  /\ At(a, {"probe"})
  /\ \E outcome \in Outcome :
       /\ outcome = "cut" => Done("auditors")
       /\ aud' = [aud EXCEPT ![a] = [pc |-> "write", batch |-> @.batch,
                                     outcome |-> outcome]]
  /\ UNCHANGED <<tableVars, rep, ping, mainVars>>

\* Mutant of NextContract: the loop over the batch goes one too far.
NextContract_OffByOne(a) ==
  aud' = [aud EXCEPT ![a] = [pc |-> "batch", batch |-> Tail(@.batch)]]

NextContract(a) ==
  aud' = [aud EXCEPT ![a] =
            IF Len(@.batch) = 1 THEN Loop
                                ELSE [pc |-> "batch", batch |-> Tail(@.batch)]]

\* Mutant of Executes: the statements of the auditor do not take the context.
Executes_Anyway(a) == TRUE

\* A statement is not sent when the context is done.
Executes(a) == ~Done("auditors")

AuditorWrites(a, c) ==
  /\ At(a, {"write"})
  /\ Head(aud[a].batch).id = c
  /\ Executes(a)
  /\ CASE aud[a].outcome # "healthy" -> MarkContractFailed(c)
       [] Head(aud[a].batch).status = "pending" -> MarkContractActive(c)
       [] OTHER -> UpdateContractCheck(c)
  /\ NextContract(a)
  /\ UNCHANGED <<rep, ping, mainVars>>

\* "Failed to update": the row is left as it is, and is due still.
AuditorFails(a) ==
  /\ At(a, {"write"})
  /\ NextContract(a)
  /\ UNCHANGED <<tableVars, rep, ping, mainVars>>

AuditorStep(a) ==
  \/ AuditorStops(a)
  \/ AuditorQuery(a)
  \/ AuditorBegins(a)
  \/ AuditProvider(a)
  \/ \E c \in ContractIds : AuditorWrites(a, c)
  \/ AuditorFails(a)

-----------------------------------------------------------------------------
(* Pingers: RunPingerWorker.  Nobody stops their pool: they end with main's *)
(* context.                                                                 *)

PingerStops(p) ==
  /\ ping[p].pc \in {"loop", "ping"} /\ Done("pingers")
  /\ ping' = [ping EXCEPT ![p] = Stopped]

PingerQuery(p) ==
  /\ ping[p].pc = "loop" /\ ~Done("pingers")
  /\ GetAllContracts(p) # <<>>
  /\ ping' = [ping EXCEPT ![p] = [pc |-> "ping", batch |-> GetAllContracts(p)]]

\* processPing writes nothing.
ProcessPing(p) ==
  /\ ping[p].pc = "ping" /\ ~Done("pingers")
  /\ ping' = [ping EXCEPT ![p] =
                IF Len(@.batch) = 1
                  THEN Loop ELSE [pc |-> "ping", batch |-> Tail(@.batch)]]

Pinger(p) ==
  /\ Up
  /\ PingerStops(p) \/ PingerQuery(p) \/ ProcessPing(p)
  /\ UNCHANGED <<tableVars, rep, aud, mainVars>>

-----------------------------------------------------------------------------
(* main.                                                                    *)

\* DaemonPool.Stop.
Cancel(pool) == cancelled' = cancelled \cup {pool}

\* The goroutine of the S3 server cancels main's context when the server fails.
ServerFails ==
  /\ Up
  /\ Cancel("main")
  /\ UNCHANGED <<tableVars, workerVars, main>>

\* SIGINT, SIGTERM, or main's context is done: replicatorPool.Stop.
StopReplicators ==
  /\ main = "running"
  /\ main' = "replicators"
  /\ Cancel("replicators")
  /\ UNCHANGED <<tableVars, workerVars>>

StopAuditors ==
  /\ main = "replicators"
  /\ \A r \in Replicators : rep[r] = "stopped"
  /\ main' = "auditors"
  /\ Cancel("auditors")
  /\ UNCHANGED <<tableVars, workerVars>>

\* cancel, and main returns: whoever still runs is cut off.
Exit ==
  /\ main = "auditors"
  /\ \A a \in Auditors : aud[a].pc = "stopped"
  /\ main' = "done"
  /\ Cancel("main")
  /\ UNCHANGED <<tableVars, workerVars>>

\* The program is started again.
Restart ==
  /\ main = "done"
  /\ Start
  /\ UNCHANGED tableVars

Next ==
  \/ Age
  \/ \E r \in Replicators : Replicator(r)
  \/ \E a \in Auditors : AuditorStep(a)
  \/ \E p \in Pingers : Pinger(p)
  \/ ServerFails
  \/ StopReplicators
  \/ StopAuditors
  \/ Exit
  \/ Restart

Spec == Init /\ [][Next]_vars

\* The workers' loops go on: their sleeps end, and every call they make has a
\* timeout or ends with its context.  Time passes.  A statement on one row that
\* is tried again and again succeeds at some time.  main goes on once it was told
\* to shut down; nobody need ever tell it so.
Fairness ==
  /\ WF_vars(Age)
  /\ \A r \in Replicators : WF_vars(Replicator(r))
  /\ \A a \in Auditors :
       /\ WF_vars(AuditorStep(a))
       /\ \A c \in Share(a, NumAuditors) : SF_vars(AuditorWrites(a, c))
  /\ \A p \in Pingers : WF_vars(Pinger(p))
  /\ WF_vars("main" \in cancelled /\ StopReplicators)
  /\ WF_vars(StopAuditors \/ Exit)

FairSpec == Spec /\ Fairness

-----------------------------------------------------------------------------
(* Properties.                                                              *)

\* The process runs and is not told to stop.
Running == main = "running" /\ cancelled = {}

\* A contract that stays live is audited, and its row written, again and again,
\* however many others there are: the LIMIT starves nobody, because every audit
\* sends its row to the end of the queue.
AuditedAgain ==
  \A c \in ContractIds :
    <>[](Running /\ status[c] \in Live) => []<>(c \notin due)

\* The rows before c in the order.
Ahead(c) == {byCheck[i] : i \in 1..(Place(c) - 1)}

\* Auditor a has finished with row c, which it has been writing.
Finishes(a, c) ==
  /\ aud[a].pc = "write" /\ aud'[a].pc # "write"
  /\ Head(aud[a].batch).id = c

\* Nobody jumps the queue: a row falls back in the order of last_check only when
\* the one auditor it belongs to has finished with it (or an admin withdraws it,
\* which this module leaves out); whatever happens to other rows, none comes before
\* it that was not.
OvertakesNobody ==
  [][\A c \in Rows :
       \/ Ahead(c)' \subseteq Ahead(c)
       \/ \E a \in Auditors : c \in Share(a, NumAuditors) /\ Finishes(a, c)]_vars

\* The contract is being pinged.
Pinged(c) == \E p \in Pingers : ping[p].pc = "ping" /\ Head(ping[p].batch) = c

\* A provider that was reported unreachable only because the daemon is shutting
\* down is not fired: the context that cut off the probe cuts off the UPDATE.
NoFiringByShutdown ==
  [][\A c \in ContractIds :
       status[c] \in Live /\ status'[c] = "failed" =>
         ~\E a \in Auditors :
            /\ aud[a].pc = "write" /\ aud'[a].pc # "write"
            /\ aud[a].outcome = "cut"]_vars

\* A shutdown ends, whatever the workers are doing when it begins.
ShutdownEnds ==
  (main # "running" \/ "main" \in cancelled) ~> main = "done"

-----------------------------------------------------------------------------
(* The inductive invariant of the proofs.                                   *)

\* Ids are handed out one after the other.
IdsInOrder == Rows = 1..Cardinality(Rows)

\* What an auditor holds are rows of its own share that exist, each once.
BatchesApart ==
  \A a \in Auditors : aud[a].pc \in {"batch", "probe", "write"} =>
    LET batch == aud[a].batch IN
      /\ \A i \in DOMAIN batch : batch[i].id \in Rows \cap Share(a, NumAuditors)
      /\ \A i, j \in DOMAIN batch : batch[i].id = batch[j].id => i = j

\* An auditor has the outcome of a probe that was cut off only while its context
\* is done.
CutMeansDone ==
  \A a \in Auditors :
    aud[a].pc = "write" /\ aud[a].outcome = "cut" => Done("auditors")

\* Rows are queued once each, and an auditor's batch has each row of its share at
\* most once.
DaemonsInv == TypeOK /\ IdsInOrder /\ BatchesApart /\ CutMeansDone

-----------------------------------------------------------------------------
(* What the documentation says and the code does not do.                    *)

\* The pinger keeps up the connection to the providers (README.md:19): an active
\* contract is pinged again and again.  Failed contracts are never checked any
\* more, so they stay first in the order of last_check and fill the batch.
ActivePinged ==
  \A c \in ContractIds :
    <>[](Running /\ status[c] = "active") => []<>Pinged(c)
=============================================================================
