# Verification of the TON Storage S3 gateway

TLA+ models of the gateway in `src/`, the TLC configurations that check them, and
machine-checked proofs about them. The models are translations of the Go code and
of its SQL; the line ranges are in `PROJECT.json` ("map").

The gateway is an S3 server that caches objects on disk, hires storage providers
through TON contracts to keep copies, and deletes ("offloads") local copies later.
What makes it hard is that four pools of daemons, an S3 server and an admin API
act on the same three pieces of state at the same time, without transactions
that span more than one statement:

* the PostgreSQL tables `files`, `contracts` and `downloads`,
* the storage contract of each bag on the blockchain (a list of paid providers),
* the local torrents and their data.

## Inventory

| Component | State it keeps | Operations | Talks to | Hard about it | Correct means |
|---|---|---|---|---|---|
| Replicator pool (`daemons/replicator.go`) | batch, hiring loop, excludes (memory) | query, hire, register | tables, chain | count read once per batch; payment and INSERT not atomic | hires up to the target, never beyond, never the same provider twice |
| Auditor pool (`daemons/auditor.go`) | batch of contracts (memory) | probe, activate/promote, remove/fail/downgrade | tables, chain, torrents | stale rows, two-statement updates, lost updates on chain | an active file has its replicas, or somebody is about to notice |
| Cleaner pool (`daemons/cleaner.go`) | list of files (memory) | query, offload | tables, torrents | stale list, LIMIT | offloads what is stored elsewhere, not what is in use, and eventually |
| Pinger pool (`daemons/pinger.go`) | – | query, ping | tables, network | LIMIT without progress | every active contract is pinged |
| Pool and `main` | worker goroutines | start, stop, shutdown | all daemons | order of shutdown | a shutdown ends, and does no damage |
| Database (`internal/database`) | the tables | one statement each; FinishDownloadJob is a transaction | – | READ COMMITTED | – |
| Storage contract (`internal/ton`) | provider list on chain | HireProvider, RemoveProvider | chain | fetch, then replace; unconfirmed transactions | who is fired is not paid |
| Local bags (`internal/ton`) | torrents, data on disk | CreateBag, DownloadBag, WaitForFile, DeleteLocalFile | network | transfers in the background; two directories | complete data until it is stored elsewhere |
| S3 backend (`internal/s3`) | object files, JobTrackingReader | Put, Get, Copy, Delete, buckets | tables, bags | non-atomic overwrite, one directory for all buckets | the object read is the object written |
| Admin API (`internal/api/admin.go`) | restore goroutines | upload, restore, delete, manual replicate, withdraw | all | ignores errors, skips the downgrade | leaves the system in a state the daemons can repair |

The tests of the repository are a plan only (`ROADMAP.md`), so the hazards in
`PROJECT.json` come from the code.

## Modules

| Module | What it models |
|---|---|
| `Deployment` | the constants, the partition `id % total = worker`, and `FindRandomProvider` |
| `Database` | tables `files` and `contracts`, one operator per statement |
| `StorageContract` | the provider list of each bag; a transaction replaces it, while its sender waits, later or never |
| `Replication` | replicators, auditors, manualReplicate and withdrawContract as concurrent processes over `Database` and `StorageContract` |
| `ReplicaLedger` | the abstract specification that `Replication` implements: a set of replicas per file |
| `Gateway` | uploads, GetObject, restoreFile, deletions, cleaners, torrents and providers over `Database` |
| `ObjectStore` | buckets, keys, the files behind them and their contents: PutObject, GetObject, CopyObject, DeleteObject, uploadFile, downloadFile, restoreFile and the deletion of local data step by step |
| `Daemons` | worker pools and contexts, the order of `last_check` and the LIMITs, `main`'s shutdown |
| `Database_proofs` | lemmas about the statements and queries of `Database` |
| `Replication_proofs`, `Hiring_proofs`, `Promotion_proofs` | theorems about `Replication`: types, shortfall and the rows of files; hiring and payment; promotion |
| `Ledger_proofs` | that `Replication` implements `ReplicaLedger` |
| `Gateway_proofs`, `ObjectStore_proofs`, `Daemons_proofs` | theorems about the module each is named after |
| `MCReplication`, `MCGateway`, `MCObjectStore`, `MCDaemons` | values of the constants for TLC |

The four state machines look at the same program from four sides, each with the
other three reduced to what they do to it. `Replication` has the workers that write
`contracts`; `Gateway` has jobs, torrents and providers, with a hire or an audit as
one step or two; `ObjectStore` has the requests that read and write files, where any
object may be offloaded and any piece of a bag may arrive; `Daemons` has the loops around
all this.

### State and actions

`Database` has `files[f]` (status of the row, or "unborn"/"gone"), `contracts[c]`
and `nextContract` (the sequence). A statement is one atomic operator, except
`UpgradeFileStatusIfNeeded` and `DowngradeFileStatusIfNeeded`: their WHERE clause
counts rows of another table on the statement's snapshot, so each is a test and,
a step later, a write.

In `Replication` every worker and every admin request has a program counter and
what it read (`rep`, `aud`, `adm`). There is one step per statement and per
blockchain call. `ReplicatorFetch` is `HireProvider` up to
`FetchProviderContract`, `ReplicatorSend` the transaction, `ReplicatorRegister`
the INSERT and the end of the loop's iteration; `AuditorProbe` is `AuditProvider`
(any outcome), the others follow `processContract` line by line. Every call may
fail, with the effect the code gives to a failure. What `SendManyWaitTransaction` returns
says nothing about the storage contract: a transaction takes effect in the step of its
sender, never, or later (`late`, `LateTransaction`), when the sender has gone on or the
process was restarted, and whatever the sender was told. The replicator's query returns
no more than its LIMIT, and as it has no ORDER BY, any of the files. `Restart` clears the memory at
any point, as often as it likes. `manual`, `withdrawn` and `unrepaired` are
history variables: they occur in no guard.

In `Gateway` the replicator and the auditor take part one file or contract at a
time (`Hire`, `AuditHealthy`, `AuditDead`, `AuditUpdateFile`). A bag's torrent has its
data in the downloads directory, in the file of an object key (after an upload), or in
a directory of its own ("dir", after `DownloadBag`). `flat[key]` is the bag whose data is
in the file of that key: uploads of one key overwrite each other, whatever their bucket
and content, and the file is "torn" meanwhile. `dir[bag]` is how much of the bag its own
directory has. `client` holds the downloads; `running` their rows, `stuck` the rows that
are 'running' and have lost their client. `answers` says of every provider whether it
answers, and whether with a status that `AuditProvider` takes for healthy; `held` are the
bags they have. `raced` and `released` are history variables.

In `ObjectStore` an object is a bucket and a key, and its data is at `flat[key]`, a
path without the bucket, as in the code. `request[r]` is one HTTP request: it takes
one step per statement, per call of the storage library and per file operation of
its handler (`Lookup`, `DeleteLocal`, `DeleteRow`, `CreateLocal`, `CopyInput`,
`CreateBag`, `CreateFile` for PutObject; the first three for DeleteObject; the last
four for uploadFile, whose `SaveFile` is the same create and copy). The library's
`CreateBag` names a bag by key and content, so two objects may share one.
`fetched[bag]` is how much of the bag has come from the network, into a directory of its
own: a part of it is enough for GetObject and `WaitForFile`. `RestoreFile` is the goroutine
that restoreFile leaves behind. `List` and `Offload` are the cleaner and the admin's
deleteFile: they read a row and delete the local data of its bag later, with no further
look at it; a copy that has the file open keeps what it reads. A file that was created and not written yet is `Empty`; one that holds
anything but what one client sent is `Torn`. `rivals`, `touched`, `sent` and `offloaded`
are history variables that say which requests for the same key an object has met, what
its client sent, and whether its local data was deleted.

In `Daemons` the rows of `contracts` are the sequence `byCheck` in the order of
`last_check`; a write of `last_check` moves the row from its `Place` to the end, and
`due` is the part of the sequence that is older than two minutes. A query takes the
`Oldest` of the places whose rows its WHERE clause selects. `cancelled` are the contexts that
are done: a pool's context is a child of `main`'s. An auditor looks at its context
where the loop does, a statement is not executed once the context is done, and a
probe that the context cuts off has the outcome "cut", which the code cannot tell
from a dead provider.

### Abstractions

* Names, sizes, balances, rates, messages and timestamps are left out. Which
  contracts are due for an audit is any subset; which files are old enough for
  the cleaner is any prefix in the order of ids.
* A statement that fails changes nothing. `LateSlots` bounds the transactions that are late
  at the same time; which of them takes effect when is open.
* A file id is used once, and `TargetReplicas[f]`, `BagOf[f]` are fixed with it.
* In `Replication` and `Gateway` an auditor's batch is any set of due contracts, and
  `UpdateContractCheck`, which sets only `last_check`, has no effect; that query's LIMIT
  and order are modelled in `Daemons`. The replicator's LIMIT is the constant
  `ReplicationLimit`, the cleaner's `CleanerLimit`.
* In `Daemons` a replicator is busy for a while and may register a contract, and rows
  are neither deleted nor withdrawn: a deletion only shortens the queue, and a
  withdrawal sends its row to the end, where no auditor looks for it any more.
* In `ObjectStore` status, jobs and replicas are left out (`Gateway` has them): any
  object may be listed for offloading, and the network may have any bag that is asked
  for. The bag of an empty file is one of the `Torn` ones. A file is read in the step that opens it. What two requests write to
  one file at the same time may be any of the contents or `Torn`. A copy that
  reads the file it has truncated fails, as `io.CopyN` then does; if the file was unlinked
  before it was created anew, the copy goes on from the unlinked one. uploadFile's
  "./var/downloads" is the same directory as `DOWNLOADS_PATH`, which is the default.
* In `Gateway` a file is offloaded whether or not a client reads it: a reader that has it
  open is not disturbed. What two uploads of one key write at the same time counts as
  "torn" until one of them creates its bag; mixtures are in `ObjectStore`.
* In `Gateway` an audit's probe and its first update are one step, and a hire is
  one step; `Replication` has them apart. The storage contract is not in `Gateway`.
* Several rows of `downloads` that are stuck for one file count as one.
* Code outside `src/` (torrents, providers) is modelled from how it is used and
  marked external in the map.

## Runs

| Run | Instance | Shows |
|---|---|---|
| `pools` | 1 file, target 2, 2 providers, 3 contracts, 2 replicators, 2 auditors, 1 late transaction at a time | `TypeOK`, `ShortfallIsOwed`, `NoOverHire`, `DistinctProviders`, `HiringInv`, `StatusNeverGoesBack`, `PromotionOwed`, `FilesComeAndGo`, `PaidUnknownOnlyBy`, `ImplementsLedger` |
| `admin` | 1 file, target 1, 1 provider, 2 contracts, 1 replicator, 1 auditor, an admin who hires and withdraws, fairness | `ShortfallInv`, `HiringInv`, `ImplementsLedger`, `Heals` |
| `gateway` | 2 files with one key and a bag each, 1 provider, 1 contract, 1 download at a time and deletions (of file 2), a cleaner with batches of 1, restarts, fairness | `TypeOK`, `JobsTracked`, `NoListUnderDownload`, `PendingKeepsCopy`, `GatewayInv`, `WaitsEnd`, `OffloadEventually` |
| `objects` | 1 bucket, 1 key, 2 contents, 2 requests at a time, 3 that write | `TypeOK`, `ServesWhatWasPut`, `UntouchedKept`, `ObjectsInv`, `OrphansOnlyBy` |
| `daemons` | 3 contracts, 1 replicator, 1 auditor with batches of 2, 1 pinger with batches of 1, fairness | `TypeOK`, `DaemonsInv`, `NoFiringByShutdown`, `OvertakesNobody`, `AuditedAgain`, `ShutdownEnds` |

`ShortfallInv`, `HiringInv`, `GatewayInv`, `ObjectsInv` and `DaemonsInv` are the inductive invariants of
the proofs below: TLC checks them on reachable states, the proofs show them for
every value of the constants.

Bounds. Two auditors are the least that can overlap on one file, a second
replicator is there to show that the partition keeps it away, three contracts
let a failed one be replaced while another one is audited, and a target of 2 makes a
worker hire twice from one count. One late transaction is enough to take effect after
any step of the others, a restart among them; `lost_update` has three providers. With
one file the replicator's LIMIT cuts nothing off: what it does is in the definition, in
the exception of `Heals` and in `ShortageIsSeen`. `MaxContracts` stops the
sequence: when it is used up `ReplicatorRegister`, `ManualRegister` and `Hire`
wait (a worker that waits for its INSERT can still be restarted). Providers are
interchangeable, and so are contents, buckets and requests: the runs of `Replication`
with several providers and those of `ObjectStore` use symmetry. Runs with a liveness
property do not.

In `gateway` file 1 is never downloaded or deleted, which leaves the roles that differ:
an older file whose data a younger one overwrites, and a younger one that waits behind
the older in the cleaner's LIMIT of 1. A second download would have a row and a client
of its own.

In `objects` two requests are enough to meet at every pair of steps, and three
writing ones (`MaxWrites`) let an object be put and replaced or deleted while another
request is at it. All hazards of one name happen with one bucket; a second one only
adds `cross_bucket`. In `daemons` a batch of 2 for 3 contracts leaves one out, and so
does the pinger's batch of 1; a second worker of a pool would have a share of its own.

The five ways `ShortfallIsOwed` allows an active file to stay short are: a
finished download promoted it, an admin withdrew a contract, a promotion used a
count that was no longer true, the downgrade failed, or a restart cut it off. They
are the entries into `unrepaired`. That no *other* interleaving leads there is what
the invariant says.

### Where code and documentation disagree

Each of these runs has one property that README.md of the repository states
and that TLC finds violated; the findings in `PROJECT.json` quote the line.

| Run | Property | What happens |
|---|---|---|
| `lost_update` | `OnlyHiresAdd` | a hire overlapping a removal puts the fired provider back |
| `early_offload` | `OffloadOnlyWithReplicas` | a read of a file without replicas makes it active, then it is offloaded |
| `resolving` | `StoredBeforeOffload` | a provider still fetching counts as a replica; the only copy is deleted |
| `fired_alive` | `OnlyDeadFired` | the audit of an offloaded file takes the missing torrent for a dead provider |
| `stuck_download` | `OffloadAfterRestart` | a row left 'running' by a restart excludes the file from offloading for ever |
| `cross_bucket` | `BucketsApart` | a put of the same key in another bucket changes what a GetObject returns |
| `pinger` | `ActivePinged` | failed contracts fill the pinger's batch for ever |

What the passing runs do *not* say. `ServesWhatWasPut` and `UntouchedKept` are about
objects that no other request for the same key has met: the code has no lock, and a
PutObject that meets another one, or an uploadFile to an existing name, does leave
objects torn, lost, or with a bag that is not theirs. Even such an object may be served
in part while its bag arrives, because `WaitForFile` and GetObject take any file that is
there; and once a cleaner or the admin deletes its local data it is only as safe as its
replicas: the cleaner never asks whether anybody has the bag (`early_offload`,
`resolving`). `OrphansOnlyBy` names the
ways a torrent is orphaned, all of which happen, and `PaidUnknownOnlyBy` the ways money
goes to a provider no row knows of: a hire or a list that takes effect after its sender
gave it up or died, an
INSERT that failed, a removal without effect, and the deletion of a file, which leaves
the storage contract as it is. `PendingKeepsCopy` says
nothing of a file whose key or bag another upload has used: the second upload overwrites
the file of the first, and the copy of one goes with the other's. `OffloadEventually` is
stated for a file that has fewer older ones ready than the query returns: the others
starve, because offloaded files stay 'active' and are listed again. `Heals` leaves out
the time when more files are short than the replicator's query returns: without an
ORDER BY some of them may be left out every time. Nothing is
left of `ActivePinged` but `FewArePinged`: a share that fits into one batch is pinged.

### Refinement

`Replication!ImplementsLedger` instantiates `ReplicaLedger` with, for each file, the
contracts the replicator pool answers for: the live rows (pending or active) that no
admin hired or withdrew. The ledger adds one replica at a time, below the target,
with a fresh id and a provider the file does not have; it removes any; it never
takes one back. All that the workers do with stale batches, counts, excludes,
statements that fail and restarts is a step of the ledger or none. Checked in `pools`
and, with the admin's own hires as `HireByHand`, in `admin`.

### Fairness

`Gateway!FairSpec`: the steps of a download are weakly fair: the
loop of `WaitForFile` has a timeout and every call returns. Closing the reader of
GetObject is left to the S3 client and not assumed. Every file grows older than the two
minutes, so the query that includes all of them is strongly fair: it is only
disabled while the worker is busy or has nothing to list. A cleaner's loop runs through
its list, and `RemoveTorrent` does not fail for a file for ever, which is an assumption
about the storage library (SF of `Offload`, for each file). Nothing is assumed of clients,
admins, providers, replicators or auditors.

`Replication!FairSpec`: a replicator's loop queries for ever (WF) and takes every file
of its batches, and what it tries again and again (to fetch and send a hire, to insert a
row) succeeds at some time (SF; weak fairness would not do, because a restart or a
failure takes the worker out of the step). Auditors, admins and clients owe
nothing. `Heals` has the ways out that the model's sequence is used up, or that the query's LIMIT
leaves files out.

`Daemons!FairSpec`: every loop goes on (WF), because every sleep ends and every call
has a timeout or ends with its context; time passes; an auditor's UPDATE of one row
that is tried again and again is executed at some time (SF). `main` reacts to its
cancelled context and goes on with a shutdown it began; a signal need never come.

`ObjectStore` has no liveness property: nobody retries anything there.

## Proofs

What is proved holds for every value of the constants that meets the assumptions in
the modules: any number of files, bags, providers, contracts, workers, admins,
clients, buckets, keys, contents and requests, and any bound.

| Module | Theorem | Statement |
|---|---|---|
| `Replication_proofs` | `TypeCorrect` | `Spec => []TypeOK` |
| | `ShortfallInvariant`, `ShortfallCorrect` | `Spec => []ShortfallInv`, `Spec => []ShortfallIsOwed` |
| | `FilesComeAndGoCorrect` | `Spec => FilesComeAndGo` |
| `Hiring_proofs` | `HiringInvariant` | `Spec => []HiringInv` |
| | `NoOverHireCorrect`, `DistinctProvidersCorrect` | `Spec => []NoOverHire`, `Spec => []DistinctProviders` |
| | `StatusNeverGoesBackCorrect`, `PaidUnknownOnlyByCorrect` | `Spec => StatusNeverGoesBack`, `Spec => PaidUnknownOnlyBy` |
| | `ShortageIsSeen` | one worker's query returns a file short of replicas, unless more are short than its LIMIT, and each hire brings the file nearer its target |
| `Ledger_proofs` | `LedgerImplemented` | `Spec => ImplementsLedger` |
| `Promotion_proofs` | `PromotionOwedCorrect` | `Spec => PromotionOwed` |
| `Gateway_proofs` | `GatewayTypeCorrect` | `Spec => []TypeOK` |
| | `JobsTrackedCorrect`, `NoListUnderDownloadCorrect` | `Spec => []JobsTracked`, `Spec => []NoListUnderDownload` |
| | `GatewayInvariant`, `PendingKeepsCopyCorrect` | `Spec => []GatewayInv`, `Spec => []PendingKeepsCopy` |
| | `OpenGatewayKeepsCopy` | both, beside any daemons that only change the status of files |
| | `IdleIsListed` | an old, active and idle file is in the next batch of its cleaner, if there are at most `CleanerLimit` |
| `ObjectStore_proofs` | `ObjectsTypeCorrect`, `ObjectsInvariant` | `Spec => []TypeOK`, `Spec => []ObjectsInv` |
| | `ServesWhatWasPutCorrect`, `UntouchedKeptCorrect` | `Spec => []ServesWhatWasPut`, `Spec => []UntouchedKept` |
| | `OrphansOnlyByCorrect` | `Spec => OrphansOnlyBy` |
| `Daemons_proofs` | `DaemonsTypeCorrect`, `DaemonsInvariant` | `Spec => []TypeOK`, `Spec => []DaemonsInv` |
| | `OvertakesNobodyCorrect`, `NoFiringByShutdownCorrect` | `Spec => OvertakesNobody`, `Spec => NoFiringByShutdown` |
| | `LimitTakesOldest` | a due row left out of an audit batch is behind a full batch of older ones |
| | `FewArePinged` | a share that fits into a batch of the pinger is in it |

**Shortfall.** `ShortfallIsOwed` is not inductive. Whether a step that writes a
contract's status can make a file short depends on which file the row belongs to
*now*: an auditor holds a row it read earlier, and pays its debt (the downgrade) to
the file it read. `ShortfallInv` therefore adds `HeldRowsMatch` (a row that is held
and still exists has the same file and provider) and, for that, `FreshIds` (ids
not yet handed out have no row, so a held id is never given out again). There is
one lemma per action, or group of actions that write the same variables; lemmas about
the statements of `Database` say which files a step can make short.

The same invariant carries `PaidUnknownOnlyBy`: the row an auditor or an admin fails is,
by `HeldRowsMatch`, the row of the provider it has just removed, so no other provider
loses its row; a list goes on chain only with the transaction of the process that
holds it, or with one that is late; and a hire that is registered leaves a row.

**Hiring.** A replicator hires from a count and a list of providers that it read
once per batch. `HiringInv` says why that is good enough. `JobsApart`: all jobs of a
worker are for different files of its own share (`id % workers`), so no other worker
hires for them; each job still *fits*, that is, the live contracts the file has plus
what is left to hire stay within the target, and the job excludes all their
providers. Auditors, withdrawals and deletions only make room, unless a contract
comes back to life: `AuditsApart` says that an auditor holds rows of its own share,
each once, and none that it failed, so only what an admin withdrew can come back.
That is also `StatusNeverGoesBack`. `RowsHaveFiles` ties the history variables and the
rows to files that exist. `DistinctProviders` needs in addition that the excludes of
a job are fewer than the providers, which makes `FindRandomProvider` return one that
is not excluded.

**Refinement.** `LedgerImplemented` maps each step of `Replication` under `HiringInv`
to one step of `ReplicaLedger` or to none: a registration to `Hire`, one
that an admin made to `HireByHand` or none, a failed, withdrawn or deleted row to
`Lose`.

**Liveness, the safe part.** What `Heals`, `OffloadEventually` and `AuditedAgain`
say under fairness rests on facts about single states that are proved:
`ShortageIsSeen` (the shortage of a file is seen whatever happened to the hires before,
by one worker, as long as its query's LIMIT leaves nobody out), `IdleIsListed`, `LimitTakesOldest` with `OvertakesNobody` (who is not in
the batch has at least a batch of rows before it, each goes behind it when it is
written, and none comes before it again). `FewArePinged` is the like for the pinger.

**Gateway.** `JobsTracked` and `NoListUnderDownload` need little besides the types.
`PendingKeepsCopy` is not inductive: an upload has its copy before it has a row,
and the cleaner acts on a list. `CopiesKept` adds both: an upload about to insert a
row has the whole copy too, and what is active or on a cleaner's list has
been released. It says where the copy is: in the file of the upload's key, which the
torrent of no other file uses (`Sharing`). The code deletes data by bag and writes it by
key, so of two files with one bag one loses its copy when the other is offloaded or
deleted, and of two with one key when the other is uploaded. `released` has them from the
moment the second of them is written; `cross_bucket` shows the consequences of the shared
path.

**Gateway beside Replication.** `Gateway` has the replicator and the auditor in a reduced
form. `OpenGatewayKeepsCopy` shows that this costs nothing: in `OpenSpec` any other step
may change `contracts` at will and the status of files between pending and active
(`AnyDaemon`), and the invariants stay. That the workers and admins of `Replication` in
their full interleaving do no more is `FilesComeAndGo`: a row of `files` appears with an
upload and disappears with a deletion, and no auditor that decided on a promotion or a
demotion before the deletion brings it back. (The two modules are not composed in
one specification: they share the tables and nothing else.)

**Objects.** `ObjectsInv` is what lets one reason about a handler of PutObject as if
it ran alone. `RivalsKnown`: of two requests at work on a key each knows the other's
bucket. `WritesAlone`: a request that knows of no other finds, from `os.Create` to the
INSERT, the file as it left it, and no object of the key. `UntouchedAlone`: an object
that no request for its key has met is the only one of its key, nobody is at work
on it, its bag has what the client sent, and the bag is seeded unless the local data of
the key was deleted since its CreateBag.
`ContentsAssumption` keeps the contents apart from the marks `Empty`, `Torn`, `None`
and `Self`. The proof goes key by key: a step that does not matter to a key
(`Quiet`) keeps what the invariant says of it, a step of a writing request can
matter only to that request, and the beginning of a request, its INSERT and an
offload are treated by themselves. A copy whose source is unlinked changes its content
and nothing else (`UnlinkedSame`).

**Queue and shutdown.** `DaemonsInv` is `TypeOK` with three parts. In `TypeOK` the rows
are the elements of `byCheck` and as many as its places, so each has one place; to take
one out and append it keeps both facts, and keeps the rows that are due in front.
`IdsInOrder` (ids are handed out one after the other) makes a new row a new element.
`BatchesApart` says that an auditor holds existing rows of its own share, each once: so
the row it writes is written by nobody else, which gives `OvertakesNobody`. That a batch
holds no row twice rests on lemmas about `Nth` and `Oldest` (there is an n-th smallest
place for each n up to their number, and it grows with n). `CutMeansDone` gives
`NoFiringByShutdown`: while an auditor holds the outcome of a probe that was cut off its
context is done, and stays so until the process ends, so the statement that would fire
the provider is not executed.

The assumptions are that ids are naturals, there is a provider, targets are
integers (they may be 0 or less: `uploadFile` does not check), every file has a bag,
bounds and pool sizes are naturals, limits are positive, and contents are none of the
marks. TLC evaluates them in every run.

Every invariant, action property and refinement that the passing runs check is proved.
Only model-checked is liveness under fairness: `Heals`, `WaitsEnd`, `OffloadEventually`,
`AuditedAgain`, `ShutdownEnds`. The prover does not reason about
ENABLED, on which fairness rests.

## Not modelled

* Configuration, the database connection, the HTTP servers, statistics and listings,
  HeadObject, API keys (a table nothing reads): no state of their own that a property
  could be about. The worker counts of the configuration are constants.
* The race between `DownloadBag`'s `GetTorrent` and a `RemoveTorrent`: what the storage
  library does with a torrent that is started after its removal is not in this
  repository.
* The shutdown of the cleaner pool: `main` never stops it, so it is cut off like an
  HTTP handler (`Restart`).
* Balances, and what a provider is paid over time: nothing in the code acts on them.
* Waiting times, the pinger's loop without a sleep on a database error, the newest 2000
  files of `ListBucket`: quantities rather than orders of steps.

## Plan

1. *Done:* all state machines and the abstract ledger, with their runs.
2. *Done:* proofs of the invariants, action properties and the refinement that the runs
   check, and of the safe part of three liveness properties.
3. Left: liveness, which needs a prover that knows ENABLED; a composition of `Replication`
   and `Gateway` in one specification, in place of the argument above.
