------------------------------ MODULE Gateway ------------------------------
(***************************************************************************)
(* The gateway as a cache in front of the storage providers: uploads,      *)
(* downloads (GetObject and restoreFile), deletions, and the Cleaner pool  *)
(* that offloads local copies.                                             *)
(*                                                                         *)
(* The replicator and the auditor are here for what they make of the local *)
(* copy: a hired provider fetches the bag from it, and AuditProvider looks *)
(* the torrent up in memory.  They take part one file at a time; their own *)
(* interleavings are the subject of module Replication.                    *)
(*                                                                         *)
(* An upload's data is in the downloads directory itself, under its object *)
(* key: whatever bucket and content another upload has, it writes the same *)
(* file when it has the same key.  DownloadBag gives a bag a directory of  *)
(* its own.                                                                *)
(*                                                                         *)
(* Torrents, their transfers and the providers belong to the TON storage   *)
(* library and network.  The model keeps where a bag's torrent has its     *)
(* data and how much of it is there.                                       *)
(***************************************************************************)
EXTENDS Database

CONSTANTS
  Keys,            \* object keys
  KeyOf,           \* [FileIds -> Keys]: files.object_key
  Clients,         \* downloads that can be in progress
  Deletable,       \* files that somebody may delete, wholly or locally
  Wanted,          \* files that somebody may download
  NumCleaners,     \* cfg.CleanerWorkers
  CleanerLimit     \* LIMIT of the cleaner's query (50)

ASSUME CleanersAssumption == NumCleaners \in Nat /\ CleanerLimit \in Nat
ASSUME KeysAssumption ==
  KeyOf \in [FileIds -> Keys] /\ {"none", "dir"} \cap Keys = {}
ASSUME BagNamesAssumption == {"none", "torn"} \cap Bags = {}

Cleaners == 0 .. NumCleaners - 1

VARIABLES
  torrent,         \* [Bags -> where the loaded torrent has its data: the key
                   \* of an upload, "dir" (its own directory), or "none"]
  flat,            \* [Keys -> the bag whose data is in the file of that key in
                   \* the downloads directory, "torn" (of no bag) or "none"]
  dir,             \* [Bags -> how much of the bag is in its own directory]
  uploading,       \* files whose bag is created, the row not yet inserted
  deleting,        \* files DeleteObject has yet to delete from the table
  running,         \* rows of downloads with status 'running' whose client is
                   \* at work: pairs <<file, client>>
  stuck,           \* files with a 'running' row nobody will finish any more
  client,          \* [Clients -> state of the download]
  cleaner,         \* [Cleaners -> files listed and not yet offloaded]
  auditor,         \* what the auditor does after it wrote a contract's status
  answers,         \* [Providers -> "none", or whether the status it answers
                   \* is one AuditProvider takes for healthy]
  held,            \* [Bags -> providers that have all of the bag's data]
  raced,           \* history: [Clients -> cleaners that had listed the file
                   \* before the download in progress began]
  released         \* history: files that were active, whose deletion somebody
                   \* asked for, whose data another upload wrote over, or
                   \* whose bag or path another file had too

localVars == <<torrent, flat, dir>>
requestVars == <<uploading, deleting>>
jobVars == <<running, stuck, client, raced>>
networkVars == <<answers, held>>
vars == <<dbVars, localVars, requestVars, jobVars, cleaner, auditor,
          networkVars, released>>

\* Where GetObject finds a file: under its key, or in the directory of the bag.
Places == {"flat", "dir"}

\* Who downloads a file: GetObject, or the job that restoreFile leaves running.
Handlers == {"GetObject", "restoreFile"}

Idle == [pc |-> "idle"]

ClientState ==
  {Idle}
  \cup [pc : {"look", "wait", "success", "failure"}, handler : Handlers,
        file : FileIds]
  \cup [pc : {"open"}, handler : Handlers, file : FileIds, place : Places]

AuditorState == {Idle} \cup [pc : {"upgrade", "downgrade"}, file : FileIds]

TypeOK ==
  /\ DBTypeOK
  /\ torrent \in [Bags -> Keys \cup {"dir", "none"}]
  /\ flat \in [Keys -> Bags \cup {"torn", "none"}]
  /\ dir \in [Bags -> {"none", "partial", "complete"}]
  /\ uploading \subseteq FileIds
  /\ deleting \subseteq FileIds
  /\ running \subseteq FileIds \X Clients
  /\ stuck \subseteq FileIds
  /\ client \in [Clients -> ClientState]
  /\ cleaner \in [Cleaners -> SUBSET FileIds]
  /\ auditor \in AuditorState
  /\ answers \in [Providers -> {"none", "bad", "good"}]
  /\ held \in [Bags -> SUBSET Providers]
  /\ raced \in [Clients -> SUBSET Cleaners]
  /\ released \subseteq FileIds

Init ==
  /\ DBInit
  /\ torrent = [b \in Bags |-> "none"]
  /\ flat = [k \in Keys |-> "none"]
  /\ dir = [b \in Bags |-> "none"]
  /\ uploading = {}
  /\ deleting = {}
  /\ running = {}
  /\ stuck = {}
  /\ client = [c \in Clients |-> Idle]
  /\ cleaner = [k \in Cleaners |-> {}]
  /\ auditor = Idle
  /\ answers = [p \in Providers |-> "good"]
  /\ held = [b \in Bags |-> {}]
  /\ raced = [c \in Clients |-> {}]
  /\ released = {}

\* The torrent of bag b can hand the whole bag to others.
Seeds(b) ==
  \/ torrent[b] \in Keys /\ flat[torrent[b]] = b
  \/ torrent[b] = "dir" /\ dir[b] = "complete"

Answering == {p \in Providers : answers[p] # "none"}

\* Somebody in the network has the whole bag and answers.
Stored(b) == held[b] \cap Answering # {}

\* What GetObject finds of file f.
Present(f, place) ==
  IF place = "flat" THEN flat[KeyOf[f]] # "none" ELSE dir[BagOf[f]] # "none"

\* Somebody may yet seed, offload or delete the local copy of f.
InUse(f) ==
  FileExists(f) \/ f \in uploading \/ \E k \in Cleaners : f \in cleaner[k]

\* A row of downloads with status 'running'.
Downloading(f) == f \in stuck \/ \E c \in Clients : <<f, c>> \in running

\* The history of released files after a step that may change a file's status.
ReleaseActive ==
  released' = released \cup {f \in FileIds : files'[f] = "active"}

\* Service.DeleteLocalFile: no error, and no effect, when no torrent is loaded;
\* else the torrent is removed together with the files at its path, whatever is in
\* them.
DeleteLocalFile(b) ==
  /\ torrent' = [torrent EXCEPT ![b] = "none"]
  /\ flat' = [k \in Keys |-> IF torrent[b] = k THEN "none" ELSE flat[k]]
  /\ dir' = [dir EXCEPT ![b] = IF torrent[b] = "dir" THEN "none" ELSE @]

\* RemoveTorrent returns an error.
DeleteLocalFileFails(b) == torrent[b] # "none" /\ UNCHANGED localVars

-----------------------------------------------------------------------------
(* Uploads: PutObject and uploadFile.  Row ids are handed out in order, so a *)
(* smaller id is an older file; an upload in progress is named by the id it  *)
(* will get.                                                                *)

\* The data is written into the file of its key; the old content is lost when the
\* file is opened.
SaveFile(f) ==
  /\ files[f] = "unborn" /\ f \notin uploading
  /\ flat' = [flat EXCEPT ![KeyOf[f]] = "torn"]
  /\ released' = released \cup {g \in FileIds :
                                 InUse(g) /\ torrent[BagOf[g]] = KeyOf[f]}
  /\ UNCHANGED <<dbVars, torrent, dir, requestVars, jobVars, cleaner, auditor,
                 networkVars>>

\* The other files whose local copy is deleted with that of f.
Sharing(f) ==
  {g \in FileIds \ {f} :
     InUse(g) /\ (BagOf[g] = BagOf[f] \/ torrent[BagOf[g]] = KeyOf[f])}

\* Service.CreateBag takes whatever the file holds by now.
CreateBag(f) ==
  /\ files[f] = "unborn" /\ f \notin uploading
  /\ flat[KeyOf[f]] \in {"torn", BagOf[f]}
  /\ torrent' = [torrent EXCEPT ![BagOf[f]] = KeyOf[f]]
  /\ flat' = [flat EXCEPT ![KeyOf[f]] = BagOf[f]]
  /\ uploading' = uploading \cup {f}
  /\ released' = released \cup
       IF Sharing(f) = {} THEN {} ELSE Sharing(f) \cup {f}
  /\ UNCHANGED <<dbVars, dir, deleting, jobVars, cleaner, auditor, networkVars>>

UploadRow(f) ==
  /\ f \in uploading
  /\ \/ CreateFile(f) /\ \A g \in FileIds : g < f => files[g] # "unborn"
     \/ UNCHANGED dbVars                                 \* "DB error"
  /\ uploading' = uploading \ {f}
  /\ ReleaseActive
  /\ UNCHANGED <<localVars, deleting, jobVars, cleaner, auditor, networkVars>>

-----------------------------------------------------------------------------
(* Downloads: GetObject and restoreFile.                                    *)

StartDownloadJob(c) ==
  /\ client[c].pc = "idle"
  /\ \E f \in FileIds, handler \in Handlers :
       /\ f \in Wanted /\ FileExists(f)
       /\ running' = running \cup {<<f, c>>}
       /\ client' = [client EXCEPT ![c] =
                       [pc |-> "look", handler |-> handler, file |-> f]]
       /\ raced' = [raced EXCEPT ![c] = {k \in Cleaners : f \in cleaner[k]}]
  /\ UNCHANGED <<dbVars, localVars, requestVars, stuck, cleaner, auditor,
                 networkVars, released>>

Goto(c, pc) ==
  client' = [client EXCEPT ![c] =
               [pc |-> pc, handler |-> client[c].handler, file |-> client[c].file]]

GotoOpen(c, place) ==
  client' = [client EXCEPT ![c] =
               [pc |-> "open", handler |-> client[c].handler,
                file |-> client[c].file, place |-> place]]

\* GetObject looks for the file first, in the downloads directory and then in
\* the directory of the bag.
LookLocally(c) ==
  /\ client[c].pc = "look" /\ client[c].handler = "GetObject"
  /\ \E place \in Places :
       /\ Present(client[c].file, place)
       /\ place = "dir" => ~Present(client[c].file, "flat")
       /\ GotoOpen(c, place)
  /\ UNCHANGED <<dbVars, localVars, requestVars, running, stuck, raced, cleaner,
                 auditor, networkVars, released>>

\* Service.DownloadBag: a loaded torrent is started again, where it is.
DownloadBag(c) ==
  /\ client[c].pc = "look"
  /\ LET b == BagOf[client[c].file] IN
       /\ client[c].handler = "GetObject" =>
            \A place \in Places : ~Present(client[c].file, place)
       /\ \/ /\ torrent' = [torrent EXCEPT ![b] = IF @ = "none" THEN "dir" ELSE @]
             /\ Goto(c, "wait")
          \/ UNCHANGED torrent /\ Goto(c, "failure")
  /\ UNCHANGED <<dbVars, flat, dir, requestVars, running, stuck, raced, cleaner,
                 auditor, networkVars, released>>

\* Mutant of FileFound: GetObject does not keep the path WaitForFile returned.
FileFound_LosesPath(c) ==
  /\ client[c].pc = "wait"
  /\ Present(client[c].file, "dir")
  /\ IF client[c].handler = "GetObject" THEN Goto(c, "open") ELSE Goto(c, "success")
  /\ UNCHANGED <<dbVars, localVars, requestVars, running, stuck, raced, cleaner,
                 auditor, networkVars, released>>

\* Service.WaitForFile looks in the directory of the bag, for a file that is not
\* empty.
FileFound(c) ==
  /\ client[c].pc = "wait"
  /\ Present(client[c].file, "dir")
  /\ IF client[c].handler = "GetObject"
       THEN GotoOpen(c, "dir") ELSE Goto(c, "success")
  /\ UNCHANGED <<dbVars, localVars, requestVars, running, stuck, raced, cleaner,
                 auditor, networkVars, released>>

\* Mutant of WaitTimeout: the handler returns without failJob.
WaitTimeout_ForgetsJob(c) ==
  /\ client[c].pc = "wait"
  /\ client' = [client EXCEPT ![c] = Idle]
  /\ UNCHANGED <<dbVars, localVars, requestVars, running, stuck, raced, cleaner,
                 auditor, networkVars, released>>

\* Mutant of WaitTimeout: WaitForFile waits as long as its caller's context.
WaitTimeout_Never(c) == FALSE /\ UNCHANGED vars

\* The ten minutes of WaitForFile are over.
WaitTimeout(c) ==
  /\ client[c].pc = "wait"
  /\ Goto(c, "failure")
  /\ UNCHANGED <<dbVars, localVars, requestVars, running, stuck, raced, cleaner,
                 auditor, networkVars, released>>

OpenFile(c) ==
  /\ client[c].pc = "open"
  /\ IF Present(client[c].file, client[c].place)
       THEN Goto(c, "success") ELSE Goto(c, "failure")
  /\ UNCHANGED <<dbVars, localVars, requestVars, running, stuck, raced, cleaner,
                 auditor, networkVars, released>>

\* FinishDownloadJob, called by failJob, by the restore job, and by the reader
\* that GetObject returned when it is closed.  Every caller ignores its error:
\* the row stays 'running'.  When the row is gone with its file, neither of its
\* updates finds a row.
Finish(c) ==
  /\ client[c].pc \in {"success", "failure"}
  /\ LET f == client[c].file IN
       /\ \/ /\ IF client[c].pc = "success" /\ <<f, c>> \in running
                  THEN FinishDownloadJob(f) ELSE UNCHANGED dbVars
             /\ UNCHANGED stuck
          \/ /\ <<f, c>> \in running
             /\ stuck' = stuck \cup {f}
             /\ UNCHANGED dbVars
       /\ running' = running \ {<<f, c>>}
  /\ client' = [client EXCEPT ![c] = Idle]
  /\ raced' = [raced EXCEPT ![c] = {}]
  /\ ReleaseActive
  /\ UNCHANGED <<localVars, requestVars, cleaner, auditor, networkVars>>

Download(c) ==
  \/ LookLocally(c)
  \/ DownloadBag(c)
  \/ FileFound(c)
  \/ WaitTimeout(c)
  \/ OpenFile(c)
  \/ Finish(c)

-----------------------------------------------------------------------------
(* Deletions.                                                              *)

\* DeleteObject (also for DeleteMulti, and for a PutObject that overwrites): the
\* local data first; an error is only a warning.
DeleteObject(f) ==
  /\ f \in Deletable \ deleting
  /\ FileExists(f)
  /\ DeleteLocalFile(BagOf[f]) \/ DeleteLocalFileFails(BagOf[f])
  /\ deleting' = deleting \cup {f}
  /\ released' = released \cup {f}
  /\ UNCHANGED <<dbVars, uploading, jobVars, cleaner, auditor, networkVars>>

\* Then the row, with the rows of downloads that refer to it (ON DELETE CASCADE).
DeleteRow(f) ==
  /\ f \in deleting
  /\ deleting' = deleting \ {f}
  /\ \/ /\ DeleteFile(f)
        /\ running' = {job \in running : job[1] # f}
        /\ stuck' = stuck \ {f}
     \/ UNCHANGED <<dbVars, running, stuck>>              \* database error
  /\ UNCHANGED <<localVars, uploading, client, raced, cleaner, auditor,
                 networkVars, released>>

\* AdminServer.deleteFile: the local data only.
AdminDeleteFile(f) ==
  /\ f \in Deletable
  /\ FileExists(f)
  /\ torrent[BagOf[f]] # "none"
  /\ DeleteLocalFile(BagOf[f])
  /\ released' = released \cup {f}
  /\ UNCHANGED <<dbVars, requestVars, jobVars, cleaner, auditor, networkVars>>

-----------------------------------------------------------------------------
(* RunCleanerWorker.                                                       *)

\* Mutant of FilesReadyForCleaning: no join with the running downloads.
FilesReadyForCleaning_NoJoin(k) ==
  {f \in FileIds : files[f] = "active" /\ InShare(f, NumCleaners, k)}

\* Mutant of FilesReadyForCleaning: no look at the status.
FilesReadyForCleaning_AnyStatus(k) ==
  {f \in FileIds :
     FileExists(f) /\ InShare(f, NumCleaners, k) /\ ~Downloading(f)}

\* The WHERE clause of GetFilesReadyForCleaning, but for the age of the file.
FilesReadyForCleaning(k) ==
  {f \in FileIds :
     files[f] = "active" /\ InShare(f, NumCleaners, k) /\ ~Downloading(f)}

\* Mutant of Oldest: ORDER BY created_at DESC.
Oldest_Newest(F) == {f \in F : Cardinality({g \in F : g > f}) < CleanerLimit}

\* ORDER BY created_at LIMIT.
Oldest(F) == {f \in F : Cardinality({g \in F : g < f}) < CleanerLimit}

\* The files up to id n are old enough (created_at < NOW() - interval).
CleanerQuery(k, n) ==
  /\ cleaner[k] = {}
  /\ LET F == Oldest({f \in FilesReadyForCleaning(k) : f <= n}) IN
       /\ F # {}
       /\ cleaner' = [cleaner EXCEPT ![k] = F]
  /\ UNCHANGED <<dbVars, localVars, requestVars, jobVars, auditor, networkVars, released>>

\* What the worker listed is offloaded, whatever became of it since.
Offload(k, f) ==
  /\ f \in cleaner[k]
  /\ DeleteLocalFile(BagOf[f])
  /\ cleaner' = [cleaner EXCEPT ![k] = @ \ {f}]
  /\ UNCHANGED <<dbVars, requestVars, jobVars, auditor, networkVars,
                 released>>

\* "Failed to offload"
OffloadFails(k, f) ==
  /\ f \in cleaner[k]
  /\ DeleteLocalFileFails(BagOf[f])
  /\ cleaner' = [cleaner EXCEPT ![k] = @ \ {f}]
  /\ UNCHANGED <<dbVars, requestVars, jobVars, auditor, networkVars,
                 released>>

OffloadOne(k) == \E f \in FileIds : Offload(k, f) \/ OffloadFails(k, f)

-----------------------------------------------------------------------------
(* The replicator and the auditor, one file and one contract at a time.     *)

\* HireProvider asks the provider for its rates, so the provider answers.
Hire(f) ==
  /\ \E F \in GetFilesNeedingReplication(1, 0) : f \in F
  /\ nextContract <= MaxContracts
  /\ \E p \in FindRandomProvider(ProvidersOf(ContractsOf(f, Live))) \cap Answering :
       RegisterContract(f, p)
  /\ UNCHANGED <<localVars, requestVars, jobVars, cleaner, auditor, networkVars, released>>

\* What AuditProvider may find when the torrent is loaded: a provider that answers
\* with one of the statuses "active", "resolving" and "untrusted", or that is
\* connected as a peer, whatever it would answer, is healthy.
FoundHealthy(c) ==
  torrent[BagOf[contracts[c].file]] # "none" /\ contracts[c].provider \in Answering

\* No torrent is loaded, or the provider is no peer and does not answer, or not
\* with one of these statuses.
FoundDead(c) ==
  \/ torrent[BagOf[contracts[c].file]] = "none"
  \/ answers[contracts[c].provider] # "good"

AuditHealthy(c) ==
  /\ auditor.pc = "idle"
  /\ contracts[c].status = "pending"
  /\ FoundHealthy(c)
  /\ MarkContractActive(c)
  /\ auditor' = [pc |-> "upgrade", file |-> contracts[c].file]
  /\ UNCHANGED <<localVars, requestVars, jobVars, cleaner, networkVars,
                 released>>

AuditDead(c) ==
  /\ auditor.pc = "idle"
  /\ contracts[c].status \in Live
  /\ FoundDead(c)
  /\ MarkContractFailed(c)
  /\ auditor' = [pc |-> "downgrade", file |-> contracts[c].file]
  /\ UNCHANGED <<localVars, requestVars, jobVars, cleaner, networkVars,
                 released>>

AuditUpdateFile ==
  /\ \/ /\ auditor.pc = "upgrade"
        /\ IF UpgradeNeeded(auditor.file)
             THEN UpgradeFileStatusIfNeeded(auditor.file) ELSE UNCHANGED dbVars
     \/ /\ auditor.pc = "downgrade"
        /\ IF DowngradeNeeded(auditor.file)
             THEN DowngradeFileStatusIfNeeded(auditor.file) ELSE UNCHANGED dbVars
  /\ auditor' = Idle
  /\ ReleaseActive
  /\ UNCHANGED <<localVars, requestVars, jobVars, cleaner, networkVars>>

-----------------------------------------------------------------------------
(* The network: providers come, go or fail; a hired one fetches the bag from the *)
(* gateway or from another provider, one that is not hired may drop it; a   *)
(* torrent without all its data fetches it from a provider.                 *)

HiredFor(b, p) ==
  \E c \in ContractIds :
    /\ contracts[c].status \in Live
    /\ contracts[c].provider = p
    /\ BagOf[contracts[c].file] = b

ProviderChanges(p) ==
  /\ \E answer \in {"none", "bad", "good"} \ {answers[p]} :
       answers' = [answers EXCEPT ![p] = answer]
  /\ UNCHANGED <<dbVars, localVars, requestVars, jobVars, cleaner, auditor, held, released>>

ProviderFetches(b, p) ==
  /\ HiredFor(b, p)
  /\ p \in Answering \ held[b]
  /\ Seeds(b) \/ Stored(b)
  /\ held' = [held EXCEPT ![b] = @ \cup {p}]
  /\ UNCHANGED <<dbVars, localVars, requestVars, jobVars, cleaner, auditor, answers, released>>

ProviderDrops(b, p) ==
  /\ p \in held[b]
  /\ ~HiredFor(b, p)
  /\ held' = [held EXCEPT ![b] = @ \ {p}]
  /\ UNCHANGED <<dbVars, localVars, requestVars, jobVars, cleaner, auditor, answers, released>>

\* A piece of the bag arrives, or its last one.
BagTransfer(b) ==
  /\ torrent[b] = "dir"
  /\ Stored(b)
  /\ dir[b] # "complete"
  /\ dir' = [dir EXCEPT ![b] = IF @ = "none" THEN "partial" ELSE "complete"]
  /\ UNCHANGED <<dbVars, torrent, flat, requestVars, jobVars, cleaner, auditor,
                 networkVars, released>>

-----------------------------------------------------------------------------
\* The process dies at any point and starts again.  The tables, the torrents
\* (StartSeeding starts them again) and their data stay; nobody resets the
\* downloads that were running.
Restart ==
  /\ stuck' = stuck \cup {job[1] : job \in running}
  /\ running' = {}
  /\ client' = [c \in Clients |-> Idle]
  /\ raced' = [c \in Clients |-> {}]
  /\ cleaner' = [k \in Cleaners |-> {}]
  /\ auditor' = Idle
  /\ uploading' = {}
  /\ deleting' = {}
  /\ UNCHANGED <<dbVars, localVars, networkVars, released>>

Next ==
  \/ \E f \in FileIds :
       \/ SaveFile(f) \/ CreateBag(f) \/ UploadRow(f)
       \/ DeleteObject(f) \/ DeleteRow(f) \/ AdminDeleteFile(f)
       \/ Hire(f)
  \/ \E c \in Clients : StartDownloadJob(c) \/ Download(c)
  \/ \E k \in Cleaners :
       \/ \E n \in FileIds : CleanerQuery(k, n)
       \/ OffloadOne(k)
  \/ \E c \in ContractIds : AuditHealthy(c) \/ AuditDead(c)
  \/ AuditUpdateFile
  \/ \E p \in Providers : ProviderChanges(p)
  \/ \E b \in Bags, p \in Providers : ProviderFetches(b, p) \/ ProviderDrops(b, p)
  \/ \E b \in Bags : BagTransfer(b)
  \/ Restart

Spec == Init /\ [][Next]_vars

\* A download goes on by itself until its reader is handed to the S3 client,
\* who alone decides when to close it.  Every file is two minutes old at some
\* time, a cleaner's ticker fires again and again and its loop runs through what
\* it listed, and a deletion that is tried again and again succeeds.
Fairness ==
  /\ \A c \in Clients :
       WF_vars(/\ client[c].pc = "success" => client[c].handler = "restoreFile"
               /\ Download(c))
  /\ \A k \in Cleaners :
       /\ SF_vars(\E n \in FileIds :
                    (\A g \in FileIds : g <= n) /\ CleanerQuery(k, n))
       /\ \A f \in FileIds : SF_vars(Offload(k, f))

FairSpec == Spec /\ Fairness

-----------------------------------------------------------------------------
(* Properties.                                                              *)

\* No handler forgets its download: a row that is 'running' belongs to a client
\* that is at work on that file, unless the process was restarted or the
\* database refused the update that ends it.
JobsTracked ==
  \A job \in running :
    LET c == job[2] IN client[c].pc # "idle" /\ client[c].file = job[1]

\* A cleaner removes a file under a download only if it had listed the file
\* before the download began: the query skips what is being downloaded.
NoListUnderDownload ==
  \A k \in Cleaners : \A job \in running :
    job[1] \in cleaner[k] => k \in raced[job[2]]

\* A file that has not been active yet keeps its whole local copy and its torrent,
\* for its providers still have to fetch it; unless somebody asked for its deletion,
\* or another upload wrote into the same file of the downloads directory, or another
\* file has the same bag or path.
PendingKeepsCopy ==
  \A f \in FileIds : files[f] = "pending" /\ f \notin released => Seeds(BagOf[f])

\* Such a file, or an upload that will insert one, has its data under its own key,
\* no other file's torrent has it there, and nobody else has the bag; and whatever
\* a cleaner has listed or the table shows as active is released.
CopiesKept ==
  /\ \A f \in FileIds : files[f] = "active" => f \in released
  /\ \A k \in Cleaners : cleaner[k] \subseteq released
  /\ \A f \in FileIds :
       (files[f] = "pending" \/ f \in uploading) /\ f \notin released =>
         /\ torrent[BagOf[f]] = KeyOf[f] /\ flat[KeyOf[f]] = BagOf[f]
         /\ Sharing(f) = {}

\* The inductive invariant behind the three invariants above.
GatewayInv == TypeOK /\ JobsTracked /\ NoListUnderDownload /\ CopiesKept

\* Every restore comes to an end, and a GetObject that waits for the network
\* gives up waiting.
WaitsEnd ==
  \A c \in Clients :
    []<>(/\ client[c].pc # "wait"
         /\ client[c].pc = "idle" \/ client[c].handler = "GetObject")

\* A file that stays active and is not being downloaded is offloaded, as long as
\* fewer older ones of its cleaner's share are ready than the query returns.  (The
\* others may wait for ever: a file stays ready when it was offloaded.)
OffloadEventually ==
  \A f \in FileIds :
    LET ready == FilesReadyForCleaning(f % NumCleaners) IN
      <>[](f \in ready /\ Cardinality({g \in ready : g < f}) < CleanerLimit)
        => []<>(torrent[BagOf[f]] = "none")

-----------------------------------------------------------------------------
(* What the documentation says and the code does not do.                    *)

\* A cleaner removes the local copy of f in this step.
Offloads(f) ==
  /\ torrent[BagOf[f]] # "none" /\ torrent'[BagOf[f]] = "none"
  /\ \E k \in Cleaners : f \in cleaner[k] /\ f \notin cleaner'[k]

\* A local copy is offloaded when TargetReplicas is reached (README.md:15).  A
\* finished download makes the file active whatever its number of replicas.
OffloadOnlyWithReplicas ==
  [][\A f \in FileIds : Offloads(f) => ActiveCount(f) >= TargetReplicas[f]]_vars

\* A local copy is offloaded when the file is reliably stored in the network
\* (README.md:15): somebody else has all of it.  An auditor counts a provider
\* that is still fetching the bag as healthy, which makes its contract active.
StoredBeforeOffload ==
  [][\A f \in FileIds : Offloads(f) => held[BagOf[f]] # {}]_vars

\* The auditor fires dead providers (README.md:17).  It also fires every provider
\* of a file that was offloaded, because the torrent is no longer in memory.
OnlyDeadFired ==
  [][\A c \in ContractIds :
       contracts[c].status \in Live /\ contracts'[c].status = "failed"
         => answers[contracts[c].provider] # "good"]_vars

\* A local copy is offloaded when TargetReplicas is reached (README.md:15): also
\* if the process was restarted during a download of the file.  The row of that
\* download stays 'running', and the cleaners skip the file for ever.
OffloadAfterRestart ==
  \A f \in FileIds :
    <>[](/\ files[f] = "active" /\ ActiveCount(f) >= TargetReplicas[f]
         /\ \A c \in Clients : <<f, c>> \notin running)
      => []<>(torrent[BagOf[f]] = "none")
=============================================================================
