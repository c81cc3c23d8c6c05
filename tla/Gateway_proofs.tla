--------------------------- MODULE Gateway_proofs ---------------------------
(***************************************************************************)
(* Proofs about Gateway, for every value of its constants.                 *)
(***************************************************************************)
EXTENDS Gateway, Database_proofs

-----------------------------------------------------------------------------
(* Type correctness: the tables, then the rest of the state.               *)

LEMMA GatewayDBType == TypeOK /\ [Next]_vars => DBTypeOK'
<1> SUFFICES ASSUME TypeOK, [Next]_vars PROVE DBTypeOK'
  OBVIOUS
<1> USE DBStatementsType
<1>1. DBTypeOK /\ (UNCHANGED dbVars => DBTypeOK')
  BY DEF TypeOK
<1>2. ASSUME NEW f \in FileIds, \/ SaveFile(f) \/ CreateBag(f) \/ UploadRow(f)
                                \/ DeleteObject(f) \/ DeleteRow(f)
                                \/ AdminDeleteFile(f)
      PROVE  DBTypeOK'
  BY <1>1, <1>2
  DEF SaveFile, CreateBag, UploadRow, DeleteObject, DeleteRow, AdminDeleteFile
<1>3. ASSUME NEW f \in FileIds, Hire(f)
      PROVE  DBTypeOK'
  BY <1>1, <1>3, FindRandomProviderType DEF Hire
<1>4. ASSUME NEW c \in Clients, StartDownloadJob(c) \/ Download(c)
      PROVE  DBTypeOK'
  <2>1. CASE Finish(c)
    <3>1. client[c] \in ClientState
      BY DEF TypeOK
    <3>2. client[c].pc # "idle" => client[c].file \in FileIds
      BY <3>1 DEF ClientState, Idle
    <3> QED
      BY <1>1, <2>1, <3>2 DEF Finish
  <2>2. CASE \/ StartDownloadJob(c) \/ LookLocally(c) \/ DownloadBag(c)
             \/ FileFound(c) \/ WaitTimeout(c) \/ OpenFile(c)
    BY <1>1, <2>2
    DEF StartDownloadJob, LookLocally, DownloadBag, FileFound, WaitTimeout, OpenFile
  <2> QED
    BY <1>4, <2>1, <2>2 DEF Download
<1>5. ASSUME NEW k \in Cleaners, (\E n \in FileIds : CleanerQuery(k, n)) \/ OffloadOne(k)
      PROVE  DBTypeOK'
  BY <1>1, <1>5 DEF CleanerQuery, OffloadOne, Offload, OffloadFails
<1>6. ASSUME NEW c \in ContractIds, AuditHealthy(c) \/ AuditDead(c)
      PROVE  DBTypeOK'
  BY <1>1, <1>6
  DEF AuditHealthy, AuditDead, MarkContractActive, MarkContractFailed, ContractStatus
<1>7. CASE AuditUpdateFile
  <2>1. auditor.pc \in {"upgrade", "downgrade"} => auditor.file \in FileIds
    BY DEF TypeOK, AuditorState, Idle
  <2> QED
    BY <1>1, <1>7, <2>1 DEF AuditUpdateFile
<1>8. ASSUME \/ \E p \in Providers : ProviderChanges(p)
             \/ \E b \in Bags, p \in Providers :
                  ProviderFetches(b, p) \/ ProviderDrops(b, p)
             \/ \E b \in Bags : BagTransfer(b)
             \/ Restart \/ UNCHANGED vars
      PROVE  DBTypeOK'
  BY <1>1, <1>8
  DEF ProviderChanges, ProviderFetches, ProviderDrops, BagTransfer,
      Restart, vars
<1> QED
  BY <1>2, <1>3, <1>4, <1>5, <1>6, <1>7, <1>8 DEF Next

\* The typing of all but the tables.
RestTypeOK ==
  /\ torrent \in [Bags -> Keys \cup {"dir", "none"}]
  /\ flat \in [Keys -> Bags \cup {"torn", "none"}]
  /\ dir \in [Bags -> {"none", "partial", "complete"}]
  /\ uploading \subseteq FileIds
  /\ deleting \subseteq FileIds
  /\ running \subseteq FileIds \X Clients
  /\ stuck \subseteq FileIds
  /\ client \in [Clients -> ClientState]
  /\ cleaner \in [Cleaners -> SUBSET FileIds]
  /\ auditor \in AuditorState
  /\ answers \in [Providers -> {"none", "bad", "good"}]
  /\ held \in [Bags -> SUBSET Providers]
  /\ raced \in [Clients -> SUBSET Cleaners]
  /\ released \subseteq FileIds

LEMMA TypeParts == TypeOK <=> DBTypeOK /\ RestTypeOK
BY DEF TypeOK, RestTypeOK

LEMMA DeleteLocalType ==
  ASSUME RestTypeOK, NEW b \in Bags, DeleteLocalFile(b) \/ DeleteLocalFileFails(b)
  PROVE  /\ torrent' \in [Bags -> Keys \cup {"dir", "none"}]
         /\ flat' \in [Keys -> Bags \cup {"torn", "none"}]
         /\ dir' \in [Bags -> {"none", "partial", "complete"}]
BY DEF RestTypeOK, DeleteLocalFile, DeleteLocalFileFails, localVars

\* Clients keep to their file.
LEMMA ClientFile ==
  ASSUME RestTypeOK, NEW c \in Clients, client[c].pc # "idle"
  PROVE  /\ client[c].file \in FileIds /\ BagOf[client[c].file] \in Bags
         /\ client[c].handler \in Handlers
         /\ client[c].pc = "open" => client[c].place \in Places
<1>1. client[c] \in ClientState
  BY DEF RestTypeOK
<1> QED
  BY <1>1, BagAssumption DEF ClientState, Idle

LEMMA FileStepsRest ==
  ASSUME RestTypeOK, NEW f \in FileIds,
         \/ SaveFile(f) \/ CreateBag(f) \/ UploadRow(f) \/ DeleteObject(f)
         \/ DeleteRow(f) \/ AdminDeleteFile(f) \/ Hire(f)
  PROVE  RestTypeOK'
<1>1. BagOf[f] \in Bags /\ KeyOf[f] \in Keys
  BY BagAssumption, KeysAssumption
<1>2. CASE CreateBag(f)
  BY <1>1, <1>2 DEF CreateBag, Sharing, RestTypeOK, jobVars, networkVars
<1>8. CASE SaveFile(f)
  BY <1>1, <1>8 DEF SaveFile, RestTypeOK, requestVars, jobVars, networkVars
<1>3. CASE UploadRow(f)
  BY <1>3 DEF UploadRow, ReleaseActive, RestTypeOK, localVars, jobVars, networkVars
<1>4. CASE DeleteObject(f)
  BY <1>1, <1>4, DeleteLocalType DEF DeleteObject, RestTypeOK, jobVars, networkVars
<1>5. CASE DeleteRow(f)
  BY <1>5 DEF DeleteRow, RestTypeOK, localVars, networkVars
<1>6. CASE AdminDeleteFile(f)
  BY <1>1, <1>6, DeleteLocalType
  DEF AdminDeleteFile, RestTypeOK, requestVars, jobVars, networkVars
<1>7. CASE Hire(f)
  BY <1>7 DEF Hire, RestTypeOK, localVars, requestVars, jobVars, networkVars
<1> QED
  BY <1>2, <1>3, <1>4, <1>5, <1>6, <1>7, <1>8

LEMMA ClientStepsRest ==
  ASSUME RestTypeOK, NEW c \in Clients, StartDownloadJob(c) \/ Download(c)
  PROVE  RestTypeOK'
<1>1. \A pc \in {"look", "wait", "success", "failure"}, h \in Handlers, f \in FileIds :
        [pc |-> pc, handler |-> h, file |-> f] \in ClientState
  BY DEF ClientState
<1>2. \A h \in Handlers, f \in FileIds, place \in Places :
        [pc |-> "open", handler |-> h, file |-> f, place |-> place] \in ClientState
  BY DEF ClientState
<1>3. Idle \in ClientState
  BY DEF ClientState
<1>4. \A s \in ClientState :
        client' = [client EXCEPT ![c] = s] => client' \in [Clients -> ClientState]
  BY DEF RestTypeOK
<1>5. CASE StartDownloadJob(c)
  BY <1>1, <1>4, <1>5
  DEF StartDownloadJob, RestTypeOK, localVars, requestVars, networkVars
<1>6. CASE LookLocally(c)
  BY <1>2, <1>4, <1>6, ClientFile
  DEF LookLocally, GotoOpen, RestTypeOK, localVars, requestVars, networkVars
<1>7. CASE DownloadBag(c)
  <2>1. client' \in [Clients -> ClientState]
    BY <1>1, <1>4, <1>7, ClientFile DEF DownloadBag, Goto
  <2>2. torrent' \in [Bags -> Keys \cup {"dir", "none"}]
    BY <1>7 DEF DownloadBag, RestTypeOK
  <2> QED
    BY <1>7, <2>1, <2>2 DEF DownloadBag, RestTypeOK, requestVars, networkVars
<1>8. CASE FileFound(c)
  <2>1. client' \in [Clients -> ClientState]
    BY <1>1, <1>2, <1>4, <1>8, ClientFile DEF FileFound, Goto, GotoOpen, Places
  <2> QED
    BY <1>8, <2>1 DEF FileFound, RestTypeOK, localVars, requestVars, networkVars
<1>9. CASE WaitTimeout(c)
  <2>1. client' \in [Clients -> ClientState]
    BY <1>1, <1>4, <1>9, ClientFile DEF WaitTimeout, Goto
  <2> QED
    BY <1>9, <2>1 DEF WaitTimeout, RestTypeOK, localVars, requestVars, networkVars
<1>10. CASE OpenFile(c)
  <2>1. client' \in [Clients -> ClientState]
    BY <1>1, <1>4, <1>10, ClientFile DEF OpenFile, Goto
  <2> QED
    BY <1>10, <2>1 DEF OpenFile, RestTypeOK, localVars, requestVars, networkVars
<1>11. CASE Finish(c)
  <2>1. /\ client' \in [Clients -> ClientState] /\ stuck' \subseteq FileIds
        /\ raced' \in [Clients -> SUBSET Cleaners]
    BY <1>3, <1>4, <1>11, ClientFile DEF Finish, RestTypeOK
  <2> QED
    BY <1>11, <2>1
    DEF Finish, ReleaseActive, RestTypeOK, localVars, requestVars, networkVars
<1> QED
  BY <1>5, <1>6, <1>7, <1>8, <1>9, <1>10, <1>11 DEF Download

LEMMA OtherStepsRest ==
  ASSUME TypeOK,
         \/ \E k \in Cleaners : \/ \E n \in FileIds : CleanerQuery(k, n)
                                \/ OffloadOne(k)
         \/ \E c \in ContractIds : AuditHealthy(c) \/ AuditDead(c)
         \/ AuditUpdateFile
         \/ \E p \in Providers : ProviderChanges(p)
         \/ \E b \in Bags, p \in Providers :
              ProviderFetches(b, p) \/ ProviderDrops(b, p)
         \/ \E b \in Bags : BagTransfer(b)
         \/ Restart
  PROVE  RestTypeOK'
<1>0. DBTypeOK /\ RestTypeOK
  BY TypeParts
<1>1. ASSUME NEW k \in Cleaners, NEW n \in FileIds, CleanerQuery(k, n)
      PROVE  RestTypeOK'
  <2>1. cleaner' \in [Cleaners -> SUBSET FileIds]
    BY <1>0, <1>1 DEF CleanerQuery, RestTypeOK, Oldest, FilesReadyForCleaning
  <2> QED
    BY <1>0, <1>1, <2>1
    DEF CleanerQuery, RestTypeOK, localVars, requestVars, jobVars, networkVars
<1>2. ASSUME NEW k \in Cleaners, NEW f \in FileIds, Offload(k, f) \/ OffloadFails(k, f)
      PROVE  RestTypeOK'
  <2>1. BagOf[f] \in Bags
    BY BagAssumption
  <2>2. /\ torrent' \in [Bags -> Keys \cup {"dir", "none"}]
        /\ flat' \in [Keys -> Bags \cup {"torn", "none"}]
        /\ dir' \in [Bags -> {"none", "partial", "complete"}]
    BY <1>0, <1>2, <2>1, DeleteLocalType DEF Offload, OffloadFails
  <2>3. cleaner' \in [Cleaners -> SUBSET FileIds]
    BY <1>0, <1>2 DEF Offload, OffloadFails, RestTypeOK
  <2> QED
    BY <1>0, <1>2, <2>2, <2>3
    DEF Offload, OffloadFails, RestTypeOK, requestVars, jobVars, networkVars
<1>3. ASSUME NEW c \in ContractIds, AuditHealthy(c) \/ AuditDead(c)
      PROVE  RestTypeOK'
  <2>1. contracts[c].status \in Live => contracts[c].file \in FileIds
    BY <1>0, RowIsContract DEF ContractExists, Live, Contract
  <2>2. auditor' \in AuditorState
    BY <1>3, <2>1 DEF AuditHealthy, AuditDead, AuditorState, Live
  <2> QED
    BY <1>0, <1>3, <2>2
    DEF AuditHealthy, AuditDead, RestTypeOK, localVars, requestVars, jobVars,
        networkVars
<1>4. CASE AuditUpdateFile
  BY <1>0, <1>4
  DEF AuditUpdateFile, ReleaseActive, RestTypeOK, AuditorState, localVars,
      requestVars, jobVars, networkVars
<1>5. ASSUME NEW p \in Providers, ProviderChanges(p)
      PROVE  RestTypeOK'
  BY <1>0, <1>5
  DEF ProviderChanges, RestTypeOK, localVars, requestVars, jobVars
<1>6. ASSUME NEW b \in Bags, NEW p \in Providers,
             ProviderFetches(b, p) \/ ProviderDrops(b, p)
      PROVE  RestTypeOK'
  <2>1. held' \in [Bags -> SUBSET Providers]
    BY <1>0, <1>6 DEF ProviderFetches, ProviderDrops, RestTypeOK
  <2> QED
    BY <1>0, <1>6, <2>1
    DEF ProviderFetches, ProviderDrops, RestTypeOK, localVars, requestVars, jobVars
<1>7. ASSUME NEW b \in Bags, BagTransfer(b)
      PROVE  RestTypeOK'
  BY <1>0, <1>7
  DEF BagTransfer, RestTypeOK, requestVars, jobVars, networkVars
<1>8. CASE Restart
  <2>1. /\ Idle \in ClientState /\ Idle \in AuditorState
        /\ stuck' \subseteq FileIds
    BY <1>0, <1>8 DEF Restart, RestTypeOK, ClientState, AuditorState
  <2> QED
    BY <1>0, <1>8, <2>1 DEF Restart, RestTypeOK, localVars, networkVars
<1> QED
  BY <1>1, <1>2, <1>3, <1>4, <1>5, <1>6, <1>7, <1>8 DEF OffloadOne

LEMMA GatewayTypeInit == Init => TypeOK
<1> SUFFICES ASSUME Init PROVE TypeOK
  OBVIOUS
<1>1. DBTypeOK
  BY MaxContractsAssumption DEF Init, DBInit, DBTypeOK, FileStatus
<1>2. Idle \in ClientState /\ Idle \in AuditorState
  BY DEF ClientState, AuditorState
<1>3. RestTypeOK
  BY <1>2, CleanersAssumption DEF Init, RestTypeOK
<1> QED
  BY <1>1, <1>3, TypeParts

LEMMA GatewayTypeNext == TypeOK /\ [Next]_vars => TypeOK'
<1> SUFFICES ASSUME TypeOK, [Next]_vars PROVE TypeOK'
  OBVIOUS
<1>1. CASE UNCHANGED vars
  BY <1>1
  DEF vars, localVars, requestVars, jobVars, networkVars, TypeOK, dbVars, DBTypeOK
<1>2. CASE Next
  <2>1. RestTypeOK'
    BY <1>2, TypeParts, FileStepsRest, ClientStepsRest, OtherStepsRest DEF Next
  <2> QED
    BY <1>2, <2>1, GatewayDBType DEF TypeOK, RestTypeOK
<1> QED
  BY <1>1, <1>2

\* Every reachable state is well typed: no handler, download or cleaner stores a
\* client, a list or a row that the next step does not expect.
THEOREM GatewayTypeCorrect == Spec => []TypeOK
BY GatewayTypeInit, GatewayTypeNext, PTL DEF Spec

-----------------------------------------------------------------------------
(* JobsTracked and NoListUnderDownload.                                     *)

\* What a step does to the running rows of downloads, the clients they belong
\* to and what the cleaners listed.
Starts(c, f) ==
  /\ client[c].pc = "idle"
  /\ running' = running \cup {<<f, c>>}
  /\ client'[c].pc # "idle" /\ client'[c].file = f
  /\ \A d \in Clients \ {c} : client'[d] = client[d]
  /\ raced' = [raced EXCEPT ![c] = {k \in Cleaners : f \in cleaner[k]}]
  /\ cleaner' = cleaner

Moves(c) ==
  /\ client[c].pc # "idle"
  /\ client'[c].pc # "idle" /\ client'[c].file = client[c].file
  /\ \A d \in Clients \ {c} : client'[d] = client[d]
  /\ UNCHANGED <<running, raced, cleaner>>

Ends(c) ==
  /\ client[c].pc # "idle"
  /\ running' = running \ {<<client[c].file, c>>}
  /\ client' = [client EXCEPT ![c] = Idle]
  /\ raced' = [raced EXCEPT ![c] = {}]
  /\ cleaner' = cleaner

\* Rows and lists may go, and everything goes in a restart.
Drops ==
  /\ running' \subseteq running
  /\ running' # {} => client' = client /\ raced' = raced
  /\ \A k \in Cleaners : cleaner'[k] \subseteq cleaner[k]

Lists(k) ==
  /\ \A f \in cleaner'[k] : ~Downloading(f)
  /\ \A l \in Cleaners \ {k} : cleaner'[l] = cleaner[l]
  /\ UNCHANGED <<running, client, raced>>

LEMMA JobStep ==
  ASSUME TypeOK, [Next]_vars
  PROVE  \/ Drops
         \/ \E c \in Clients, f \in FileIds : Starts(c, f)
         \/ \E c \in Clients : Moves(c) \/ Ends(c)
         \/ \E k \in Cleaners : Lists(k)
<1>0. RestTypeOK
  BY TypeParts
<1>1. CASE UNCHANGED <<running, client, raced, cleaner>>
  BY <1>1 DEF Drops
<1>2. ASSUME NEW f \in FileIds, \/ SaveFile(f) \/ CreateBag(f) \/ UploadRow(f)
                                \/ DeleteObject(f) \/ AdminDeleteFile(f) \/ Hire(f)
      PROVE  UNCHANGED <<running, client, raced, cleaner>>
  BY <1>2
  DEF SaveFile, CreateBag, UploadRow, DeleteObject, AdminDeleteFile, Hire, jobVars
<1>3. ASSUME NEW f \in FileIds, DeleteRow(f)
      PROVE  Drops
  BY <1>3 DEF DeleteRow, Drops
<1>4. ASSUME NEW c \in Clients, StartDownloadJob(c)
      PROVE  \E f \in FileIds : Starts(c, f)
  <2>1. PICK f \in FileIds, handler \in Handlers :
          /\ running' = running \cup {<<f, c>>}
          /\ client' = [client EXCEPT ![c] =
                          [pc |-> "look", handler |-> handler, file |-> f]]
          /\ raced' = [raced EXCEPT ![c] = {k \in Cleaners : f \in cleaner[k]}]
    BY <1>4 DEF StartDownloadJob
  <2>2. client'[c].pc # "idle" /\ client'[c].file = f
    BY <1>0, <2>1 DEF RestTypeOK
  <2>3. \A d \in Clients \ {c} : client'[d] = client[d]
    BY <1>0, <2>1 DEF RestTypeOK
  <2>4. Starts(c, f)
    BY <1>4, <2>1, <2>2, <2>3 DEF StartDownloadJob, Starts
  <2> QED
    BY <2>4
<1>5. ASSUME NEW c \in Clients, Download(c), ~Finish(c)
      PROVE  Moves(c)
  <2>1. client[c].pc # "idle" /\ UNCHANGED <<running, raced, cleaner>>
    BY <1>5
    DEF Download, LookLocally, DownloadBag, FileFound, WaitTimeout, OpenFile
  <2>2. \/ \E pc \in {"wait", "success", "failure"} : Goto(c, pc)
        \/ \E place \in Places : GotoOpen(c, place)
    BY <1>5
    DEF Download, LookLocally, DownloadBag, FileFound, WaitTimeout, OpenFile, Places
  <2> QED
    BY <1>0, <2>1, <2>2 DEF Moves, Goto, GotoOpen, RestTypeOK
<1>6. ASSUME NEW c \in Clients, Finish(c)
      PROVE  Ends(c)
  BY <1>6 DEF Finish, Ends
<1>7. ASSUME NEW k \in Cleaners, NEW n \in FileIds, CleanerQuery(k, n)
      PROVE  Lists(k)
  BY <1>0, <1>7
  DEF CleanerQuery, Lists, Oldest, FilesReadyForCleaning, jobVars, RestTypeOK
<1>8. ASSUME NEW k \in Cleaners, OffloadOne(k)
      PROVE  Drops
  BY <1>0, <1>8 DEF OffloadOne, Offload, OffloadFails, Drops, jobVars, RestTypeOK
<1>9. ASSUME \/ \E c \in ContractIds : AuditHealthy(c) \/ AuditDead(c)
             \/ AuditUpdateFile
             \/ \E p \in Providers : ProviderChanges(p)
             \/ \E b \in Bags, p \in Providers :
                  ProviderFetches(b, p) \/ ProviderDrops(b, p)
             \/ \E b \in Bags : BagTransfer(b)
             \/ UNCHANGED vars
      PROVE  UNCHANGED <<running, client, raced, cleaner>>
  BY <1>9
  DEF AuditHealthy, AuditDead, AuditUpdateFile, ProviderChanges,
      ProviderFetches, ProviderDrops, BagTransfer, jobVars, vars
<1>10. CASE Restart
  BY <1>10 DEF Restart, Drops
<1> QED
  BY <1>1, <1>2, <1>3, <1>4, <1>5, <1>6, <1>7, <1>8, <1>9, <1>10 DEF Next

LEMMA JobsStep ==
  ASSUME TypeOK, JobsTracked, NoListUnderDownload, [Next]_vars
  PROVE  JobsTracked' /\ NoListUnderDownload'
<1>0. RestTypeOK
  BY TypeParts
<1>1. \A job \in running : /\ job = <<job[1], job[2]>>
                            /\ job[1] \in FileIds /\ job[2] \in Clients
                            /\ client[job[2]].pc # "idle"
                            /\ client[job[2]].file = job[1]
  BY <1>0 DEF JobsTracked, RestTypeOK
<1>2. \A k \in Cleaners : \A job \in running :
        job[1] \in cleaner[k] => k \in raced[job[2]]
  BY DEF NoListUnderDownload
<1>3. CASE Drops
  BY <1>1, <1>2, <1>3 DEF Drops, JobsTracked, NoListUnderDownload
<1>4. ASSUME NEW c \in Clients, NEW f \in FileIds, Starts(c, f)
      PROVE  JobsTracked' /\ NoListUnderDownload'
  <2>1. \A job \in running : /\ job[2] # c /\ client'[job[2]] = client[job[2]]
                              /\ raced'[job[2]] = raced[job[2]]
    BY <1>0, <1>1, <1>4 DEF Starts, RestTypeOK
  <2>2. /\ client'[c].pc # "idle" /\ client'[c].file = f
        /\ raced'[c] = {k \in Cleaners : f \in cleaner[k]}
    BY <1>0, <1>4 DEF Starts, RestTypeOK
  <2>3. /\ cleaner' = cleaner
        /\ \A job \in running' : job \in running \/ (job[1] = f /\ job[2] = c)
    BY <1>4 DEF Starts
  <2>4. JobsTracked'
    BY <1>1, <2>1, <2>2, <2>3 DEF JobsTracked
  <2>5. NoListUnderDownload'
    BY <1>2, <2>1, <2>2, <2>3 DEF NoListUnderDownload
  <2> QED
    BY <2>4, <2>5
<1>5. ASSUME NEW c \in Clients, Moves(c)
      PROVE  JobsTracked' /\ NoListUnderDownload'
  BY <1>1, <1>2, <1>5 DEF Moves, JobsTracked, NoListUnderDownload
<1>6. ASSUME NEW c \in Clients, Ends(c)
      PROVE  JobsTracked' /\ NoListUnderDownload'
  <2>1. \A job \in running' : job \in running /\ job[2] # c
    BY <1>1, <1>6 DEF Ends
  <2>2. \A job \in running' : /\ client'[job[2]] = client[job[2]]
                               /\ raced'[job[2]] = raced[job[2]]
    BY <1>0, <1>1, <1>6, <2>1 DEF Ends, RestTypeOK
  <2> QED
    BY <1>1, <1>2, <1>6, <2>1, <2>2 DEF Ends, JobsTracked, NoListUnderDownload
<1>7. ASSUME NEW k \in Cleaners, Lists(k)
      PROVE  JobsTracked' /\ NoListUnderDownload'
  <2>1. \A job \in running : Downloading(job[1])
    BY <1>1 DEF Downloading
  <2> QED
    BY <1>1, <1>2, <1>7, <2>1 DEF Lists, JobsTracked, NoListUnderDownload
<1> QED
  BY <1>3, <1>4, <1>5, <1>6, <1>7, JobStep


-----------------------------------------------------------------------------
(* CopiesKept.                                                              *)

\* The file is held for its bag, and nobody shares the bag or the path.
Own(f) ==
  torrent[BagOf[f]] = KeyOf[f] /\ flat[KeyOf[f]] = BagOf[f] /\ Sharing(f) = {}

Needed(f) == files[f] = "pending" \/ f \in uploading

\* What a step does to the torrents and to the files of the downloads directory.
LEMMA LocalStep ==
  ASSUME TypeOK, CopiesKept, [Next]_vars
  PROVE  \/ UNCHANGED <<torrent, flat>>
         \/ \E g \in FileIds : SaveFile(g) \/ CreateBag(g)
         \/ \E g \in FileIds :
              InUse(g) /\ g \in released' /\ DeleteLocalFile(BagOf[g])
         \/ \E b \in Bags : /\ torrent[b] = "none"
                          /\ torrent' = [torrent EXCEPT ![b] = "dir"]
                          /\ flat' = flat
<1> DEFINE Deletes == \E g \in FileIds :
              InUse(g) /\ g \in released' /\ DeleteLocalFile(BagOf[g])
           Loads == \E b \in Bags : /\ torrent[b] = "none"
                                 /\ torrent' = [torrent EXCEPT ![b] = "dir"]
                                 /\ flat' = flat
<1>0. RestTypeOK
  BY TypeParts
<1>1. ASSUME NEW g \in FileIds, DeleteObject(g) \/ AdminDeleteFile(g)
      PROVE  Deletes \/ UNCHANGED <<torrent, flat>>
  BY <1>1
  DEF DeleteObject, AdminDeleteFile, InUse, DeleteLocalFileFails, localVars
<1>2. ASSUME NEW g \in FileIds, UploadRow(g) \/ DeleteRow(g) \/ Hire(g)
      PROVE  UNCHANGED <<torrent, flat>>
  BY <1>2 DEF UploadRow, DeleteRow, Hire, localVars
<1>3. ASSUME NEW c \in Clients, DownloadBag(c)
      PROVE  Loads \/ UNCHANGED <<torrent, flat>>
  <2>1. PICK b \in Bags : b = BagOf[client[c].file]
    BY <1>0, <1>3, ClientFile DEF DownloadBag
  <2>2. /\ flat' = flat
        /\ \/ torrent' = [torrent EXCEPT ![b] = IF @ = "none" THEN "dir" ELSE @]
           \/ UNCHANGED torrent
    BY <1>3, <2>1 DEF DownloadBag
  <2>3. CASE torrent[b] = "none"
    BY <2>2, <2>3
  <2>4. CASE torrent[b] # "none"
    BY <1>0, <2>2, <2>4 DEF RestTypeOK
  <2> QED
    BY <2>3, <2>4
<1>4. ASSUME NEW c \in Clients, StartDownloadJob(c) \/ Download(c), ~DownloadBag(c)
      PROVE  UNCHANGED <<torrent, flat>>
  BY <1>4
  DEF StartDownloadJob, Download, LookLocally, FileFound, WaitTimeout, OpenFile,
      Finish, localVars
<1>5. ASSUME NEW k \in Cleaners, NEW n \in FileIds, CleanerQuery(k, n)
      PROVE  UNCHANGED <<torrent, flat>>
  BY <1>5 DEF CleanerQuery, localVars
<1>6. ASSUME NEW k \in Cleaners, NEW g \in FileIds, Offload(k, g) \/ OffloadFails(k, g)
      PROVE  Deletes \/ UNCHANGED <<torrent, flat>>
  BY <1>6
  DEF Offload, OffloadFails, InUse, CopiesKept, DeleteLocalFileFails, localVars
<1>7. ASSUME \/ \E c \in ContractIds : AuditHealthy(c) \/ AuditDead(c)
             \/ AuditUpdateFile
             \/ \E p \in Providers : ProviderChanges(p)
             \/ \E b \in Bags, p \in Providers :
                  ProviderFetches(b, p) \/ ProviderDrops(b, p)
             \/ \E b \in Bags : BagTransfer(b)
             \/ Restart \/ UNCHANGED vars
      PROVE  UNCHANGED <<torrent, flat>>
  BY <1>7
  DEF AuditHealthy, AuditDead, AuditUpdateFile, ProviderChanges, ProviderFetches,
      ProviderDrops, BagTransfer, Restart, vars, localVars
<1> HIDE DEF Deletes, Loads
<1>8. \/ UNCHANGED <<torrent, flat>>
      \/ \E g \in FileIds : SaveFile(g) \/ CreateBag(g)
      \/ Deletes \/ Loads
  BY <1>1, <1>2, <1>3, <1>4, <1>5, <1>6, <1>7 DEF Next, OffloadOne
<1> QED
  BY <1>8 DEF Deletes, Loads

\* A file comes into use when its bag is created.
LEMMA UseStep ==
  ASSUME TypeOK, [Next]_vars, NEW f \in FileIds, InUse(f)'
  PROVE  InUse(f) \/ CreateBag(f)
<1>0. RestTypeOK /\ DBTypeOK
  BY TypeParts
<1>1. CASE UNCHANGED <<files, uploading, cleaner>>
  BY <1>1 DEF InUse, FileExists
<1>2. ASSUME NEW g \in FileIds, CreateBag(g)
      PROVE  InUse(f) \/ CreateBag(f)
  BY <1>2 DEF CreateBag, InUse, FileExists, dbVars
<1>3. ASSUME NEW g \in FileIds, UploadRow(g)
      PROVE  InUse(f)
  BY <1>0, <1>3 DEF UploadRow, CreateFile, InUse, FileExists, dbVars, DBTypeOK
<1>4. ASSUME NEW g \in FileIds, DeleteRow(g)
      PROVE  InUse(f)
  BY <1>0, <1>4 DEF DeleteRow, DeleteFile, InUse, FileExists, dbVars, DBTypeOK
<1>5. ASSUME NEW g \in FileIds,
             SaveFile(g) \/ DeleteObject(g) \/ AdminDeleteFile(g) \/ Hire(g)
      PROVE  UNCHANGED <<files, uploading, cleaner>>
  BY <1>5
  DEF SaveFile, DeleteObject, AdminDeleteFile, Hire, RegisterContract, dbVars,
      requestVars
<1>6. ASSUME NEW c \in Clients, Finish(c)
      PROVE  InUse(f)
  BY <1>0, <1>6
  DEF Finish, FinishDownloadJob, InUse, FileExists, dbVars, requestVars, DBTypeOK
<1>7. ASSUME NEW c \in Clients, \/ StartDownloadJob(c) \/ LookLocally(c)
                                \/ DownloadBag(c) \/ FileFound(c)
                                \/ WaitTimeout(c) \/ OpenFile(c)
      PROVE  UNCHANGED <<files, uploading, cleaner>>
  BY <1>7
  DEF StartDownloadJob, LookLocally, DownloadBag, FileFound, WaitTimeout, OpenFile,
      dbVars, requestVars
<1>8. ASSUME NEW k \in Cleaners, NEW n \in FileIds, CleanerQuery(k, n)
      PROVE  InUse(f)
  <2>1. /\ files' = files /\ uploading' = uploading
        /\ \A g \in cleaner'[k] : files[g] = "active"
        /\ \A l \in Cleaners \ {k} : cleaner'[l] = cleaner[l]
    BY <1>0, <1>8
    DEF CleanerQuery, Oldest, FilesReadyForCleaning, dbVars, requestVars, RestTypeOK
  <2> QED
    BY <2>1 DEF InUse, FileExists
<1>9. ASSUME NEW k \in Cleaners, NEW g \in FileIds, Offload(k, g) \/ OffloadFails(k, g)
      PROVE  InUse(f)
  <2>1. /\ files' = files /\ uploading' = uploading
        /\ \A l \in Cleaners : cleaner'[l] \subseteq cleaner[l]
    BY <1>0, <1>9 DEF Offload, OffloadFails, dbVars, requestVars, RestTypeOK
  <2> QED
    BY <2>1 DEF InUse, FileExists
<1>10. CASE AuditUpdateFile
  BY <1>0, <1>10
  DEF AuditUpdateFile, UpgradeFileStatusIfNeeded, DowngradeFileStatusIfNeeded,
      InUse, FileExists, dbVars, requestVars, DBTypeOK
<1>11. ASSUME \/ \E c \in ContractIds : AuditHealthy(c) \/ AuditDead(c)
              \/ \E p \in Providers : ProviderChanges(p)
              \/ \E b \in Bags, p \in Providers :
                   ProviderFetches(b, p) \/ ProviderDrops(b, p)
              \/ \E b \in Bags : BagTransfer(b)
              \/ UNCHANGED vars
       PROVE  UNCHANGED <<files, uploading, cleaner>>
  BY <1>11
  DEF AuditHealthy, AuditDead, MarkContractActive, MarkContractFailed,
      SetContractStatus, ProviderChanges, ProviderFetches, ProviderDrops,
      BagTransfer, vars, dbVars, requestVars
<1>12. CASE Restart
  BY <1>12 DEF Restart, InUse, FileExists, dbVars
<1> QED
  BY <1>1, <1>2, <1>3, <1>4, <1>5, <1>6, <1>7, <1>8, <1>9, <1>10, <1>11, <1>12
  DEF Next, Download, OffloadOne

\* The sharers of a path come by the creation of a bag only.
LEMMA SharingStays ==
  ASSUME NEW f \in FileIds, Sharing(f) = {},
         \A g \in FileIds : InUse(g)' => InUse(g),
         \A g \in FileIds :
           torrent'[BagOf[g]] = KeyOf[f] => torrent[BagOf[g]] = KeyOf[f]
  PROVE  Sharing(f)' = {}
BY DEF Sharing

\* A step that leaves a file needed takes it nothing unless it releases it.
LEMMA CopyStays ==
  ASSUME TypeOK, CopiesKept, [Next]_vars, NEW f \in FileIds,
         f \notin released', Needed(f), Own(f)
  PROVE  Own(f)'
<1>0. /\ RestTypeOK /\ BagOf[f] \in Bags /\ KeyOf[f] \in Keys /\ InUse(f)
      /\ KeyOf[f] \notin {"none", "dir"}
  BY TypeParts, BagAssumption, KeysAssumption DEF Needed, InUse, FileExists
<1>1. \A g \in FileIds \ {f} :
        InUse(g) => BagOf[g] # BagOf[f] /\ torrent[BagOf[g]] # KeyOf[f]
  BY DEF Own, Sharing
<1>2. CASE \E g \in FileIds : CreateBag(g)
  <2>1. PICK g \in FileIds : CreateBag(g)
    BY <1>2
  <2>2. g # f /\ BagOf[g] \in Bags /\ KeyOf[g] \in Keys
    BY <2>1, BagAssumption, KeysAssumption DEF CreateBag, Needed
  <2>3. f \notin Sharing(g)
    BY <2>1 DEF CreateBag
  <2>4. BagOf[f] # BagOf[g] /\ KeyOf[f] # KeyOf[g]
    BY <1>0, <2>2, <2>3 DEF Sharing, Own
  <2>5. torrent'[BagOf[f]] = KeyOf[f] /\ flat'[KeyOf[f]] = BagOf[f]
    BY <1>0, <2>1, <2>2, <2>4 DEF CreateBag, RestTypeOK, Own
  <2>6. ASSUME NEW h \in FileIds \ {f}, InUse(h)'
        PROVE  BagOf[h] # BagOf[f] /\ torrent'[BagOf[h]] # KeyOf[f]
    <3>1. CASE BagOf[h] = BagOf[g]
      BY <1>0, <2>1, <2>2, <2>4, <3>1 DEF CreateBag, RestTypeOK
    <3>2. CASE BagOf[h] # BagOf[g]
      <4>1. InUse(h)
        BY <2>1, <2>6, <3>2 DEF CreateBag, InUse, FileExists, dbVars
      <4>2. BagOf[h] \in Bags
        BY BagAssumption
      <4>3. torrent'[BagOf[h]] = torrent[BagOf[h]]
        BY <1>0, <2>1, <3>2, <4>2 DEF CreateBag, RestTypeOK
      <4> QED
        BY <1>1, <4>1, <4>3
    <3> QED
      BY <3>1, <3>2
  <2>7. Sharing(f)' = {}
    BY <2>6 DEF Sharing
  <2> QED
    BY <2>5, <2>7 DEF Own
<1>3. CASE ~\E g \in FileIds : CreateBag(g)
  <2>1. \A g \in FileIds : InUse(g)' => InUse(g)
    BY <1>3, UseStep
  <2>2. CASE UNCHANGED <<torrent, flat>>
    BY <2>1, <2>2, SharingStays DEF Own
  <2>3. ASSUME NEW g \in FileIds, SaveFile(g)
        PROVE  Own(f)'
    <3>1. KeyOf[g] # KeyOf[f] /\ KeyOf[g] \in Keys
      BY <1>0, <2>3, KeysAssumption DEF SaveFile, Own
    <3>2. torrent' = torrent /\ flat'[KeyOf[f]] = flat[KeyOf[f]]
      BY <1>0, <2>3, <3>1 DEF SaveFile, RestTypeOK
    <3> QED
      BY <2>1, <3>2, SharingStays DEF Own
  <2>4. ASSUME NEW g \in FileIds, InUse(g), g \in released', DeleteLocalFile(BagOf[g])
        PROVE  Own(f)'
    <3>1. /\ BagOf[g] # BagOf[f] /\ torrent[BagOf[g]] # KeyOf[f]
          /\ BagOf[g] \in Bags
      BY <1>1, <2>4, BagAssumption
    <3>2. torrent'[BagOf[f]] = torrent[BagOf[f]] /\ flat'[KeyOf[f]] = flat[KeyOf[f]]
      BY <1>0, <2>4, <3>1 DEF DeleteLocalFile, RestTypeOK
    <3>3. ASSUME NEW h \in FileIds, torrent'[BagOf[h]] = KeyOf[f]
          PROVE  torrent[BagOf[h]] = KeyOf[f]
      <4>1. BagOf[h] \in Bags
        BY BagAssumption
      <4> QED
        BY <1>0, <2>4, <3>1, <3>3, <4>1 DEF DeleteLocalFile, RestTypeOK
    <3> QED
      BY <2>1, <3>2, <3>3, SharingStays DEF Own
  <2>5. ASSUME NEW b \in Bags, torrent[b] = "none", flat' = flat,
               torrent' = [torrent EXCEPT ![b] = "dir"]
        PROVE  Own(f)'
    <3>1. torrent'[BagOf[f]] = torrent[BagOf[f]]
      BY <1>0, <2>5 DEF RestTypeOK, Own
    <3>2. ASSUME NEW h \in FileIds, torrent'[BagOf[h]] = KeyOf[f]
          PROVE  torrent[BagOf[h]] = KeyOf[f]
      <4>1. BagOf[h] \in Bags
        BY BagAssumption
      <4> QED
        BY <1>0, <2>5, <3>2, <4>1 DEF RestTypeOK
    <3> QED
      BY <2>1, <2>5, <3>1, <3>2, SharingStays DEF Own
  <2> QED
    BY <1>3, <2>2, <2>3, <2>4, <2>5, LocalStep
<1> QED
  BY <1>2, <1>3

\* The bag of an upload is created under its own key.
LEMMA CopyBegins ==
  ASSUME TypeOK, [Next]_vars, NEW f \in FileIds, CreateBag(f), f \notin released'
  PROVE  Own(f)'
<1>0. RestTypeOK /\ BagOf[f] \in Bags /\ KeyOf[f] \in Keys
  BY TypeParts, BagAssumption, KeysAssumption
<1>1. torrent'[BagOf[f]] = KeyOf[f] /\ flat'[KeyOf[f]] = BagOf[f]
  BY <1>0 DEF CreateBag, RestTypeOK
<1>2. Sharing(f) = {}
  BY DEF CreateBag
<1>3. ASSUME NEW h \in FileIds \ {f}, InUse(h)'
      PROVE  BagOf[h] # BagOf[f] /\ torrent'[BagOf[h]] # KeyOf[f]
  <2>1. InUse(h)
    BY <1>3 DEF CreateBag, InUse, FileExists, dbVars
  <2>2. BagOf[h] # BagOf[f] /\ torrent[BagOf[h]] # KeyOf[f] /\ BagOf[h] \in Bags
    BY <1>2, <2>1, BagAssumption DEF Sharing
  <2> QED
    BY <1>0, <2>2 DEF CreateBag, RestTypeOK
<1> QED
  BY <1>1, <1>3 DEF Own, Sharing

\* Files are never taken back, and an active one is released.
LEMMA ReleasedStep ==
  ASSUME TypeOK, CopiesKept, [Next]_vars
  PROVE  /\ released \subseteq released'
         /\ \A f \in FileIds : files'[f] = "active" => f \in released'
         /\ \A k \in Cleaners : cleaner'[k] \subseteq released'
<1> DEFINE Quiet ==
             /\ released \subseteq released'
             /\ \A f \in FileIds : files'[f] = "active" => files[f] = "active"
             /\ \A k \in Cleaners : cleaner'[k] \subseteq cleaner[k]
<1>0. RestTypeOK /\ DBTypeOK
  BY TypeParts
<1>1. CASE Quiet
  <2>1. \A f \in FileIds : files'[f] = "active" => f \in released'
    BY <1>1 DEF CopiesKept
  <2>2. ASSUME NEW k \in Cleaners
        PROVE  cleaner'[k] \subseteq released'
    <3>1. cleaner'[k] \subseteq cleaner[k] /\ cleaner[k] \subseteq released
      BY <1>1 DEF CopiesKept
    <3> QED
      BY <1>1, <3>1
  <2> QED
    BY <1>1, <2>1, <2>2
<1>2. CASE ReleaseActive /\ cleaner' = cleaner
  BY <1>2 DEF ReleaseActive, CopiesKept
<1>3. ASSUME NEW f \in FileIds, \/ SaveFile(f) \/ CreateBag(f) \/ DeleteObject(f)
                                \/ DeleteRow(f) \/ AdminDeleteFile(f) \/ Hire(f)
      PROVE  Quiet
  BY <1>0, <1>3
  DEF SaveFile, CreateBag, DeleteObject, DeleteRow, DeleteFile, AdminDeleteFile, Hire,
      RegisterContract, dbVars, DBTypeOK
<1>4. ASSUME NEW f \in FileIds, UploadRow(f)
      PROVE  ReleaseActive /\ cleaner' = cleaner
  BY <1>4 DEF UploadRow
<1>5. ASSUME NEW c \in Clients, Finish(c)
      PROVE  ReleaseActive /\ cleaner' = cleaner
  BY <1>5 DEF Finish
<1>6. CASE AuditUpdateFile
  BY <1>2, <1>6 DEF AuditUpdateFile
<1>7. ASSUME NEW c \in Clients, \/ StartDownloadJob(c) \/ LookLocally(c)
                                \/ DownloadBag(c) \/ FileFound(c)
                                \/ WaitTimeout(c) \/ OpenFile(c)
      PROVE  Quiet
  BY <1>7
  DEF StartDownloadJob, LookLocally, DownloadBag, FileFound, WaitTimeout, OpenFile,
      dbVars
<1>8. ASSUME NEW k \in Cleaners, NEW n \in FileIds, CleanerQuery(k, n)
      PROVE  /\ files' = files /\ released' = released
             /\ \A l \in Cleaners : cleaner'[l] \subseteq released
  <2>1. /\ files' = files /\ released' = released
        /\ \A f \in cleaner'[k] : files[f] = "active" /\ f \in FileIds
        /\ \A l \in Cleaners \ {k} : cleaner'[l] = cleaner[l]
    BY <1>0, <1>8
    DEF CleanerQuery, Oldest, FilesReadyForCleaning, dbVars, RestTypeOK
  <2> QED
    BY <2>1 DEF CopiesKept
<1>9. ASSUME NEW k \in Cleaners, NEW f \in FileIds, Offload(k, f) \/ OffloadFails(k, f)
      PROVE  Quiet
  BY <1>0, <1>9 DEF Offload, OffloadFails, dbVars, RestTypeOK
<1>10. ASSUME NEW c \in ContractIds, AuditHealthy(c) \/ AuditDead(c)
       PROVE  Quiet
  BY <1>10
  DEF AuditHealthy, AuditDead, MarkContractActive, MarkContractFailed,
      SetContractStatus
<1>11. ASSUME \/ \E p \in Providers : ProviderChanges(p)
              \/ \E b \in Bags, p \in Providers :
                   ProviderFetches(b, p) \/ ProviderDrops(b, p)
              \/ \E b \in Bags : BagTransfer(b)
              \/ UNCHANGED vars
       PROVE  Quiet
  BY <1>11
  DEF ProviderChanges, ProviderFetches, ProviderDrops, BagTransfer,
      vars, dbVars
<1>12. CASE Restart
  BY <1>1, <1>12 DEF Restart, dbVars
<1> HIDE DEF Quiet
<1>13. CASE \E k \in Cleaners : \E n \in FileIds : CleanerQuery(k, n)
  BY <1>8, <1>13 DEF CopiesKept
<1> QED
  BY <1>1, <1>2, <1>3, <1>4, <1>5, <1>6, <1>7, <1>9, <1>10, <1>11, <1>12, <1>13
  DEF Next, Download, OffloadOne

\* A file becomes pending by the insertion of its row or from active, and an
\* upload begins with its bag.
LEMMA NeedsCopy ==
  ASSUME TypeOK, [Next]_vars, NEW f \in FileIds,
         Needed(f)'
  PROVE  files[f] = "active" \/ Needed(f) \/ CreateBag(f)
<1>0. RestTypeOK /\ DBTypeOK /\ (files'[f] = "pending" \/ f \in uploading')
  BY TypeParts DEF Needed
<1> DEFINE Before == files[f] \in {"pending", "active"} \/ f \in uploading
<1>1. ASSUME UNCHANGED <<files, uploading>>
      PROVE  Before
  BY <1>0, <1>1
<1>3. ASSUME NEW g \in FileIds, CreateBag(g), g # f
      PROVE  Before
  BY <1>0, <1>3 DEF CreateBag, dbVars
<1>4. ASSUME NEW g \in FileIds, UploadRow(g)
      PROVE  Before
  BY <1>0, <1>4 DEF UploadRow, CreateFile, dbVars, DBTypeOK
<1>5. ASSUME NEW g \in FileIds, DeleteRow(g)
      PROVE  Before
  BY <1>0, <1>5 DEF DeleteRow, DeleteFile, dbVars, DBTypeOK
<1>6. ASSUME NEW g \in FileIds,
             SaveFile(g) \/ DeleteObject(g) \/ AdminDeleteFile(g) \/ Hire(g)
      PROVE  UNCHANGED <<files, uploading>>
  BY <1>6
  DEF SaveFile, DeleteObject, AdminDeleteFile, Hire, RegisterContract, dbVars,
      requestVars
<1>7. ASSUME NEW c \in Clients, StartDownloadJob(c) \/ Download(c)
      PROVE  Before
  <2>1. CASE Finish(c)
    BY <1>0, <2>1
    DEF Finish, FinishDownloadJob, FileExists, dbVars, requestVars, DBTypeOK
  <2>2. CASE \/ StartDownloadJob(c) \/ LookLocally(c) \/ DownloadBag(c)
             \/ FileFound(c) \/ WaitTimeout(c) \/ OpenFile(c)
    BY <1>1, <2>2
    DEF StartDownloadJob, LookLocally, DownloadBag, FileFound, WaitTimeout, OpenFile,
        dbVars, requestVars
  <2> QED
    BY <1>7, <2>1, <2>2 DEF Download
<1>8. ASSUME NEW k \in Cleaners, (\E n \in FileIds : CleanerQuery(k, n)) \/ OffloadOne(k)
      PROVE  UNCHANGED <<files, uploading>>
  BY <1>8 DEF CleanerQuery, OffloadOne, Offload, OffloadFails, dbVars, requestVars
<1>9. ASSUME NEW c \in ContractIds, AuditHealthy(c) \/ AuditDead(c)
      PROVE  UNCHANGED <<files, uploading>>
  BY <1>9
  DEF AuditHealthy, AuditDead, MarkContractActive, MarkContractFailed,
      SetContractStatus, requestVars
<1>10. ASSUME AuditUpdateFile
       PROVE  Before
  BY <1>0, <1>10
  DEF AuditUpdateFile, UpgradeFileStatusIfNeeded, DowngradeFileStatusIfNeeded,
      dbVars, requestVars, DBTypeOK
<1>11. ASSUME \/ \E p \in Providers : ProviderChanges(p)
              \/ \E b \in Bags, p \in Providers :
                   ProviderFetches(b, p) \/ ProviderDrops(b, p)
              \/ \E b \in Bags : BagTransfer(b)
              \/ UNCHANGED vars
       PROVE  UNCHANGED <<files, uploading>>
  BY <1>11
  DEF ProviderChanges, ProviderFetches, ProviderDrops, BagTransfer,
      vars, dbVars, requestVars
<1>12. ASSUME Restart
       PROVE  Before
  BY <1>0, <1>12 DEF Restart, dbVars
<1>13. Before \/ CreateBag(f)
  BY <1>1, <1>3, <1>4, <1>5, <1>6, <1>7, <1>8, <1>9, <1>10, <1>11, <1>12 DEF Next
<1> QED
  BY <1>13 DEF Needed

LEMMA CopiesStep ==
  ASSUME TypeOK, CopiesKept, [Next]_vars
  PROVE  CopiesKept'
<1>1. /\ released \subseteq released'
      /\ \A f \in FileIds : files'[f] = "active" => f \in released'
      /\ \A k \in Cleaners : cleaner'[k] \subseteq released'
  BY ReleasedStep
<1>2. ASSUME NEW f \in FileIds, Needed(f)', f \notin released'
      PROVE  Own(f)'
  <2>1. f \notin released /\ files[f] # "active"
    BY <1>1, <1>2 DEF CopiesKept
  <2>2. CASE Needed(f)
    <3>1. Own(f)
      BY <2>1, <2>2 DEF CopiesKept, Needed, Own
    <3> QED
      BY <1>2, <2>2, <3>1, CopyStays
  <2>3. CASE CreateBag(f)
    BY <1>2, <2>3, CopyBegins
  <2> QED
    BY <1>2, <2>1, <2>2, <2>3, NeedsCopy
<1> QED
  BY <1>1, <1>2 DEF CopiesKept, Needed, Own

LEMMA GatewayInit == Init => GatewayInv
<1> SUFFICES ASSUME Init PROVE GatewayInv
  OBVIOUS
<1>1. JobsTracked /\ NoListUnderDownload
  BY DEF Init, JobsTracked, NoListUnderDownload
<1>2. CopiesKept
  BY DEF Init, DBInit, CopiesKept
<1> QED
  BY <1>1, <1>2, GatewayTypeInit DEF GatewayInv

DownloadsInv == TypeOK /\ JobsTracked /\ NoListUnderDownload

LEMMA DownloadsNext == DownloadsInv /\ [Next]_vars => DownloadsInv'
BY GatewayTypeNext, JobsStep DEF DownloadsInv

LEMMA GatewayNext == GatewayInv /\ [Next]_vars => GatewayInv'
<1> SUFFICES ASSUME GatewayInv, [Next]_vars PROVE GatewayInv'
  OBVIOUS
<1>1. TypeOK' /\ JobsTracked' /\ NoListUnderDownload'
  BY GatewayTypeNext, JobsStep DEF GatewayInv
<1>2. CopiesKept'
  BY CopiesStep DEF GatewayInv
<1> QED
  BY <1>1, <1>2 DEF GatewayInv

\* No handler forgets its download, whatever fails, is deleted or restarted.
THEOREM JobsTrackedCorrect == Spec => []JobsTracked
<1>1. /\ Init => DownloadsInv
      /\ DownloadsInv => JobsTracked
  BY GatewayInit DEF GatewayInv, DownloadsInv
<1> QED
  BY <1>1, DownloadsNext, PTL DEF Spec

\* A cleaner that offloads a file under a download had listed it before.
THEOREM NoListUnderDownloadCorrect == Spec => []NoListUnderDownload
<1>1. /\ Init => DownloadsInv
      /\ DownloadsInv => NoListUnderDownload
  BY GatewayInit DEF GatewayInv, DownloadsInv
<1> QED
  BY <1>1, DownloadsNext, PTL DEF Spec

\* The inductive invariant of the gateway, as the run checks it.
THEOREM GatewayInvariant == Spec => []GatewayInv
BY GatewayInit, GatewayNext, PTL DEF Spec

\* The gateway keeps the whole copy of a file that its providers have yet to fetch,
\* against every order of cleaners, downloads, deletions and uploads of other files,
\* and restarts; unless another upload wrote over it or shares its bag or path.
THEOREM PendingKeepsCopyCorrect == Spec => []PendingKeepsCopy
<1>1. GatewayInv => PendingKeepsCopy
  BY KeysAssumption DEF GatewayInv, CopiesKept, PendingKeepsCopy, Seeds
<1> QED
  BY <1>1, GatewayInvariant, PTL

-----------------------------------------------------------------------------
(* The daemons of Replication in place of the ones here.                    *)

\* A step of a worker on the tables: contracts of any kind come, go and change,
\* and rows of files change their status.  FilesComeAndGo says of Replication
\* that its workers, its admins and its downloads do no more than this.
AnyDaemon ==
  /\ OnlyStatus /\ DBTypeOK'
  /\ ReleaseActive
  /\ UNCHANGED <<localVars, requestVars, jobVars, cleaner, auditor, networkVars>>

OpenSpec == Init /\ [][Next \/ AnyDaemon]_vars

LEMMA AnyDaemonStep ==
  ASSUME GatewayInv, AnyDaemon
  PROVE  GatewayInv'
<1>1. TypeOK /\ RestTypeOK /\ CopiesKept
  BY TypeParts DEF GatewayInv
<1>2. released \subseteq released' /\ released' \subseteq FileIds
  BY <1>1 DEF AnyDaemon, ReleaseActive, RestTypeOK
<1>3. TypeOK'
  <2>1. RestTypeOK'
    BY <1>1, <1>2
    DEF AnyDaemon, RestTypeOK, localVars, requestVars, jobVars, networkVars
  <2> QED
    BY <2>1, TypeParts DEF AnyDaemon, TypeOK, RestTypeOK
<1>4. JobsTracked' /\ NoListUnderDownload'
  BY DEF GatewayInv, AnyDaemon, JobsTracked, NoListUnderDownload, jobVars
<1>5. \A f \in FileIds : files'[f] = "active" => f \in released'
  BY DEF AnyDaemon, ReleaseActive
<1>6. \A k \in Cleaners : cleaner'[k] \subseteq released'
  BY <1>1, <1>2 DEF AnyDaemon, CopiesKept
<1>7. ASSUME NEW f \in FileIds, Needed(f)', f \notin released'
      PROVE  Own(f)'
  <2>1. f \notin released /\ files[f] # "active"
    BY <1>1, <1>2, <1>7 DEF CopiesKept
  <2>2. Needed(f)
    BY <1>7, <2>1 DEF Needed, AnyDaemon, OnlyStatus, requestVars
  <2>3. Own(f)
    BY <1>1, <2>1, <2>2 DEF CopiesKept, Needed, Own
  <2>4. \A g \in FileIds : InUse(g)' => InUse(g)
    BY DEF AnyDaemon, OnlyStatus, InUse, FileExists, requestVars
  <2>5. UNCHANGED <<torrent, flat>>
    BY DEF AnyDaemon, localVars
  <2> QED
    BY <2>3, <2>4, <2>5, SharingStays DEF Own
<1>8. CopiesKept'
  BY <1>5, <1>6, <1>7 DEF CopiesKept, Needed, Own
<1> QED
  BY <1>3, <1>4, <1>8 DEF GatewayInv

\* The gateway keeps its jobs and the copies of pending files whatever daemons
\* work beside it, in any number and any interleaving, as long as they leave the
\* coming and going of files to uploads and deletions.
THEOREM OpenGatewayKeepsCopy == OpenSpec => [](GatewayInv /\ PendingKeepsCopy)
<1>1. GatewayInv /\ [Next \/ AnyDaemon]_vars => GatewayInv'
  <2>1. GatewayInv /\ [Next]_vars => GatewayInv'
    BY GatewayNext
  <2>2. GatewayInv /\ AnyDaemon => GatewayInv'
    BY AnyDaemonStep
  <2> QED
    BY <2>1, <2>2
<1>2. GatewayInv => PendingKeepsCopy
  BY KeysAssumption DEF GatewayInv, CopiesKept, PendingKeepsCopy, Seeds
<1> QED
  BY <1>1, <1>2, GatewayInit, PTL DEF OpenSpec

-----------------------------------------------------------------------------
(* The part of OffloadEventually that takes no fairness.                    *)

\* An active file that nobody downloads is in the next batch of its cleaner, once
\* it is old enough, if no more than CleanerLimit files of the share are as old and
\* idle (the offloaded ones among them); and to offload it leaves its bag without
\* a torrent.
THEOREM IdleIsListed ==
  ASSUME TypeOK, NumCleaners # 0, NEW f \in FileIds,
         files[f] = "active", ~Downloading(f), NEW n \in FileIds, f <= n
  PROVE  \E k \in Cleaners :
           LET F == {g \in FilesReadyForCleaning(k) : g <= n} IN
             /\ Cardinality(F) <= CleanerLimit => f \in Oldest(F)
             /\ Offload(k, f) => torrent'[BagOf[f]] = "none"
<1> DEFINE k == f % NumCleaners
           F == {g \in FilesReadyForCleaning(k) : g <= n}
           Older == {g \in F : g < f}
<1>1. f \in Nat /\ n \in Nat /\ NumCleaners \in Nat \ {0} /\ CleanerLimit \in Nat
  BY FileIdsAssumption, CleanersAssumption
<1>2. k \in Cleaners
  BY <1>1 DEF Cleaners
<1>3. f \in F
  BY DEF FilesReadyForCleaning, InShare
<1>4. IsFiniteSet(F)
  <2>1. F \subseteq 0 .. n
    <3>1. \A g \in F : g \in FileIds /\ g <= n
      BY DEF FilesReadyForCleaning
    <3>2. \A g \in FileIds : g \in Nat
      BY FileIdsAssumption
    <3> HIDE DEF F
    <3>3. ASSUME NEW g \in F
          PROVE  g \in 0 .. n
      <4>1. g \in Nat /\ g <= n
        BY <3>1, <3>2
      <4>2. n \in Nat
        BY <1>1
      <4> HIDE DEF k, Older
      <4> QED
        BY <4>1, <4>2
    <3> QED
      BY <3>3
  <2>2. IsFiniteSet(0 .. n)
    BY <1>1, FS_Interval
  <2> QED
    BY <2>1, <2>2, FS_Subset
<1>5. ASSUME Cardinality(F) <= CleanerLimit
      PROVE  f \in Oldest(F)
  <2>1. IsFiniteSet(F \ {f}) /\ Cardinality(F \ {f}) = Cardinality(F) - 1
    BY <1>3, <1>4, FS_RemoveElement
  <2>2. Older \subseteq F \ {f}
    BY <1>1
  <2>3. /\ Cardinality(Older) \in Nat /\ Cardinality(F) \in Nat
        /\ Cardinality(Older) <= Cardinality(F \ {f})
    BY <1>4, <2>1, <2>2, FS_Subset, FS_CardinalityType
  <2>4. Cardinality(Older) < CleanerLimit
    BY <1>1, <1>5, <2>1, <2>3
  <2> QED
    BY <1>3, <2>4 DEF Oldest
<1>6. ASSUME Offload(k, f)
      PROVE  torrent'[BagOf[f]] = "none"
  BY <1>6, BagAssumption DEF TypeOK, Offload, DeleteLocalFile, localVars
<1> QED
  BY <1>2, <1>5, <1>6
=============================================================================
