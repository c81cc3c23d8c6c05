---------------------------- MODULE ObjectStore ----------------------------
(***************************************************************************)
(* Objects, their rows, and the files on disk behind them: PutObject,      *)
(* GetObject, DeleteObject and the buckets (internal/s3), and the admin's  *)
(* uploadFile, downloadFile, restoreFile and deleteFile (internal/api).    *)
(*                                                                         *)
(* An object is named by a bucket and a key.  Its data is written to a     *)
(* path that depends on the KEY alone; a bag is what CreateBag makes of    *)
(* that file, so objects with one key and one content share one bag.       *)
(*                                                                         *)
(* A request takes one step per statement, per call of the storage library *)
(* and per operation on the file system.  Status, replicas and download    *)
(* jobs are the subject of modules Gateway and Replication: here any object*)
(* may be listed for offloading, and what is asked of the network may come.*)
(***************************************************************************)
EXTENDS Integers, FiniteSets

CONSTANTS
  Buckets, Keys,
  Contents,        \* what a client may send
  Requests,        \* HTTP requests that are served at the same time
  MaxWrites        \* bound on the requests that write

ASSUME WritesAssumption == MaxWrites \in Nat
\* What a client sends is none of the marks below.
ASSUME ContentsAssumption ==
  Contents \cap {"empty", "torn", "none", "self"} = {}

Objects == Buckets \X Keys

\* A file that was created and not written yet, and one that holds anything but
\* what one client sent.
Empty == "empty"
Torn == "torn"
None == "none"

\* What a copy has to write when it reads the file at the path it will write to.
Self == "self"

FileContents == Contents \cup {Empty, Torn}
Payloads == Contents \cup {Torn, Self}
Content(c) == IF c = Empty THEN Torn ELSE c
Bags == [key : Keys, content : Contents \cup {Torn}]
NoBag == [key |-> None, content |-> None]

VARIABLES
  buckets,         \* rows of table buckets
  rows,            \* [Objects -> bag of the row in table files, or NoBag]
  flat,            \* [Keys -> content of <downloads>/<key>, or None]
  fetched,         \* [Bags -> how much of the bag is in a directory of its own]
  torrent,         \* [Bags -> where the loaded torrent has its data, or None]
  listed,          \* bags that a cleaner or deleteFile will delete from the disk
  request,         \* [Requests -> what it is about]
  writes,          \* requests that write, so far
  rivals,          \* history: [Requests -> buckets of the requests for the same
                   \* key that were at work during this one, and of the objects
                   \* of that key that there were when it created its file]
  touched,         \* history: [Objects -> buckets of the requests for the same
                   \* key that were at work since the object was put]
  sent,            \* history: [Objects -> content its client sent or copied]
  offloaded        \* history: keys of the bags they deleted since the last
                   \* CreateBag for the key

tableVars == <<buckets, rows>>
diskVars == <<flat, fetched>>
historyVars == <<rivals, touched, sent>>
cleanerVars == <<listed, offloaded>>
vars == <<tableVars, diskVars, torrent, request, writes, historyVars, cleanerVars>>

Idle == [pc |-> "idle"]

Writing ==
  {"lookup", "deleteLocal", "deleteRow", "create", "copy", "bag", "insert"}

RequestState ==
  {Idle}
  \cup [pc : Writing \ {"deleteLocal", "insert"},
        object : Objects, content : Payloads \cup {None}]
  \cup [pc : {"deleteLocal", "insert"},
        object : Objects, content : Payloads \cup {None}, bag : Bags]
  \cup [pc : {"look", "wait", "find", "restore"}, object : Objects, bag : Bags]
  \cup [pc : {"open"}, object : Objects, bag : Bags, from : {"flat", "fetched"}]

TypeOK ==
  /\ buckets \subseteq Buckets
  /\ rows \in [Objects -> Bags \cup {NoBag}]
  /\ flat \in [Keys -> FileContents \cup {None}]
  /\ fetched \in [Bags -> {"part", "whole", None}]
  /\ torrent \in [Bags -> {"flat", "fetched", None}]
  /\ listed \subseteq Bags
  /\ request \in [Requests -> RequestState]
  /\ writes \in 0..MaxWrites
  /\ rivals \in [Requests -> SUBSET Buckets]
  /\ touched \in [Objects -> SUBSET Buckets]
  /\ sent \in [Objects -> Payloads \cup {None}]
  /\ offloaded \subseteq Keys

Init ==
  /\ buckets = {}
  /\ rows = [o \in Objects |-> NoBag]
  /\ flat = [k \in Keys |-> None]
  /\ fetched = [b \in Bags |-> None]
  /\ torrent = [b \in Bags |-> None]
  /\ listed = {}
  /\ request = [r \in Requests |-> Idle]
  /\ writes = 0
  /\ rivals = [w \in Requests |-> {}]
  /\ touched = [o \in Objects |-> {}]
  /\ sent = [o \in Objects |-> None]
  /\ offloaded = {}

BucketOf(o) == o[1]
KeyOf(o) == o[2]

Exists(o) == rows[o] # NoBag

\* The objects of key k, whatever their bucket.
Put(k) == {o \in Objects : KeyOf(o) = k /\ Exists(o)}

\* The requests at work that write to key k.
AtWork(k) ==
  {w \in Requests : request[w].pc \in Writing /\ KeyOf(request[w].object) = k}

\* The file has its whole content, and it is the bag's.
Seeds(b) ==
  \/ torrent[b] = "flat" /\ flat[b.key] = b.content
  \/ torrent[b] = "fetched" /\ fetched[b] = "whole"

\* Service.DeleteLocalFile: a loaded torrent is removed with the files it was
\* made of, whatever they contain by now.
DeleteLocalFile(b) ==
  /\ torrent' = [torrent EXCEPT ![b] = None]
  /\ flat' = IF torrent[b] = "flat" THEN [flat EXCEPT ![b.key] = None] ELSE flat
  /\ fetched' = IF torrent[b] = "fetched" THEN [fetched EXCEPT ![b] = None]
                                         ELSE fetched

\* "failed to remove torrent"
DeleteLocalFileFails(b) == torrent[b] # None /\ UNCHANGED <<diskVars, torrent>>

\* The requests when DeleteLocalFile(b) has unlinked the file: a copy that reads
\* it has it open still.
Unlinked(b) ==
  [w \in Requests |->
     IF /\ torrent[b] = "flat"
        /\ w \in AtWork(b.key) /\ request[w].content = Self
     THEN [request[w] EXCEPT !.content = Content(flat[b.key])] ELSE request[w]]

\* The rows of the objects in os are deleted.
DeleteRows(os) ==
  /\ rows' = [o \in Objects |-> IF o \in os THEN NoBag ELSE rows[o]]
  /\ sent' = [o \in Objects |-> IF o \in os THEN None ELSE sent[o]]
  /\ touched' = [o \in Objects |-> IF o \in os THEN {} ELSE touched[o]]

-----------------------------------------------------------------------------
(* Buckets.                                                                 *)

CreateBucket(b) ==
  /\ b \notin buckets
  /\ buckets' = buckets \cup {b}
  /\ UNCHANGED <<rows, diskVars, torrent, writes, request, historyVars, cleanerVars>>

\* DeleteBucket and ForceDeleteBucket: the foreign key takes the rows of the
\* bucket's objects along; their data and torrents stay.
DeleteBucket(b) ==
  /\ b \in buckets
  /\ buckets' = buckets \ {b}
  /\ DeleteRows({o \in Objects : BucketOf(o) = b})
  /\ UNCHANGED <<diskVars, torrent, writes, request, rivals, cleanerVars>>

-----------------------------------------------------------------------------
(* PutObject, DeleteObject and uploadFile.                                  *)

\* A request for object o begins: it may meet the others for the same key.
Begin(w, o, pc, content) ==
  /\ writes < MaxWrites
  /\ writes' = writes + 1
  /\ request' = [request EXCEPT ![w] =
                   [pc |-> pc, object |-> o, content |-> content]]
  /\ LET others == AtWork(KeyOf(o)) IN
       rivals' = [v \in Requests |->
                    IF v = w THEN {BucketOf(request[u].object) : u \in others}
                    ELSE IF v \in others THEN rivals[v] \cup {BucketOf(o)}
                    ELSE rivals[v]]
  /\ touched' = [p \in Objects |->
                   IF p \in Put(KeyOf(o)) THEN touched[p] \cup {BucketOf(o)}
                                          ELSE touched[p]]
  /\ UNCHANGED <<diskVars, torrent, sent, cleanerVars>>

PutObject(w, o, content) ==
  /\ request[w] = Idle
  /\ BucketOf(o) \in buckets
  /\ Begin(w, o, "lookup", content)
  /\ UNCHANGED tableVars

\* DeleteMulti calls it for each of its objects.
DeleteObject(w, o) ==
  /\ request[w] = Idle
  /\ Begin(w, o, "lookup", None)
  /\ UNCHANGED tableVars

\* uploadFile creates a missing bucket and ignores the error of doing so.  It
\* never looks whether the object is there already.
UploadFile(w, o, content) ==
  /\ request[w] = Idle
  /\ Begin(w, o, "create", content)
  /\ UNCHANGED rows
  /\ buckets' = buckets \cup {BucketOf(o)} \/ UNCHANGED buckets

Goto(w, pc) ==
  request' = [request EXCEPT ![w] = [pc |-> pc, object |-> @.object,
                                   content |-> @.content]]

Step(w, pc) == Goto(w, pc) /\ UNCHANGED rivals

StepWith(w, pc, bag) ==
  /\ request' = [request EXCEPT ![w] = [pc |-> pc, object |-> @.object,
                                      content |-> @.content, bag |-> bag]]
  /\ UNCHANGED rivals

Return(w) ==
  /\ request' = [request EXCEPT ![w] = Idle]
  /\ rivals' = [rivals EXCEPT ![w] = {}]

\* The rest of the request when there is nothing (more) to delete.
NothingToDelete(w) ==
  IF request[w].content = None THEN Return(w) ELSE Step(w, "create")

\* GetFileMeta; an error of the database counts as "no such object".
Lookup(w) ==
  /\ request[w].pc = "lookup"
  /\ LET o == request[w].object IN
       \/ Exists(o) /\ StepWith(w, "deleteLocal", rows[o])
       \/ NothingToDelete(w)
  /\ UNCHANGED <<tableVars, diskVars, torrent, writes, touched, sent, cleanerVars>>

\* The first half of DeleteObject; its error is only a warning.
DeleteLocal(w) ==
  /\ request[w].pc = "deleteLocal"
  /\ LET b == request[w].bag IN
       \/ /\ DeleteLocalFile(b)
          /\ request' = [Unlinked(b) EXCEPT ![w] =
                           [pc |-> "deleteRow", object |-> @.object,
                            content |-> @.content]]
       \/ DeleteLocalFileFails(b) /\ Goto(w, "deleteRow")
  /\ UNCHANGED <<tableVars, writes, historyVars, cleanerVars>>

\* The second half: whatever row the name has by now.  PutObject goes on even if
\* the row could not be deleted.
DeleteRow(w) ==
  /\ request[w].pc = "deleteRow"
  /\ DeleteRows({request[w].object}) \/ UNCHANGED <<rows, touched, sent>>
  /\ NothingToDelete(w)
  /\ UNCHANGED <<buckets, diskVars, torrent, writes, cleanerVars>>

\* os.Create truncates the file that is there.
CreateLocal(w) ==
  /\ request[w].pc = "create"
  /\ LET k == KeyOf(request[w].object) IN
       \/ /\ flat' = [flat EXCEPT ![k] = Empty]
          /\ rivals' = [rivals EXCEPT ![w] =
                          @ \cup {BucketOf(o) : o \in Put(k)}]
          /\ Goto(w, "copy")
       \/ Return(w) /\ UNCHANGED flat
  /\ UNCHANGED <<tableVars, fetched, torrent, writes, touched, sent, cleanerVars>>

\* What the file at the path holds after w has written some of its content: the
\* file may have been removed, or made anew by another request, since.
WrittenPartly(w) ==
  LET k == KeyOf(request[w].object) IN
    IF flat[k] = None THEN {None} ELSE {Torn, flat[k]}

\* Mutant of Written: the file is not truncated when it is created.
Written_NoTruncate(w) == WrittenPartly(w) \cup ({request[w].content} \ {Self})

\* The same after w has written all of it: its content, if the file was empty
\* and nobody else writes to it, else perhaps a mixture.  A copy that reads the
\* file it truncated finds nothing there, and fails.
Written(w) ==
  LET k == KeyOf(request[w].object)
      alone == \A v \in AtWork(k) \ {w} : request[v].pc # "copy"
      whole == {request[w].content} \ {Self}
  IN  IF flat[k] = Empty /\ alone THEN whole
      ELSE WrittenPartly(w) \cup {c \in whole : flat[k] # None}

\* io.Copy; a client that hangs up, or a copy that breaks off, leaves what was
\* written.
CopyInput(w) ==
  /\ request[w].pc = "copy"
  /\ LET k == KeyOf(request[w].object) IN
       \/ /\ \E content \in Written(w) : flat' = [flat EXCEPT ![k] = content]
          /\ Step(w, "bag")
       \/ /\ \E content \in WrittenPartly(w) :
               flat' = [flat EXCEPT ![k] = content]
          /\ Return(w)
  /\ UNCHANGED <<tableVars, fetched, torrent, writes, touched, sent, cleanerVars>>

\* Service.CreateBag reads what the file holds now.
CreateBag(w) ==
  /\ request[w].pc = "bag"
  /\ LET k == KeyOf(request[w].object)
         bag == [key |-> k, content |-> Content(flat[k])]
     IN  \/ /\ flat[k] # None
            /\ torrent' = [torrent EXCEPT ![bag] = "flat"]
            /\ offloaded' = offloaded \ {k}
            /\ StepWith(w, "insert", bag)
         \/ Return(w) /\ UNCHANGED <<torrent, offloaded>>
  /\ UNCHANGED <<tableVars, diskVars, writes, touched, sent, listed>>

\* Mutant of Insertable: ON CONFLICT DO UPDATE.
Insertable_Upsert(o) == BucketOf(o) \in buckets

\* The foreign key and UNIQUE (bucket_name, object_key).
Insertable(o) == BucketOf(o) \in buckets /\ ~Exists(o)

CreateFile(w) ==
  /\ request[w].pc = "insert"
  /\ LET o == request[w].object IN
       \/ /\ Insertable(o)
          /\ rows' = [rows EXCEPT ![o] = request[w].bag]
          /\ sent' = [sent EXCEPT ![o] = request[w].content]
          /\ touched' = [touched EXCEPT ![o] = rivals[w]]
       \* "DB error": the torrent stays.
       \/ UNCHANGED <<rows, sent, touched>>
  /\ Return(w)
  /\ UNCHANGED <<buckets, diskVars, torrent, writes, cleanerVars>>

Write(w) ==
  \/ Lookup(w)
  \/ DeleteLocal(w)
  \/ DeleteRow(w)
  \/ CreateLocal(w)
  \/ CopyInput(w)
  \/ CreateBag(w)
  \/ CreateFile(w)

-----------------------------------------------------------------------------
(* GetObject, downloadFile, restoreFile, and CopyObject, which is a GetObject *)
(* and then a PutObject (gofakes3.CopyObject).                              *)

Request(r, o, pc) ==
  /\ request[r].pc = "idle"
  /\ Exists(o)
  /\ request' = [request EXCEPT ![r] =
                   [pc |-> pc, object |-> o, bag |-> rows[o]]]
  /\ UNCHANGED <<tableVars, diskVars, torrent, writes, historyVars, cleanerVars>>

GetObject(r, o) == Request(r, o, "look")

DownloadFile(r, o) == Request(r, o, "find")

\* The goroutine that restoreFile leaves behind.
RestoreFile(r, o) == Request(r, o, "restore")

\* Mutant of Found: the path that was found is not kept (finalPath).
Found_NoPath(r, from) ==
  request' = [request EXCEPT ![r] = [pc |-> "open", object |-> @.object,
                                   bag |-> @.bag, from |-> None]]

Found(r, from) ==
  request' = [request EXCEPT ![r] = [pc |-> "open", object |-> @.object,
                                   bag |-> @.bag, from |-> from]]

InFlat(r) == flat[KeyOf(request[r].object)] # None
InFetched(r) == fetched[request[r].bag] # None

\* GetObject looks for the key in the downloads directory, then for the file in
\* the bag's own directory; whatever it finds will do.
Look(r) ==
  /\ request[r].pc = "look"
  /\ \/ InFlat(r) /\ Found(r, "flat")
     \/ ~InFlat(r) /\ InFetched(r) /\ Found(r, "fetched")
  /\ UNCHANGED <<tableVars, diskVars, torrent, writes, historyVars, cleanerVars>>

\* downloadFile (GetPathToBagFile) looks the other way round, or returns 404.
GetPathToBagFile(r) ==
  /\ request[r].pc = "find"
  /\ \/ InFetched(r) /\ Found(r, "fetched")
     \/ ~InFetched(r) /\ InFlat(r) /\ Found(r, "flat")
     \/ ~InFetched(r) /\ ~InFlat(r) /\ request' = [request EXCEPT ![r] = Idle]
  /\ UNCHANGED <<tableVars, diskVars, torrent, writes, historyVars, cleanerVars>>

\* Mutant of DownloadBag: a new torrent even if one is loaded.
DownloadBag_Anew(r) ==
  /\ request[r].pc \in {"look", "restore"}
  /\ request[r].pc = "look" => ~InFlat(r) /\ ~InFetched(r)
  /\ torrent' = [torrent EXCEPT ![request[r].bag] = "fetched"]
  /\ request' = [request EXCEPT ![r] =
                   IF @.pc = "look" THEN [@ EXCEPT !.pc = "wait"] ELSE Idle]
  /\ UNCHANGED <<tableVars, diskVars, writes, historyVars, cleanerVars>>

\* Service.DownloadBag, when GetObject finds neither, and always by restoreFile,
\* for which nothing depends on the file that it waits for then.  A loaded torrent
\* is started again, where it is.
DownloadBag(r) ==
  /\ request[r].pc \in {"look", "restore"}
  /\ request[r].pc = "look" => ~InFlat(r) /\ ~InFetched(r)
  /\ \/ /\ torrent' = [torrent EXCEPT ![request[r].bag] =
                          IF @ = None THEN "fetched" ELSE @]
        /\ request' = [request EXCEPT ![r] =
                         IF @.pc = "look" THEN [@ EXCEPT !.pc = "wait"] ELSE Idle]
     \* "download init failed"
     \/ request' = [request EXCEPT ![r] = Idle] /\ UNCHANGED torrent
  /\ UNCHANGED <<tableVars, diskVars, writes, historyVars, cleanerVars>>

\* WaitForFile: the file in the bag's directory, once it is not empty, or a timeout.
Wait(r) ==
  /\ request[r].pc = "wait"
  /\ \/ InFetched(r) /\ Found(r, "fetched")
     \/ request' = [request EXCEPT ![r] = Idle]
  /\ UNCHANGED <<tableVars, diskVars, torrent, writes, historyVars, cleanerVars>>

\* r reads a bag that is still arriving.
Partial(r) == request[r].from = "fetched" /\ fetched[request[r].bag] = "part"

\* What r gets when it opens the file it found; None if the file is gone.
Opened(r) ==
  IF request[r].from = "flat" THEN flat[KeyOf(request[r].object)]
  ELSE IF Partial(r) THEN Torn
  ELSE IF InFetched(r) THEN request[r].bag.content ELSE None

\* The file is opened and sent.
OpenFile(r) ==
  /\ request[r].pc = "open"
  /\ request' = [request EXCEPT ![r] = Idle]
  /\ UNCHANGED <<tableVars, diskVars, torrent, writes, historyVars, cleanerVars>>

\* What r opened is what PutObject gets to write; but Self, if it is the file at
\* the path that PutObject will truncate.
Copied(r, o) ==
  IF /\ request[r].from = "flat"
     /\ KeyOf(request[r].object) = KeyOf(o)
     /\ Opened(r) # Empty
  THEN Self ELSE Content(Opened(r))

\* CopyObject, after its GetObject.
CopyObject(r, o) ==
  /\ request[r].pc = "open"
  /\ Opened(r) # None
  /\ BucketOf(o) \in buckets
  /\ Begin(r, o, "lookup", Copied(r, o))
  /\ UNCHANGED tableVars

Read(r) ==
  \/ \E o \in Objects : GetObject(r, o) \/ DownloadFile(r, o) \/ RestoreFile(r, o)
  \/ Look(r)
  \/ GetPathToBagFile(r)
  \/ DownloadBag(r)
  \/ Wait(r)
  \/ OpenFile(r)
  \/ \E o \in Objects : CopyObject(r, o)

-----------------------------------------------------------------------------
(* The daemons and the network.                                             *)

\* RunCleanerWorker and deleteFile read the row first.
List(o) ==
  /\ Exists(o)
  /\ listed' = listed \cup {rows[o]}
  /\ UNCHANGED <<tableVars, diskVars, torrent, writes, request, historyVars, offloaded>>

\* Then they delete what they read, whatever became of it since.
Offload(b) ==
  /\ b \in listed
  /\ \/ /\ DeleteLocalFile(b)
        /\ request' = Unlinked(b)
        /\ offloaded' = offloaded \cup {b.key}
     \/ DeleteLocalFileFails(b) /\ UNCHANGED <<request, offloaded>>
  /\ listed' = listed \ {b}
  /\ UNCHANGED <<tableVars, writes, historyVars>>

\* A piece of a bag arrives, or its last one.
Fetch(b) ==
  /\ torrent[b] = "fetched"
  /\ fetched[b] # "whole"
  /\ fetched' = [fetched EXCEPT ![b] = IF @ = None THEN "part" ELSE "whole"]
  /\ UNCHANGED <<tableVars, flat, torrent, writes, request, historyVars, cleanerVars>>

\* The process dies and starts again: requests are lost, all else stays.
Restart ==
  /\ request' = [r \in Requests |-> Idle]
  /\ rivals' = [w \in Requests |-> {}]
  /\ listed' = {}
  /\ UNCHANGED <<tableVars, diskVars, torrent, writes, touched, sent, offloaded>>

Next ==
  \/ \E b \in Buckets : CreateBucket(b) \/ DeleteBucket(b)
  \/ \E w \in Requests, o \in Objects :
       \/ DeleteObject(w, o)
       \/ \E content \in Contents :
            PutObject(w, o, content) \/ UploadFile(w, o, content)
  \/ \E w \in Requests : Write(w)
  \/ \E r \in Requests : Read(r)
  \/ \E o \in Objects : List(o)
  \/ \E b \in Bags : Offload(b) \/ Fetch(b)
  \/ Restart

Spec == Init /\ [][Next]_vars

-----------------------------------------------------------------------------
(* Properties.                                                              *)

\* r opens its file, and the object is the one it asked for, not one put since.
Serves(r) ==
  /\ request[r].pc = "open"
  /\ Opened(r) # None
  /\ rows[request[r].object] = request[r].bag

\* An object is served with the content its client sent, or, by a reader that did
\* not wait for all of the bag, a part of it; as long as no request for the same key,
\* in whatever bucket, has been at work since it was put (or while it was), and no
\* object of that key was there when its file was created.  Deletions of buckets,
\* offloading, downloads and restarts do not disturb it.
ServesWhatWasPut ==
  \A r \in Requests :
    LET o == request[r].object IN
      Serves(r) /\ touched[o] = {} =>
        \/ Opened(r) = sent[o]
        \/ Partial(r) /\ request[r].bag.content = sent[o]

\* Such an object has its own file on disk, seeded, until a cleaner or the admin
\* deletes the local data of its key: no request for another key, no download,
\* restore, deletion of a bucket or restart takes it.
UntouchedKept ==
  \A o \in Objects :
    Exists(o) /\ touched[o] = {} => Seeds(rows[o]) \/ KeyOf(o) \in offloaded

\* A bag is what CreateBag made of a file at the path of its object's key.
BagsKeyed ==
  /\ \A o \in Objects : Exists(o) => rows[o].key = KeyOf(o)
  /\ \A w \in Requests :
       request[w].pc \in {"deleteLocal", "insert"}
         => request[w].bag.key = KeyOf(request[w].object)

\* A request knows the buckets of all others at work on its key.
RivalsKnown ==
  \A k \in Keys : \A v, w \in AtWork(k) :
    v # w => BucketOf(request[v].object) \in rivals[w]

\* A request that never met another for its key is alone with the file: nothing
\* has come between its steps, unless a cleaner or the admin deleted the file.
WritesAlone ==
  \A k \in Keys : \A w \in AtWork(k) :
    LET r == request[w] IN
      rivals[w] = {} =>
        /\ r.pc \in {"copy", "bag", "insert"} => Put(k) = {}
        /\ r.pc = "copy" => flat[k] \in {Empty, None}
        /\ r.pc = "bag" => flat[k] \in {r.content, None}
        /\ r.pc = "insert" =>
             /\ r.bag.content = r.content /\ flat[k] \in {r.content, None}
             /\ Seeds(r.bag) \/ k \in offloaded

\* So is an object that no request has touched since.
UntouchedAlone ==
  \A o \in Objects :
    LET k == KeyOf(o) IN
      Exists(o) /\ touched[o] = {} =>
        /\ AtWork(k) = {} /\ Put(k) = {o}
        /\ rows[o].content = sent[o] /\ flat[k] \in {None, sent[o]}
        /\ Seeds(rows[o]) \/ k \in offloaded

\* The inductive invariant behind ServesWhatWasPut and UntouchedKept.
ObjectsInv ==
  TypeOK /\ BagsKeyed /\ RivalsKnown /\ WritesAlone /\ UntouchedAlone

\* A loaded torrent that no row refers to, and no request will insert a row for:
\* it is seeded for ever.
Orphan(b) ==
  /\ torrent[b] # None
  /\ \A o \in Objects : rows[o] # b
  /\ \A w \in Requests : request[w].pc = "insert" => request[w].bag # b

\* A torrent is orphaned only when the INSERT of its upload fails or is cut off,
\* when its bucket is deleted, when its row is deleted while it is still (or
\* again) loaded, or when a GetObject or a restoreFile starts it after the object was
\* deleted.
OrphansOnlyBy ==
  [][\A b \in Bags : Orphan(b)' /\ ~Orphan(b) =>
       \/ \E w \in Requests : request[w].pc = "insert" /\ request[w].bag = b
       \/ buckets' # buckets
       \/ \E w \in Requests :
            request[w].pc = "deleteRow" /\ rows[request[w].object] = b
       \/ \E r \in Requests :
            request[r].pc \in {"look", "restore"} /\ request[r].bag = b]_vars

-----------------------------------------------------------------------------
(* What the documentation says and the code does not do.                    *)

\* "S3 Совместимость" (README.md:13): an object changes only by requests that
\* name it, its bucket included.  The file behind it is shared by all buckets.
BucketsApart ==
  \A r \in Requests :
    LET o == request[r].object IN
      Serves(r) /\ BucketOf(o) \notin touched[o] => Opened(r) = sent[o]
=============================================================================
