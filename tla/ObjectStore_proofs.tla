-------------------------- MODULE ObjectStore_proofs --------------------------
(***************************************************************************)
(* Proofs about ObjectStore, for every value of its constants.             *)
(***************************************************************************)
EXTENDS ObjectStore, TLAPS

-----------------------------------------------------------------------------
(* Type correctness.                                                       *)

LEMMA ObjectParts ==
  ASSUME NEW o \in Objects
  PROVE  BucketOf(o) \in Buckets /\ KeyOf(o) \in Keys
BY DEF Objects, BucketOf, KeyOf

\* What a request holds at a control point.
LEMMA RequestFields ==
  ASSUME TypeOK, NEW w \in Requests
  PROVE  LET r == request[w] IN
           /\ r.pc \in Writing => /\ r.object \in Objects
                                  /\ r.content \in Payloads \cup {None}
           /\ r.pc \in {"deleteLocal", "insert"} => r.bag \in Bags
           /\ r.pc \in {"look", "wait", "find", "restore", "open"} =>
                r.object \in Objects /\ r.bag \in Bags
           /\ r.pc = "open" => r.from \in {"flat", "fetched"}
<1>1. request[w] \in RequestState
  BY DEF TypeOK
<1> QED
  BY <1>1 DEF RequestState, Writing, Idle

\* The shapes a request can have.
LEMMA RequestShapes ==
  /\ Idle \in RequestState
  /\ \A pc \in Writing \ {"deleteLocal", "insert"}, o \in Objects,
        c \in Payloads \cup {None} :
       [pc |-> pc, object |-> o, content |-> c] \in RequestState
  /\ \A pc \in {"deleteLocal", "insert"}, o \in Objects,
        c \in Payloads \cup {None}, b \in Bags :
       [pc |-> pc, object |-> o, content |-> c, bag |-> b] \in RequestState
  /\ \A pc \in {"look", "wait", "find", "restore"}, o \in Objects, b \in Bags :
       [pc |-> pc, object |-> o, bag |-> b] \in RequestState
  /\ \A o \in Objects, b \in Bags, from \in {"flat", "fetched"} :
       [pc |-> "open", object |-> o, bag |-> b, from |-> from] \in RequestState
BY DEF RequestState

LEMMA RowIsBag ==
  ASSUME TypeOK, NEW o \in Objects, Exists(o)
  PROVE  rows[o] \in Bags
BY DEF TypeOK, Exists

LEMMA ReturnType ==
  ASSUME TypeOK, NEW w \in Requests, Return(w)
  PROVE  /\ request' \in [Requests -> RequestState]
         /\ rivals' \in [Requests -> SUBSET Buckets]
BY RequestShapes DEF TypeOK, Return

LEMMA GotoType ==
  ASSUME TypeOK, NEW w \in Requests, request[w].pc \in Writing,
         NEW pc \in Writing \ {"deleteLocal", "insert"}, Goto(w, pc)
  PROVE  request' \in [Requests -> RequestState]
<1>1. [pc |-> pc, object |-> request[w].object, content |-> request[w].content]
        \in RequestState
  BY RequestFields, RequestShapes
<1> QED
  BY <1>1 DEF Goto, TypeOK

LEMMA StepWithType ==
  ASSUME TypeOK, NEW w \in Requests, request[w].pc \in Writing,
         NEW pc \in {"deleteLocal", "insert"}, NEW b \in Bags, StepWith(w, pc, b)
  PROVE  /\ request' \in [Requests -> RequestState]
         /\ rivals' \in [Requests -> SUBSET Buckets]
<1>1. [pc |-> pc, object |-> request[w].object, content |-> request[w].content,
       bag |-> b] \in RequestState
  BY RequestFields, RequestShapes
<1> QED
  BY <1>1 DEF StepWith, TypeOK

LEMMA DeleteLocalFileType ==
  ASSUME TypeOK, NEW b \in Bags, DeleteLocalFile(b)
  PROVE  /\ torrent' \in [Bags -> {"flat", "fetched", None}]
         /\ flat' \in [Keys -> FileContents \cup {None}]
         /\ fetched' \in [Bags -> {"part", "whole", None}]
<1>1. b.key \in Keys
  BY DEF Bags
<1> QED
  BY <1>1 DEF TypeOK, DeleteLocalFile

\* A request whose source is unlinked stays where it is, with another content.
LEMMA UnlinkedSame ==
  ASSUME TypeOK, NEW b \in Bags, NEW w \in Requests
  PROVE  /\ Unlinked(b) \in [Requests -> RequestState]
         /\ Unlinked(b)[w].pc = request[w].pc
         /\ request[w].pc \in Writing => Unlinked(b)[w].object = request[w].object
         /\ request[w].pc \in {"deleteLocal", "insert"} =>
              Unlinked(b)[w].bag = request[w].bag
         /\ \/ torrent[b] # "flat" \/ w \notin AtWork(b.key)
            \/ request[w].content # Self
            => Unlinked(b)[w] = request[w]
<1>1. flat[b.key] \in FileContents \cup {None}
  BY DEF TypeOK, Bags
<1>2. PICK c \in Payloads \cup {None} : c = Content(flat[b.key])
  BY <1>1 DEF Content, FileContents, Payloads
<1>3. ASSUME NEW u \in Requests
      PROVE  LET new == [request[u] EXCEPT !.content = c] IN
               request[u].pc \in Writing =>
                 /\ new \in RequestState /\ new.pc = request[u].pc
                 /\ new.object = request[u].object
                 /\ request[u].pc \in {"deleteLocal", "insert"} =>
                      new.bag = request[u].bag
  <2>1. CASE request[u].pc \in {"deleteLocal", "insert"}
    <3>1. request[u] \in [pc : {"deleteLocal", "insert"}, object : Objects,
                         content : Payloads \cup {None}, bag : Bags]
      BY <2>1 DEF TypeOK, RequestState, Idle, Writing
    <3>2. [request[u] EXCEPT !.content = c] \in
            [pc : {"deleteLocal", "insert"}, object : Objects,
             content : Payloads \cup {None}, bag : Bags]
      BY <3>1
    <3> QED
      BY <3>1, <3>2 DEF RequestState
  <2>2. CASE request[u].pc \in Writing \ {"deleteLocal", "insert"}
    <3>1. request[u] \in [pc : Writing \ {"deleteLocal", "insert"}, object : Objects,
                         content : Payloads \cup {None}]
      BY <2>2 DEF TypeOK, RequestState, Idle, Writing
    <3>2. [request[u] EXCEPT !.content = c] \in
            [pc : Writing \ {"deleteLocal", "insert"}, object : Objects,
             content : Payloads \cup {None}]
      BY <3>1
    <3> QED
      BY <2>2, <3>1, <3>2 DEF RequestState
  <2> QED
    BY <2>1, <2>2
<1>4. \A u \in Requests :
        Unlinked(b)[u] = IF /\ torrent[b] = "flat"
                            /\ u \in AtWork(b.key) /\ request[u].content = Self
                         THEN [request[u] EXCEPT !.content = c] ELSE request[u]
  BY <1>2 DEF Unlinked
<1>5. \A u \in AtWork(b.key) : request[u].pc \in Writing
  BY DEF AtWork
<1>6. \A u \in Requests : Unlinked(b)[u] \in RequestState
  BY <1>3, <1>4, <1>5 DEF TypeOK
<1>7. Unlinked(b) = [u \in Requests |-> Unlinked(b)[u]]
  BY DEF Unlinked
<1>8. Unlinked(b) \in [Requests -> RequestState]
  BY <1>6, <1>7
<1> QED
  BY <1>3, <1>4, <1>5, <1>8

LEMMA DeleteRowsType ==
  ASSUME TypeOK, NEW os, DeleteRows(os)
  PROVE  /\ rows' \in [Objects -> Bags \cup {NoBag}]
         /\ sent' \in [Objects -> Payloads \cup {None}]
         /\ touched' \in [Objects -> SUBSET Buckets]
BY DEF TypeOK, DeleteRows

LEMMA BeginType ==
  ASSUME TypeOK, NEW w \in Requests, NEW o \in Objects,
         NEW pc \in Writing \ {"deleteLocal", "insert"},
         NEW content \in Payloads \cup {None},
         Begin(w, o, pc, content), rows' = rows, buckets' \subseteq Buckets
  PROVE  TypeOK'
<1>1. request' \in [Requests -> RequestState]
  BY RequestShapes DEF Begin, TypeOK
<1>2. writes' \in 0 .. MaxWrites
  BY WritesAssumption DEF Begin, TypeOK
<1>3. \A u \in AtWork(KeyOf(o)) : BucketOf(request[u].object) \in Buckets
  BY RequestFields, ObjectParts DEF AtWork
<1>4. rivals' \in [Requests -> SUBSET Buckets]
  BY <1>3, ObjectParts DEF Begin, TypeOK
<1>5. touched' \in [Objects -> SUBSET Buckets]
  BY ObjectParts DEF Begin, TypeOK
<1> QED
  BY <1>1, <1>2, <1>4, <1>5 DEF Begin, TypeOK, diskVars, cleanerVars

LEMMA WriteType ==
  ASSUME TypeOK, NEW w \in Requests, Write(w)
  PROVE  TypeOK'
<1>0. LET r == request[w] IN
        /\ r.pc \in Writing
        /\ r.object \in Objects /\ KeyOf(r.object) \in Keys
        /\ r.content \in Payloads \cup {None}
        /\ r.pc \in {"deleteLocal", "insert"} => r.bag \in Bags
  <2>1. request[w].pc \in Writing
    BY DEF Write, Lookup, DeleteLocal, DeleteRow, CreateLocal, CopyInput, CreateBag,
           CreateFile, Writing
  <2> QED
    BY <2>1, RequestFields, ObjectParts
<1>1. ASSUME NothingToDelete(w)
      PROVE  /\ request' \in [Requests -> RequestState]
             /\ rivals' \in [Requests -> SUBSET Buckets]
  BY <1>0, <1>1, GotoType, ReturnType DEF NothingToDelete, Step, Writing, TypeOK
<1>2. CASE Lookup(w)
  <2>1. /\ request' \in [Requests -> RequestState]
        /\ rivals' \in [Requests -> SUBSET Buckets]
    BY <1>0, <1>1, <1>2, StepWithType, RowIsBag DEF Lookup
  <2> QED
    BY <1>2, <2>1 DEF Lookup, TypeOK, tableVars, diskVars, cleanerVars
<1>3. CASE DeleteLocal(w)
  <2> DEFINE b == request[w].bag
  <2>1. b \in Bags /\ request[w].pc = "deleteLocal"
    BY <1>0, <1>3 DEF DeleteLocal
  <2>2. CASE DeleteLocalFileFails(b) /\ Goto(w, "deleteRow")
    <3>1. request' \in [Requests -> RequestState]
      BY <1>0, <2>2, GotoType DEF Writing
    <3> QED
      BY <1>3, <2>2, <3>1
      DEF DeleteLocal, DeleteLocalFileFails, TypeOK, tableVars, diskVars, historyVars,
          cleanerVars
  <2>3. CASE /\ DeleteLocalFile(b)
             /\ request' = [Unlinked(b) EXCEPT ![w] =
                              [pc |-> "deleteRow", object |-> @.object,
                               content |-> @.content]]
    <3>1. Unlinked(b) \in [Requests -> RequestState]
      BY <2>1, UnlinkedSame
    <3>2. PICK r \in RequestState : r = Unlinked(b)[w]
      BY <3>1
    <3>3. r.pc = "deleteLocal"
      BY <2>1, <3>2, UnlinkedSame
    <3>4. r.object \in Objects /\ r.content \in Payloads \cup {None}
      BY <3>3 DEF RequestState, Idle, Writing
    <3>5. [pc |-> "deleteRow", object |-> r.object, content |-> r.content]
            \in RequestState
      BY <3>4, RequestShapes DEF Writing
    <3>6. request' = [Unlinked(b) EXCEPT ![w] =
                        [pc |-> "deleteRow", object |-> r.object,
                         content |-> r.content]]
      BY <2>3, <3>2
    <3>7. request' \in [Requests -> RequestState]
      BY <3>1, <3>5, <3>6
    <3>8. /\ torrent' \in [Bags -> {"flat", "fetched", None}]
          /\ flat' \in [Keys -> FileContents \cup {None}]
          /\ fetched' \in [Bags -> {"part", "whole", None}]
      BY <2>1, <2>3, DeleteLocalFileType
    <3> QED
      BY <1>3, <3>7, <3>8 DEF DeleteLocal, TypeOK, tableVars, historyVars, cleanerVars
  <2> QED
    BY <1>3, <2>2, <2>3 DEF DeleteLocal
<1>4. CASE DeleteRow(w)
  <2>1. /\ rows' \in [Objects -> Bags \cup {NoBag}]
        /\ sent' \in [Objects -> Payloads \cup {None}]
        /\ touched' \in [Objects -> SUBSET Buckets]
    BY <1>4, DeleteRowsType DEF DeleteRow, TypeOK
  <2>2. /\ request' \in [Requests -> RequestState]
        /\ rivals' \in [Requests -> SUBSET Buckets]
    BY <1>1, <1>4 DEF DeleteRow
  <2> QED
    BY <1>4, <2>1, <2>2 DEF DeleteRow, TypeOK, diskVars, cleanerVars
<1>5. CASE CreateLocal(w)
  <2>1. /\ request' \in [Requests -> RequestState]
        /\ rivals' \in [Requests -> SUBSET Buckets]
    <3>1. CASE Return(w)
      BY <3>1, ReturnType
    <3>2. CASE ~Return(w)
      <4>1. request' \in [Requests -> RequestState]
        BY <1>0, <1>5, <3>2, GotoType DEF CreateLocal, Writing
      <4>2. {BucketOf(o) : o \in Put(KeyOf(request[w].object))} \subseteq Buckets
        BY ObjectParts DEF Put
      <4> QED
        BY <1>5, <3>2, <4>1, <4>2 DEF CreateLocal, TypeOK
    <3> QED
      BY <3>1, <3>2
  <2>2. flat' \in [Keys -> FileContents \cup {None}]
    BY <1>0, <1>5 DEF CreateLocal, TypeOK, FileContents
  <2> QED
    BY <1>5, <2>1, <2>2 DEF CreateLocal, TypeOK, tableVars, cleanerVars
<1>6. CASE CopyInput(w)
  <2>1. /\ request' \in [Requests -> RequestState]
        /\ rivals' \in [Requests -> SUBSET Buckets]
    BY <1>0, <1>6, GotoType, ReturnType DEF CopyInput, Step, Writing, TypeOK
  <2>2. /\ WrittenPartly(w) \subseteq FileContents \cup {None}
        /\ Written(w) \subseteq FileContents \cup {None}
    BY <1>0 DEF WrittenPartly, Written, FileContents, Payloads, TypeOK
  <2>3. flat' \in [Keys -> FileContents \cup {None}]
    BY <1>0, <1>6, <2>2 DEF CopyInput, TypeOK
  <2> QED
    BY <1>6, <2>1, <2>3 DEF CopyInput, TypeOK, tableVars, cleanerVars
<1>7. CASE CreateBag(w)
  <2> DEFINE k == KeyOf(request[w].object)
             bag == [key |-> k, content |-> Content(flat[k])]
  <2>1. flat[k] # None => bag \in Bags
    BY <1>0 DEF TypeOK, FileContents, Content, Bags
  <2>2. /\ request' \in [Requests -> RequestState]
        /\ rivals' \in [Requests -> SUBSET Buckets]
        /\ torrent' \in [Bags -> {"flat", "fetched", None}]
    <3>1. CASE Return(w) /\ UNCHANGED <<torrent, offloaded>>
      BY <3>1, ReturnType DEF TypeOK
    <3>2. CASE flat[k] # None /\ torrent' = [torrent EXCEPT ![bag] = "flat"]
               /\ StepWith(w, "insert", bag)
      BY <1>0, <2>1, <3>2, StepWithType DEF TypeOK
    <3> QED
      BY <1>7, <3>1, <3>2 DEF CreateBag
  <2>3. offloaded' \subseteq Keys
    BY <1>7 DEF CreateBag, TypeOK
  <2> QED
    BY <1>7, <2>2, <2>3 DEF CreateBag, TypeOK, tableVars, diskVars
<1>8. CASE CreateFile(w)
  <2>1. /\ rows' \in [Objects -> Bags \cup {NoBag}]
        /\ sent' \in [Objects -> Payloads \cup {None}]
        /\ touched' \in [Objects -> SUBSET Buckets]
    BY <1>0, <1>8 DEF CreateFile, TypeOK
  <2> QED
    BY <1>8, <2>1, ReturnType DEF CreateFile, TypeOK, diskVars, cleanerVars
<1> QED
  BY <1>2, <1>3, <1>4, <1>5, <1>6, <1>7, <1>8 DEF Write

LEMMA OpenedType ==
  ASSUME TypeOK, NEW r \in Requests, request[r].pc = "open", Opened(r) # None,
         NEW o \in Objects
  PROVE  Copied(r, o) \in Payloads
<1>1. request[r].object \in Objects /\ request[r].bag \in Bags
  BY RequestFields
<1>2. KeyOf(request[r].object) \in Keys
  BY <1>1, ObjectParts
<1>3. Opened(r) \in FileContents
  BY <1>1, <1>2 DEF Opened, InFetched, Partial, TypeOK, FileContents, Bags
<1> QED
  BY <1>3 DEF Copied, Content, FileContents, Payloads

LEMMA FoundType ==
  ASSUME TypeOK, NEW r \in Requests, NEW from \in {"flat", "fetched"},
         request[r].pc \in {"look", "wait", "find", "restore"}, Found(r, from)
  PROVE  request' \in [Requests -> RequestState]
<1>1. [pc |-> "open", object |-> request[r].object, bag |-> request[r].bag,
       from |-> from] \in RequestState
  BY RequestFields, RequestShapes
<1> QED
  BY <1>1 DEF Found, TypeOK

LEMMA ReadType ==
  ASSUME TypeOK, NEW r \in Requests, Read(r)
  PROVE  TypeOK'
<1>1. CASE \E o \in Objects : GetObject(r, o) \/ DownloadFile(r, o) \/ RestoreFile(r, o)
  <2>1. PICK o \in Objects, pc \in {"look", "find", "restore"} : Request(r, o, pc)
    BY <1>1 DEF GetObject, DownloadFile, RestoreFile
  <2>2. [pc |-> pc, object |-> o, bag |-> rows[o]] \in RequestState
    BY <2>1, RequestShapes, RowIsBag DEF Request
  <2> QED
    BY <2>1, <2>2 DEF Request, TypeOK, tableVars, diskVars, historyVars, cleanerVars
<1>2. CASE \/ Look(r) \/ GetPathToBagFile(r) \/ Wait(r) \/ OpenFile(r)
  <2>1. request' \in [Requests -> RequestState]
    BY <1>2, FoundType, RequestShapes
    DEF Look, GetPathToBagFile, Wait, OpenFile, TypeOK
  <2> QED
    BY <1>2, <2>1 DEF Look, GetPathToBagFile, Wait, OpenFile, TypeOK,
                      tableVars, diskVars, historyVars, cleanerVars
<1>3. CASE DownloadBag(r)
  <2>1. request[r].pc \in {"look", "restore"} /\ request[r].bag \in Bags
    BY <1>3, RequestFields DEF DownloadBag
  <2>2. torrent' \in [Bags -> {"flat", "fetched", None}]
    BY <1>3, <2>1 DEF DownloadBag, TypeOK
  <2>3. request[r] \in [pc : {"look", "wait", "find", "restore"}, object : Objects,
                       bag : Bags]
    BY <2>1 DEF TypeOK, RequestState, Idle, Writing
  <2>4. [request[r] EXCEPT !.pc = "wait"] \in RequestState
    BY <2>3 DEF RequestState
  <2>5. \/ request' = [request EXCEPT ![r] = [request[r] EXCEPT !.pc = "wait"]]
        \/ request' = [request EXCEPT ![r] = Idle]
    BY <1>3 DEF DownloadBag
  <2>6. request' \in [Requests -> RequestState]
    BY <2>4, <2>5, RequestShapes DEF TypeOK
  <2> QED
    BY <1>3, <2>2, <2>6
    DEF DownloadBag, TypeOK, tableVars, diskVars, historyVars, cleanerVars
<1>4. CASE \E o \in Objects : CopyObject(r, o)
  <2>1. PICK o \in Objects : CopyObject(r, o)
    BY <1>4
  <2>2. Copied(r, o) \in Payloads
    BY <2>1, OpenedType DEF CopyObject
  <2> QED
    BY <2>1, <2>2, BeginType DEF CopyObject, tableVars, Writing, TypeOK
<1> QED
  BY <1>1, <1>2, <1>3, <1>4 DEF Read

LEMMA TypeInit == Init => TypeOK
BY RequestShapes, WritesAssumption DEF Init, TypeOK

LEMMA TypeNext ==
  ASSUME TypeOK, [Next]_vars
  PROVE  TypeOK'
<1>1. CASE \E b \in Buckets : CreateBucket(b) \/ DeleteBucket(b)
  <2>1. PICK b \in Buckets : CreateBucket(b) \/ DeleteBucket(b)
    BY <1>1
  <2>2. CASE CreateBucket(b)
    BY <2>2 DEF CreateBucket, TypeOK, diskVars, historyVars, cleanerVars
  <2>3. CASE DeleteBucket(b)
    <3>1. /\ rows' \in [Objects -> Bags \cup {NoBag}]
          /\ sent' \in [Objects -> Payloads \cup {None}]
          /\ touched' \in [Objects -> SUBSET Buckets]
      BY <2>3, DeleteRowsType DEF DeleteBucket
    <3> QED
      BY <2>3, <3>1 DEF DeleteBucket, TypeOK, diskVars, cleanerVars
  <2> QED
    BY <2>1, <2>2, <2>3
<1>2. ASSUME NEW w \in Requests, NEW o \in Objects,
             \/ DeleteObject(w, o)
             \/ \E content \in Contents :
                  PutObject(w, o, content) \/ UploadFile(w, o, content)
      PROVE  TypeOK'
  <2>1. CASE DeleteObject(w, o)
    BY <2>1, BeginType DEF DeleteObject, tableVars, Writing, TypeOK
  <2>2. ASSUME NEW content \in Contents, PutObject(w, o, content)
        PROVE  TypeOK'
    <3>1. content \in Payloads
      BY DEF Payloads
    <3> QED
      BY <2>2, <3>1, BeginType DEF PutObject, tableVars, Writing, TypeOK
  <2>3. ASSUME NEW content \in Contents, UploadFile(w, o, content)
        PROVE  TypeOK'
    <3>1. content \in Payloads
      BY DEF Payloads
    <3>2. buckets' \subseteq Buckets
      BY <2>3, ObjectParts DEF UploadFile, TypeOK
    <3> QED
      BY <2>3, <3>1, <3>2, BeginType DEF UploadFile, Writing
  <2> QED
    BY <1>2, <2>1, <2>2, <2>3
<1>3. CASE \E w \in Requests : Write(w)
  BY <1>3, WriteType
<1>4. CASE \E r \in Requests : Read(r)
  BY <1>4, ReadType
<1>5. CASE \E o \in Objects : List(o)
  BY <1>5, RowIsBag DEF List, TypeOK, tableVars, diskVars, historyVars
<1>9. ASSUME NEW b \in Bags, Offload(b)
      PROVE  TypeOK'
  <2>1. CASE DeleteLocalFileFails(b) /\ UNCHANGED <<request, offloaded>>
    BY <1>9, <2>1
    DEF Offload, DeleteLocalFileFails, TypeOK, tableVars, diskVars, historyVars
  <2>2. CASE /\ DeleteLocalFile(b) /\ request' = Unlinked(b)
             /\ offloaded' = offloaded \cup {b.key}
    <3>1. /\ torrent' \in [Bags -> {"flat", "fetched", None}]
          /\ flat' \in [Keys -> FileContents \cup {None}]
          /\ fetched' \in [Bags -> {"part", "whole", None}]
      BY <2>2, DeleteLocalFileType
    <3>2. request' \in [Requests -> RequestState]
      <4>1. \A w \in Requests : Unlinked(b) \in [Requests -> RequestState]
        BY UnlinkedSame
      <4>2. CASE Requests = {}
        BY <2>2, <4>2 DEF Unlinked
      <4> QED
        BY <2>2, <4>1, <4>2
    <3>3. offloaded' \subseteq Keys
      BY <2>2 DEF TypeOK, Bags
    <3> QED
      BY <1>9, <3>1, <3>2, <3>3 DEF Offload, TypeOK, tableVars, historyVars
  <2> QED
    BY <1>9, <2>1, <2>2 DEF Offload
<1>6. CASE \E b \in Bags : Fetch(b)
  BY <1>6 DEF Fetch, TypeOK, tableVars, historyVars, cleanerVars
<1>7. CASE Restart
  BY <1>7, RequestShapes DEF Restart, TypeOK, tableVars, diskVars
<1>8. CASE UNCHANGED vars
  BY <1>8 DEF vars, TypeOK, tableVars, diskVars, historyVars, cleanerVars
<1> QED
  BY <1>1, <1>2, <1>3, <1>4, <1>5, <1>6, <1>7, <1>8, <1>9 DEF Next

\* The type invariant: a request has, at every control point, the fields its
\* next step reads (the bag of deleteLocal and insert, the place a file was
\* found in), and the file a copy opened has something that can be written.
THEOREM ObjectsTypeCorrect == Spec => []TypeOK
<1>1. Init => TypeOK
  BY TypeInit
<1>2. TypeOK /\ [Next]_vars => TypeOK'
  BY TypeNext
<1> QED
  BY <1>1, <1>2, PTL DEF Spec

-----------------------------------------------------------------------------
(* The inductive invariant, key by key.                                    *)

KeyRivals(k) ==
  \A v, w \in AtWork(k) : v # w => BucketOf(request[v].object) \in rivals[w]

\* WritesAlone of request w, which is at work on key k.
WriteAlone(k, w) ==
  LET r == request[w] IN
    rivals[w] = {} =>
      /\ r.pc \in {"copy", "bag", "insert"} => Put(k) = {}
      /\ r.pc = "copy" => flat[k] \in {Empty, None}
      /\ r.pc = "bag" => flat[k] \in {r.content, None}
      /\ r.pc = "insert" =>
           /\ r.bag.content = r.content /\ flat[k] \in {r.content, None}
           /\ Seeds(r.bag) \/ k \in offloaded

\* UntouchedAlone of object o, of key k.
ObjectAlone(k, o) ==
  touched[o] = {} =>
    /\ AtWork(k) = {} /\ Put(k) = {o}
    /\ rows[o].content = sent[o] /\ flat[k] \in {None, sent[o]}
    /\ Seeds(rows[o]) \/ k \in offloaded

KeyInv(k) ==
  /\ KeyRivals(k)
  /\ \A w \in AtWork(k) : WriteAlone(k, w)
  /\ \A o \in Put(k) : ObjectAlone(k, o)

LEMMA ObjectsInvByKey ==
  ASSUME TypeOK
  PROVE  ObjectsInv <=> BagsKeyed /\ \A k \in Keys : KeyInv(k)
<1>1. RivalsKnown <=> \A k \in Keys : KeyRivals(k)
  BY DEF RivalsKnown, KeyRivals
<1>2. WritesAlone <=> \A k \in Keys : \A w \in AtWork(k) : WriteAlone(k, w)
  BY DEF WritesAlone, WriteAlone
<1>3. UntouchedAlone <=> \A k \in Keys : \A o \in Put(k) : ObjectAlone(k, o)
  BY ObjectParts DEF UntouchedAlone, ObjectAlone, Put
<1> QED
  BY <1>1, <1>2, <1>3 DEF ObjectsInv, KeyInv

\* What a step that does not matter to key k leaves alone: nobody joins the
\* requests at work on it or gets a row, and the file stays.  A request may end
\* or stay where it is not yet, or no more, writing.
Quiet(k) ==
  /\ AtWork(k)' \subseteq AtWork(k)
  /\ \A w \in AtWork(k)' :
       /\ request'[w].object = request[w].object
       /\ rivals'[w] = rivals[w]
       /\ \/ request'[w] = request[w]
          \/ request'[w].pc \notin {"copy", "bag", "insert"}
  /\ Put(k)' \subseteq Put(k)
  /\ \A o \in Put(k)' :
       rows'[o] = rows[o] /\ sent'[o] = sent[o] /\ touched'[o] = touched[o]
  /\ flat'[k] = flat[k]
  /\ \A b \in Bags : b.key = k =>
       /\ torrent[b] # None => torrent'[b] = torrent[b]
       /\ fetched[b] = "whole" => fetched'[b] = "whole"
  /\ k \in offloaded => k \in offloaded'

LEMMA QuietKeepsSeeds ==
  ASSUME NEW k, Quiet(k), NEW b \in Bags, b.key = k, Seeds(b)
  PROVE  Seeds(b)'
BY DEF Seeds, Quiet, None

LEMMA QuietKeepsKey ==
  ASSUME TypeOK, BagsKeyed, NEW k \in Keys, KeyInv(k), Quiet(k)
  PROVE  KeyInv(k)'
<1>1. KeyRivals(k)'
  BY DEF KeyInv, KeyRivals, Quiet
<1>2. ASSUME NEW w \in AtWork(k)'
      PROVE  WriteAlone(k, w)'
  <2>1. /\ w \in AtWork(k) /\ w \in Requests
        /\ rivals'[w] = rivals[w] /\ flat'[k] = flat[k]
        /\ Put(k)' \subseteq Put(k)
        /\ WriteAlone(k, w)
    BY <1>2 DEF Quiet, KeyInv, AtWork
  <2>2. CASE request'[w].pc \notin {"copy", "bag", "insert"}
    BY <2>2 DEF WriteAlone
  <2>3. CASE request'[w] = request[w]
    <3>1. request[w].pc = "insert"
            => request[w].bag \in Bags /\ request[w].bag.key = k
      BY <2>1, RequestFields DEF BagsKeyed, AtWork
    <3>2. request[w].pc = "insert" /\ Seeds(request[w].bag)
            => Seeds(request[w].bag)'
      <4>1. ASSUME NEW b, b = request[w].bag, request[w].pc = "insert", Seeds(b)
            PROVE  Seeds(b)'
        BY <3>1, <4>1, QuietKeepsSeeds
      <4>2. PICK b : b = request[w].bag
        OBVIOUS
      <4> QED
        BY <2>3, <4>1, <4>2
    <3>3. k \in offloaded => k \in offloaded'
      BY DEF Quiet
    <3> QED
      BY <2>1, <2>3, <3>2, <3>3 DEF WriteAlone
  <2> QED
    BY <1>2, <2>2, <2>3 DEF Quiet
<1>3. ASSUME NEW o \in Put(k)', touched'[o] = {}
      PROVE  ObjectAlone(k, o)'
  <2>1. /\ o \in Put(k) /\ rows'[o] = rows[o] /\ sent'[o] = sent[o]
        /\ touched[o] = {}
    BY <1>3 DEF Quiet
  <2>2. /\ AtWork(k) = {} /\ Put(k) = {o}
        /\ rows[o].content = sent[o] /\ flat[k] \in {None, sent[o]}
        /\ Seeds(rows[o]) \/ k \in offloaded
    BY <2>1 DEF KeyInv, ObjectAlone
  <2>3. PICK b : b = rows[o]
    OBVIOUS
  <2>6. b \in Bags /\ b.key = k
    BY <2>1, <2>3, RowIsBag DEF Put, BagsKeyed
  <2>4. Seeds(rows[o]) => Seeds(rows[o])'
    BY <2>1, <2>3, <2>6, QuietKeepsSeeds
  <2>5. AtWork(k)' = {} /\ Put(k)' = {o}
    BY <1>3, <2>2 DEF Quiet
  <2> QED
    BY <2>1, <2>2, <2>4, <2>5 DEF ObjectAlone, Quiet
<1> QED
  BY <1>1, <1>2, <1>3 DEF KeyInv, ObjectAlone

\* A step of a request at work on key k that puts no row: there is no untouched
\* object of the key, and the others have w among their rivals.  It matters
\* only what w finds.
LEMMA BusyKeepsKey ==
  ASSUME TypeOK, NEW k \in Keys, KeyInv(k), NEW w \in AtWork(k),
         AtWork(k)' \subseteq AtWork(k),
         \A u \in AtWork(k)' : /\ request'[u].object = request[u].object
                               /\ rivals[u] \subseteq rivals'[u],
         w \in AtWork(k)' => WriteAlone(k, w)',
         Put(k)' \subseteq Put(k),
         \A o \in Put(k)' : touched'[o] = touched[o]
  PROVE  KeyInv(k)'
<1>1. KeyRivals(k)'
  BY DEF KeyInv, KeyRivals
<1>2. ASSUME NEW u \in AtWork(k)'
      PROVE  WriteAlone(k, u)'
  <2>1. CASE u # w
    <3>1. rivals'[u] # {}
      BY <1>2, <2>1 DEF KeyInv, KeyRivals
    <3> QED
      BY <3>1 DEF WriteAlone
  <2> QED
    BY <1>2, <2>1
<1>3. ASSUME NEW o \in Put(k)'
      PROVE  ObjectAlone(k, o)'
  <2>1. touched[o] # {}
    BY <1>3 DEF KeyInv, ObjectAlone
  <2> QED
    BY <1>3, <2>1 DEF ObjectAlone
<1> QED
  BY <1>1, <1>2, <1>3 DEF KeyInv

\* A request for key k begins: all that are at work on it have a rival now, and
\* every object of the key is touched.
LEMMA BeginKeepsKey ==
  ASSUME TypeOK, BagsKeyed, NEW k \in Keys, KeyInv(k),
         NEW w \in Requests, request[w].pc \in {"idle", "open"},
         NEW o \in Objects, NEW pc \in {"lookup", "create"}, NEW content,
         Begin(w, o, pc, content), rows' = rows
  PROVE  KeyInv(k)'
<1>0. request' = [request EXCEPT ![w] =
                    [pc |-> pc, object |-> o, content |-> content]]
  BY DEF Begin
<1>1. /\ request'[w].pc = pc /\ request'[w].object = o
      /\ \A u \in Requests : u # w => request'[u] = request[u]
  BY <1>0 DEF TypeOK
<1>2. w \notin AtWork(k) /\ Put(k)' = Put(k)
  BY DEF AtWork, Writing, Put, Exists
<1>3. CASE KeyOf(o) # k
  <2>1. AtWork(k)' = AtWork(k)
    BY <1>1, <1>2, <1>3 DEF AtWork
  <2>2. \A u \in AtWork(k) : u \notin AtWork(KeyOf(o)) /\ u # w
    BY <1>2, <1>3 DEF AtWork
  <2>3. \A u \in AtWork(k) : rivals'[u] = rivals[u]
    BY <2>2 DEF Begin, AtWork
  <2>4. \A p \in Put(k) : touched'[p] = touched[p]
    BY <1>3 DEF Begin, Put
  <2>5. \A u \in AtWork(k) : request'[u] = request[u]
    BY <1>1, <2>2 DEF AtWork
  <2>6. Quiet(k)
    BY <1>2, <2>1, <2>3, <2>4, <2>5 DEF Begin, diskVars, cleanerVars, Quiet
  <2> QED
    BY <2>6, QuietKeepsKey
<1>4. CASE KeyOf(o) = k
  <2>1. AtWork(k)' = AtWork(k) \cup {w}
    BY <1>1, <1>2, <1>4 DEF AtWork, Writing
  <2>2. /\ rivals'[w] = {BucketOf(request[u].object) : u \in AtWork(k)}
        /\ \A u \in AtWork(k) : rivals'[u] = rivals[u] \cup {BucketOf(o)}
    BY <1>2, <1>4 DEF Begin, AtWork
  <2>3. KeyRivals(k)'
    BY <1>1, <1>2, <2>1, <2>2 DEF KeyInv, KeyRivals, AtWork
  <2>4. \A u \in AtWork(k)' : WriteAlone(k, u)'
    BY <1>1, <2>1, <2>2 DEF WriteAlone
  <2>5. \A p \in Put(k) : touched'[p] # {}
    BY <1>4 DEF Begin, Put
  <2> QED
    BY <1>2, <2>3, <2>4, <2>5 DEF KeyInv, ObjectAlone
<1> QED
  BY <1>3, <1>4

\* The local data of a bag is deleted, by a cleaner or by the admin.
LEMMA OffloadKeepsKey ==
  ASSUME TypeOK, BagsKeyed, NEW k \in Keys, KeyInv(k), NEW b \in Bags, Offload(b)
  PROVE  KeyInv(k)' /\ BagsKeyed'
<1>1. /\ rows' = rows /\ rivals' = rivals /\ touched' = touched /\ sent' = sent
      /\ Put(k)' = Put(k)
  BY DEF Offload, tableVars, historyVars, Put, Exists
<1>2. CASE DeleteLocalFileFails(b) /\ UNCHANGED <<request, offloaded>>
  <2>1. Quiet(k)
    BY <1>1, <1>2 DEF DeleteLocalFileFails, diskVars, Quiet, AtWork
  <2> QED
    BY <1>1, <1>2, <2>1, QuietKeepsKey DEF BagsKeyed, Exists
<1>3. CASE /\ DeleteLocalFile(b) /\ request' = Unlinked(b)
           /\ offloaded' = offloaded \cup {b.key}
  <2>1. \A w \in Requests :
          /\ request'[w].pc = request[w].pc
          /\ request[w].pc \in Writing => request'[w].object = request[w].object
          /\ request[w].pc \in {"deleteLocal", "insert"} =>
               request'[w].bag = request[w].bag
          /\ \/ torrent[b] # "flat" \/ w \notin AtWork(b.key)
             \/ request[w].content # Self
             => request'[w] = request[w]
    BY <1>3, UnlinkedSame
  <2>2. AtWork(k)' = AtWork(k)
    BY <2>1 DEF AtWork
  <2>3. BagsKeyed'
    BY <1>1, <2>1 DEF BagsKeyed, Exists, Writing
  <2>4. CASE b.key # k
    <3>1. \A w \in AtWork(k) : w \in Requests /\ w \notin AtWork(b.key)
      BY <2>4 DEF AtWork
    <3>2. \A w \in AtWork(k) : request'[w] = request[w]
      BY <2>1, <3>1
    <3>3. flat'[k] = flat[k]
      BY <1>3, <2>4 DEF DeleteLocalFile, TypeOK
    <3>4. \A c \in Bags : c.key = k =>
            torrent'[c] = torrent[c] /\ fetched'[c] = fetched[c]
      BY <1>3, <2>4 DEF DeleteLocalFile, TypeOK
    <3>5. Quiet(k)
      BY <1>1, <1>3, <2>2, <3>2, <3>3, <3>4 DEF Quiet
    <3> QED
      BY <2>3, <3>5, QuietKeepsKey
  <2>5. CASE b.key = k
    <3>1. /\ k \in offloaded' /\ flat'[k] \in {None, flat[k]}
          /\ torrent[b] = "flat" => flat'[k] = None
      BY <1>3, <2>5 DEF DeleteLocalFile, TypeOK
    <3>2. KeyRivals(k)'
      BY <1>1, <2>1, <2>2 DEF KeyInv, KeyRivals, AtWork
    <3>3. ASSUME NEW w \in AtWork(k)', rivals'[w] = {}
          PROVE  WriteAlone(k, w)'
      <4>1. /\ w \in Requests /\ w \in AtWork(k) /\ rivals[w] = {}
            /\ request[w].pc \in Writing
        BY <1>1, <2>2, <3>3 DEF AtWork
      <4>2. WriteAlone(k, w)
        BY <4>1 DEF KeyInv
      <4>3. CASE request[w].pc = "insert"
        <5>1. request[w].bag \in Bags /\ request[w].bag.content = request[w].content
          BY <4>1, <4>2, <4>3, RequestFields DEF WriteAlone
        <5>2. request[w].content # Self
          BY <5>1, ContentsAssumption DEF Bags, Torn, Self
        <5>3. request'[w] = request[w]
          BY <2>1, <4>1, <5>2
        <5> QED
          BY <1>1, <3>1, <4>1, <4>2, <4>3, <5>3 DEF WriteAlone
      <4>4. CASE request[w].pc = "bag"
        <5>1. request'[w] = request[w] \/ flat'[k] = None
          BY <2>1, <2>5, <3>1, <4>1
        <5>2. Put(k) = {} /\ flat[k] \in {request[w].content, None}
          BY <4>1, <4>2, <4>4 DEF WriteAlone
        <5>3. request'[w].pc = "bag"
          BY <2>1, <4>1, <4>4
        <5> QED
          BY <1>1, <3>1, <5>1, <5>2, <5>3 DEF WriteAlone
      <4>5. CASE request[w].pc \notin {"bag", "insert"}
        BY <1>1, <2>1, <3>1, <4>1, <4>2, <4>5 DEF WriteAlone
      <4> QED
        BY <4>3, <4>4, <4>5
    <3>4. ASSUME NEW p \in Put(k)', touched'[p] = {}
          PROVE  ObjectAlone(k, p)'
      <4>1. ObjectAlone(k, p) /\ touched[p] = {}
        BY <1>1, <3>4 DEF KeyInv
      <4> QED
        BY <1>1, <2>2, <3>1, <4>1 DEF ObjectAlone
    <3> QED
      BY <2>3, <3>2, <3>3, <3>4 DEF KeyInv, ObjectAlone, WriteAlone
  <2> QED
    BY <2>4, <2>5
<1> QED
  BY <1>2, <1>3 DEF Offload

\* A step of w leaves the other requests where they are; only the copies on the
\* same key may find that their source is unlinked.
LEMMA WriteLeavesOthers ==
  ASSUME TypeOK, BagsKeyed, NEW w \in Requests, Write(w)
  PROVE  /\ \A u \in Requests : u # w =>
              /\ request'[u].pc = request[u].pc
              /\ request[u].pc \in Writing => request'[u].object = request[u].object
              /\ request[u].pc \in {"deleteLocal", "insert"} =>
                   request'[u].bag = request[u].bag
              /\ \/ request'[u] = request[u]
                 \/ u \in AtWork(KeyOf(request[w].object))
              /\ rivals'[u] = rivals[u]
         /\ request'[w].pc \in Writing => /\ request'[w].object = request[w].object
                                        /\ rivals[w] \subseteq rivals'[w]
<1>1. CASE DeleteLocal(w)
  <2>1. PICK b : b = request[w].bag
    OBVIOUS
  <2>2. /\ request[w].pc = "deleteLocal" /\ b \in Bags
        /\ b.key = KeyOf(request[w].object) /\ rivals' = rivals
    BY <1>1, <2>1, RequestFields DEF DeleteLocal, BagsKeyed, historyVars
  <2>3. CASE Goto(w, "deleteRow")
    BY <2>2, <2>3 DEF Goto, TypeOK
  <2>4. CASE request' = [Unlinked(b) EXCEPT ![w] =
                           [pc |-> "deleteRow", object |-> @.object,
                            content |-> @.content]]
    <3>1. \A u \in Requests :
            /\ Unlinked(b) \in [Requests -> RequestState]
            /\ Unlinked(b)[u].pc = request[u].pc
            /\ request[u].pc \in Writing => Unlinked(b)[u].object = request[u].object
            /\ request[u].pc \in {"deleteLocal", "insert"} =>
                 Unlinked(b)[u].bag = request[u].bag
            /\ u \notin AtWork(b.key) => Unlinked(b)[u] = request[u]
      BY <2>2, UnlinkedSame
    <3>2. \A u \in Requests : u # w => request'[u] = Unlinked(b)[u]
      BY <2>4, <3>1
    <3>3. request'[w].object = Unlinked(b)[w].object
      BY <2>4, <3>1
    <3> QED
      BY <2>2, <3>1, <3>2, <3>3 DEF Writing
  <2> QED
    BY <1>1, <2>1, <2>3, <2>4 DEF DeleteLocal
<1>2. CASE ~DeleteLocal(w)
  BY <1>2 DEF Write, Lookup, DeleteRow, CreateLocal, CopyInput, CreateBag,
              CreateFile, NothingToDelete, Step, StepWith, Goto, Return, TypeOK,
              Idle, Writing
<1> QED
  BY <1>1, <1>2

\* A request at work on another key leaves this one alone.
LEMMA WriteElsewhereIsQuiet ==
  ASSUME TypeOK, BagsKeyed, NEW k \in Keys, NEW w \in Requests, Write(w),
         KeyOf(request[w].object) # k
  PROVE  Quiet(k)
<1>0. request[w].pc \in Writing
  BY DEF Write, Lookup, DeleteLocal, DeleteRow, CreateLocal, CopyInput, CreateBag,
         CreateFile, Writing
<1>1. /\ request[w].object \in Objects /\ KeyOf(request[w].object) \in Keys
      /\ request[w].pc \in {"deleteLocal", "insert"} =>
           request[w].bag \in Bags /\ request[w].bag.key = KeyOf(request[w].object)
  BY <1>0, RequestFields, ObjectParts DEF BagsKeyed
<1>3. /\ AtWork(k)' = AtWork(k)
      /\ \A u \in AtWork(k) :
           request'[u] = request[u] /\ rivals'[u] = rivals[u]
  BY WriteLeavesOthers DEF AtWork
<1>4. /\ \A p \in Put(k) :
           rows'[p] = rows[p] /\ sent'[p] = sent[p] /\ touched'[p] = touched[p]
      /\ Put(k)' = Put(k)
  <2>1. \A p \in Objects : KeyOf(p) = k =>
          rows'[p] = rows[p] /\ sent'[p] = sent[p] /\ touched'[p] = touched[p]
    BY <1>1 DEF Write, Lookup, DeleteLocal, DeleteRow, DeleteRows, CreateLocal,
                CopyInput, CreateBag, CreateFile, tableVars, historyVars, TypeOK
  <2> QED
    BY <2>1 DEF Put, Exists
<1>5. /\ flat'[k] = flat[k]
      /\ k \in offloaded => k \in offloaded'
      /\ \A b \in Bags : b.key = k =>
           torrent'[b] = torrent[b] /\ fetched'[b] = fetched[b]
  <2>1. CASE Lookup(w) \/ DeleteRow(w) \/ CreateFile(w)
    BY <2>1 DEF Lookup, DeleteRow, CreateFile, diskVars, cleanerVars
  <2>2. CASE DeleteLocal(w)
    <3>1. DeleteLocalFile(request[w].bag) \/ DeleteLocalFileFails(request[w].bag)
      BY <2>2 DEF DeleteLocal
    <3>2. request[w].bag \in Bags /\ request[w].bag.key # k /\ offloaded' = offloaded
      BY <1>1, <2>2 DEF DeleteLocal, cleanerVars
    <3> QED
      BY <3>1, <3>2 DEF DeleteLocalFile, DeleteLocalFileFails, diskVars, TypeOK
  <2>3. CASE CreateLocal(w) \/ CopyInput(w)
    BY <1>1, <2>3 DEF CreateLocal, CopyInput, cleanerVars, TypeOK
  <2>4. CASE CreateBag(w)
    BY <1>1, <2>4 DEF CreateBag, diskVars, TypeOK
  <2> QED
    BY <2>1, <2>2, <2>3, <2>4 DEF Write
<1> QED
  BY <1>3, <1>4, <1>5 DEF Quiet

\* The INSERT of an upload that met no other: its object is the only one of the
\* key, and nobody else is at work.
LEMMA InsertKeepsKey ==
  ASSUME TypeOK, BagsKeyed, NEW k \in Keys, KeyInv(k),
         NEW w \in AtWork(k), CreateFile(w)
  PROVE  KeyInv(k)'
<1>0. PICK o : o = request[w].object
  OBVIOUS
<1>1. /\ w \in Requests /\ o \in Objects /\ KeyOf(o) = k
      /\ request[w].pc = "insert"
      /\ request[w].bag \in Bags /\ request[w].bag.key = k
  BY <1>0, RequestFields DEF CreateFile, AtWork, BagsKeyed
<1>2. /\ request'[w] = Idle
      /\ \A u \in Requests : u # w =>
           request'[u] = request[u] /\ rivals'[u] = rivals[u]
  BY <1>1 DEF CreateFile, Return, TypeOK
<1>3. /\ AtWork(k)' = AtWork(k) \ {w}
      /\ \A u \in AtWork(k)' : u # w /\ request'[u] = request[u]
                              /\ rivals'[u] = rivals[u]
  BY <1>2 DEF AtWork, Idle, Writing
<1>4. CASE UNCHANGED <<rows, sent, touched>>
  BY <1>3, <1>4, BusyKeepsKey DEF Put, Exists
<1>5. CASE /\ Insertable(o)
           /\ rows' = [rows EXCEPT ![o] = request[w].bag]
           /\ sent' = [sent EXCEPT ![o] = request[w].content]
           /\ touched' = [touched EXCEPT ![o] = rivals[w]]
  <2>1. /\ rows'[o] = request[w].bag /\ sent'[o] = request[w].content
        /\ touched'[o] = rivals[w]
        /\ \A p \in Objects : p # o =>
             rows'[p] = rows[p] /\ touched'[p] = touched[p]
    BY <1>1, <1>5 DEF TypeOK
  <2>2. Put(k)' \subseteq Put(k) \cup {o}
    BY <2>1 DEF Put, Exists
  <2>3. KeyRivals(k)'
    BY <1>3 DEF KeyInv, KeyRivals
  <2>4. ASSUME NEW u \in AtWork(k)'
        PROVE  WriteAlone(k, u)'
    <3>1. rivals'[u] # {}
      BY <1>3, <2>4 DEF KeyInv, KeyRivals
    <3> QED
      BY <3>1 DEF WriteAlone
  <2>5. ASSUME NEW p \in Put(k)', touched'[p] = {}
        PROVE  ObjectAlone(k, p)'
    <3>1. p = o
      BY <2>1, <2>2, <2>5 DEF KeyInv, ObjectAlone, Put
    <3>2. rivals[w] = {}
      BY <2>1, <2>5, <3>1
    <3>3. AtWork(k)' = {}
      BY <1>3, <3>2 DEF KeyInv, KeyRivals
    <3>4. /\ Put(k) = {} /\ request[w].bag.content = request[w].content
          /\ flat[k] \in {request[w].content, None}
          /\ Seeds(request[w].bag) \/ k \in offloaded
      BY <1>1, <3>2 DEF KeyInv, WriteAlone
    <3>5. Put(k)' = {o}
      BY <2>2, <2>5, <3>1, <3>4
    <3>6. UNCHANGED <<flat, fetched, torrent, offloaded>>
      BY DEF CreateFile, diskVars, cleanerVars
    <3>7. Seeds(rows[o])' \/ k \in offloaded'
      BY <1>1, <2>1, <3>4, <3>6 DEF Seeds
    <3> QED
      BY <2>1, <3>1, <3>3, <3>4, <3>5, <3>6, <3>7 DEF ObjectAlone
  <2> QED
    BY <2>3, <2>4, <2>5 DEF KeyInv, ObjectAlone
<1> QED
  BY <1>0, <1>4, <1>5 DEF CreateFile

\* A step of a request at work on the key itself.
LEMMA WriteKeepsKey ==
  ASSUME TypeOK, BagsKeyed, NEW k \in Keys, KeyInv(k),
         NEW w \in AtWork(k), Write(w)
  PROVE  KeyInv(k)'
<1>0. /\ w \in Requests /\ request[w].object \in Objects
      /\ KeyOf(request[w].object) = k
      /\ request[w].pc \in Writing
      /\ request[w].content \in Payloads \cup {None}
  BY RequestFields DEF AtWork
<1>2. /\ AtWork(k)' \subseteq AtWork(k)
      /\ \A u \in AtWork(k)' : /\ request'[u].object = request[u].object
                               /\ rivals[u] \subseteq rivals'[u]
  BY <1>0, WriteLeavesOthers DEF AtWork
<1>3. ASSUME rows' = rows, touched' = touched
      PROVE  Put(k)' = Put(k) /\ \A o \in Put(k)' : touched'[o] = touched[o]
  BY <1>3 DEF Put, Exists
<1>4. ASSUME request'[w].pc \notin {"copy", "bag", "insert"}
      PROVE  WriteAlone(k, w)'
  BY <1>4 DEF WriteAlone
<1>5. CASE Lookup(w)
  <2>1. request'[w].pc \notin {"copy", "bag", "insert"}
    BY <1>0, <1>5 DEF Lookup, NothingToDelete, Step, StepWith, Goto, Return, TypeOK, Idle
  <2> QED
    BY <1>2, <1>3, <1>4, <1>5, <2>1, BusyKeepsKey DEF Lookup, tableVars
<1>6. CASE DeleteLocal(w)
  <2>1. request'[w].pc \notin {"copy", "bag", "insert"}
    BY <1>0, <1>6 DEF DeleteLocal, Unlinked, Goto, TypeOK
  <2> QED
    BY <1>2, <1>3, <1>4, <1>6, <2>1, BusyKeepsKey
    DEF DeleteLocal, tableVars, historyVars
<1>7. CASE DeleteRow(w)
  <2>1. request'[w].pc \notin {"copy", "bag", "insert"}
    BY <1>0, <1>7 DEF DeleteRow, NothingToDelete, Step, Goto, Return, TypeOK, Idle
  <2>2. Put(k)' \subseteq Put(k) /\ \A o \in Put(k)' : touched'[o] = touched[o]
    BY <1>7 DEF DeleteRow, DeleteRows, Put, Exists
  <2> QED
    BY <1>2, <1>4, <2>1, <2>2, BusyKeepsKey
<1>8. CASE CreateLocal(w)
  <2>1. rows' = rows /\ touched' = touched
    BY <1>8 DEF CreateLocal, tableVars
  <2>2. WriteAlone(k, w)'
    <3>1. CASE Return(w)
      BY <1>0, <1>4, <3>1 DEF Return, TypeOK, Idle
    <3>2. CASE ~Return(w)
      <4>1. /\ flat'[k] = Empty
            /\ rivals'[w] = rivals[w] \cup {BucketOf(o) : o \in Put(k)}
            /\ request'[w].pc = "copy"
        BY <1>0, <1>8, <3>2 DEF CreateLocal, Goto, TypeOK
      <4>2. rivals'[w] = {} => Put(k)' = {}
        BY <1>3, <2>1, <4>1
      <4> QED
        BY <4>1, <4>2 DEF WriteAlone
    <3> QED
      BY <3>1, <3>2
  <2> QED
    BY <1>2, <1>3, <2>1, <2>2, BusyKeepsKey
<1>9. CASE CopyInput(w)
  <2>1. rows' = rows /\ touched' = touched
    BY <1>9 DEF CopyInput, tableVars
  <2>2. WriteAlone(k, w)'
    <3>1. CASE Return(w)
      BY <1>0, <1>4, <3>1 DEF Return, TypeOK, Idle
    <3>2. CASE ~Return(w)
      <4>1. /\ request[w].pc = "copy" /\ rivals' = rivals
            /\ request'[w].pc = "bag" /\ request'[w].content = request[w].content
        BY <1>0, <1>9, <3>2 DEF CopyInput, Step, Goto, TypeOK
      <4>2. PICK c \in Written(w) : flat'[k] = c
        BY <1>0, <1>9, <3>2 DEF CopyInput, TypeOK
      <4>3. ASSUME rivals[w] = {}
            PROVE  Put(k) = {} /\ c \in {request[w].content, None}
        <5>1. Put(k) = {} /\ flat[k] \in {Empty, None}
          BY <4>1, <4>3 DEF KeyInv, WriteAlone
        <5>2. AtWork(k) \ {w} = {}
          BY <4>3 DEF KeyInv, KeyRivals
        <5>3. Written(w) \subseteq {request[w].content, None}
          BY <1>0, <5>1, <5>2 DEF Written, WrittenPartly
        <5> QED
          BY <4>2, <5>1, <5>3
      <4> QED
        BY <1>3, <2>1, <4>1, <4>2, <4>3 DEF WriteAlone
    <3> QED
      BY <3>1, <3>2
  <2> QED
    BY <1>2, <1>3, <2>1, <2>2, BusyKeepsKey
<1>10. CASE CreateBag(w)
  <2>1. rows' = rows /\ touched' = touched
    BY <1>10 DEF CreateBag, tableVars
  <2>2. WriteAlone(k, w)'
    <3>1. CASE Return(w)
      BY <1>0, <1>4, <3>1 DEF Return, TypeOK, Idle
    <3>2. CASE ~Return(w)
      <4>1. PICK bag : bag = [key |-> k, content |-> Content(flat[k])]
        OBVIOUS
      <4>2. /\ request[w].pc = "bag" /\ rivals' = rivals /\ flat' = flat
            /\ fetched' = fetched
            /\ flat[k] # None /\ torrent' = [torrent EXCEPT ![bag] = "flat"]
            /\ request'[w].pc = "insert" /\ request'[w].bag = bag
            /\ request'[w].content = request[w].content
        BY <1>0, <1>10, <3>2, <4>1 DEF CreateBag, StepWith, diskVars, TypeOK
      <4>3. bag \in Bags
        BY <4>1, <4>2 DEF TypeOK, FileContents, Content, Bags
      <4>4. torrent'[bag] = "flat"
        BY <4>2, <4>3 DEF TypeOK
      <4>5. ASSUME rivals[w] = {}
            PROVE  /\ Put(k) = {} /\ flat[k] = request[w].content
                   /\ bag.content = request[w].content
        <5>1. Put(k) = {} /\ flat[k] = request[w].content
          BY <4>2, <4>5 DEF KeyInv, WriteAlone
        <5>2. flat[k] # Empty
          BY <1>0, <5>1, ContentsAssumption
          DEF Payloads, Empty, Torn, Self, None
        <5> QED
          BY <4>1, <5>1, <5>2 DEF Content
      <4>6. ASSUME rivals[w] = {}
            PROVE  Seeds(bag)'
        BY <4>1, <4>2, <4>4, <4>5, <4>6 DEF Seeds
      <4> QED
        BY <1>3, <2>1, <4>2, <4>5, <4>6 DEF WriteAlone
    <3> QED
      BY <3>1, <3>2
  <2> QED
    BY <1>2, <1>3, <2>1, <2>2, BusyKeepsKey
<1>11. CASE CreateFile(w)
  BY <1>11, InsertKeepsKey
<1> QED
  BY <1>5, <1>6, <1>7, <1>8, <1>9, <1>10, <1>11 DEF Write

\* A reading request that does not go on to write was and is no writing one.
LEMMA ReadMoves ==
  ASSUME TypeOK, NEW r \in Requests, Read(r),
         ~ \E o \in Objects : CopyObject(r, o)
  PROVE  /\ request[r].pc \notin Writing /\ request'[r].pc \notin Writing
         /\ \A u \in Requests : u # r => request'[u] = request[u]
<1>1. CASE \E o \in Objects : GetObject(r, o) \/ DownloadFile(r, o) \/ RestoreFile(r, o)
  BY <1>1 DEF GetObject, DownloadFile, RestoreFile, Request, TypeOK, Writing
<1>2. CASE Look(r) \/ GetPathToBagFile(r)
  BY <1>2 DEF Look, GetPathToBagFile, Found, TypeOK, Writing, Idle
<1>3. CASE Wait(r) \/ OpenFile(r)
  BY <1>3 DEF Wait, OpenFile, Found, TypeOK, Writing, Idle
<1>4. CASE DownloadBag(r)
  <2>1. /\ request[r].pc \in {"look", "restore"}
        /\ \/ request' = [request EXCEPT ![r] = [request[r] EXCEPT !.pc = "wait"]]
           \/ request' = [request EXCEPT ![r] = Idle]
    BY <1>4 DEF DownloadBag
  <2>2. request[r] \in [pc : {"look", "wait", "find", "restore"}, object : Objects, bag : Bags]
    BY <2>1, RequestFields DEF TypeOK, RequestState, Idle, Writing
  <2>3. [request[r] EXCEPT !.pc = "wait"].pc = "wait"
    BY <2>2
  <2> QED
    BY <2>1, <2>2, <2>3 DEF TypeOK, Writing, Idle
<1> QED
  BY <1>1, <1>2, <1>3, <1>4 DEF Read

\* Such a step of a reading request leaves what writing requests and objects have.
LEMMA ReadIsQuiet ==
  ASSUME TypeOK, NEW k \in Keys, NEW r \in Requests, Read(r),
         ~ \E o \in Objects : CopyObject(r, o)
  PROVE  Quiet(k)
<1>1. /\ request[r].pc \notin Writing /\ request'[r].pc \notin Writing
      /\ \A u \in Requests : u # r => request'[u] = request[u]
  BY ReadMoves
<1>2. AtWork(k)' = AtWork(k) /\ \A u \in AtWork(k) : request'[u] = request[u]
  BY <1>1 DEF AtWork
<1>3. UNCHANGED <<tableVars, diskVars, historyVars, cleanerVars>>
  BY DEF Read, GetObject, DownloadFile, RestoreFile, Request, Look, GetPathToBagFile,
         DownloadBag, Wait, OpenFile
<1>4. \A b \in Bags : torrent[b] # None => torrent'[b] = torrent[b]
  <2>1. CASE DownloadBag(r)
    BY <2>1 DEF DownloadBag, TypeOK
  <2>2. CASE ~DownloadBag(r)
    BY <2>2 DEF Read, GetObject, DownloadFile, RestoreFile, Request, Look,
                GetPathToBagFile, Wait, OpenFile
  <2> QED
    BY <2>1, <2>2
<1>5. Put(k)' = Put(k)
  BY <1>3 DEF Put, Exists, tableVars
<1> QED
  BY <1>1, <1>2, <1>3, <1>4, <1>5
  DEF Quiet, tableVars, diskVars, historyVars, cleanerVars

\* A request that begins holds no bag yet.
LEMMA BeginKeepsBags ==
  ASSUME TypeOK, BagsKeyed, NEW w \in Requests, NEW o,
         NEW pc \in {"lookup", "create"}, NEW content,
         Begin(w, o, pc, content), rows' = rows
  PROVE  BagsKeyed'
<1>1. /\ request'[w].pc = pc
      /\ \A u \in Requests : u # w => request'[u] = request[u]
  BY DEF Begin, TypeOK
<1> QED
  BY <1>1 DEF BagsKeyed, Exists

LEMMA WriteKeepsBags ==
  ASSUME TypeOK, BagsKeyed, NEW w \in Requests, Write(w)
  PROVE  BagsKeyed'
<1>0. request[w].pc \in Writing /\ request[w].object \in Objects
  BY RequestFields
  DEF Write, Lookup, DeleteLocal, DeleteRow, CreateLocal, CopyInput, CreateBag,
      CreateFile, Writing
<1>1. \A u \in Requests : u # w =>
        /\ request'[u].pc = request[u].pc
        /\ request[u].pc \in Writing => request'[u].object = request[u].object
        /\ request[u].pc \in {"deleteLocal", "insert"} =>
             request'[u].bag = request[u].bag
  BY WriteLeavesOthers
<1>2. request'[w].pc \in {"deleteLocal", "insert"} =>
        request'[w].bag.key = KeyOf(request'[w].object)
  <2>1. CASE Lookup(w)
    BY <1>0, <2>1 DEF Lookup, NothingToDelete, Step, StepWith, Goto, Return, TypeOK,
                      Idle, BagsKeyed
  <2>2. CASE CreateBag(w)
    <3>1. CASE Return(w)
      BY <3>1 DEF Return, TypeOK, Idle
    <3>2. CASE StepWith(w, "insert", [key |-> KeyOf(request[w].object),
                                      content |-> Content(flat[KeyOf(request[w].object)])])
      BY <3>2 DEF StepWith, TypeOK
    <3> QED
      BY <2>2, <3>1, <3>2 DEF CreateBag
  <2>3. CASE ~Lookup(w) /\ ~CreateBag(w)
    BY <2>3 DEF Write, DeleteLocal, Unlinked, DeleteRow, CreateLocal, CopyInput,
                CreateFile, NothingToDelete, Step, Goto, Return, TypeOK, Idle
  <2> QED
    BY <2>1, <2>2, <2>3
<1>3. \A o \in Objects : rows'[o] # NoBag => rows'[o].key = KeyOf(o)
  <2>1. CASE CreateFile(w)
    BY <1>0, <2>1 DEF CreateFile, BagsKeyed, Exists, TypeOK
  <2>2. CASE DeleteRow(w)
    BY <2>2 DEF DeleteRow, DeleteRows, BagsKeyed, Exists
  <2>3. CASE ~CreateFile(w) /\ ~DeleteRow(w)
    BY <2>3 DEF Write, Lookup, DeleteLocal, CreateLocal, CopyInput, CreateBag,
                tableVars, BagsKeyed, Exists
  <2> QED
    BY <2>1, <2>2, <2>3
<1> QED
  BY <1>1, <1>2, <1>3 DEF BagsKeyed, Exists, Writing

\* BagsKeyed, and what every key needs of it, is kept by every step.
LEMMA KeysNext ==
  ASSUME TypeOK, BagsKeyed, \A k \in Keys : KeyInv(k), [Next]_vars
  PROVE  BagsKeyed' /\ \A k \in Keys : KeyInv(k)'
<1>0. SUFFICES ASSUME NEW k
               PROVE  BagsKeyed' /\ (k \in Keys => KeyInv(k)')
  OBVIOUS
<1>1. CASE \/ \E b \in Buckets : CreateBucket(b) \/ DeleteBucket(b)
           \/ \E o \in Objects : List(o)
           \/ \E b \in Bags : Fetch(b)
           \/ UNCHANGED vars
  <2>1. request' = request /\ rivals' = rivals /\ flat' = flat /\ torrent' = torrent
    BY <1>1 DEF CreateBucket, DeleteBucket, List, Fetch, vars, diskVars, historyVars
  <2>2. /\ \A b \in Bags : fetched[b] = "whole" => fetched'[b] = "whole"
        /\ offloaded' = offloaded
    BY <1>1 DEF CreateBucket, DeleteBucket, List, Fetch, vars, diskVars, cleanerVars,
                TypeOK
  <2>3. \A o \in Objects : \/ rows'[o] = NoBag
                           \/ /\ rows'[o] = rows[o] /\ sent'[o] = sent[o]
                              /\ touched'[o] = touched[o]
    BY <1>1 DEF CreateBucket, DeleteBucket, DeleteRows, List, Fetch, vars,
                tableVars, historyVars
  <2>4. BagsKeyed'
    BY <2>1, <2>3 DEF BagsKeyed, Exists
  <2>5. Quiet(k)
    BY <2>1, <2>2, <2>3 DEF Quiet, AtWork, Put, Exists
  <2> QED
    BY <2>4, <2>5, QuietKeepsKey
<1>2. ASSUME NEW w \in Requests, NEW o \in Objects,
             \/ DeleteObject(w, o)
             \/ \E content \in Contents :
                  PutObject(w, o, content) \/ UploadFile(w, o, content)
      PROVE  BagsKeyed' /\ (k \in Keys => KeyInv(k)')
  <2>1. PICK pc \in {"lookup", "create"}, content \in Contents \cup {None} :
          Begin(w, o, pc, content)
    BY <1>2 DEF DeleteObject, PutObject, UploadFile
  <2>2. request[w].pc = "idle" /\ rows' = rows
    BY <1>2 DEF DeleteObject, PutObject, UploadFile, tableVars, Idle
  <2> QED
    BY <2>1, <2>2, BeginKeepsKey, BeginKeepsBags
<1>3. ASSUME NEW w \in Requests, Write(w)
      PROVE  BagsKeyed' /\ (k \in Keys => KeyInv(k)')
  <2>1. request[w].pc \in Writing
    BY <1>3 DEF Write, Lookup, DeleteLocal, DeleteRow, CreateLocal, CopyInput,
                CreateBag, CreateFile, Writing
  <2>2. CASE k \in Keys /\ KeyOf(request[w].object) = k
    BY <1>3, <2>1, <2>2, WriteKeepsKey, WriteKeepsBags DEF AtWork
  <2>3. CASE k \in Keys /\ KeyOf(request[w].object) # k
    BY <1>3, <2>3, WriteElsewhereIsQuiet, QuietKeepsKey, WriteKeepsBags
  <2> QED
    BY <1>3, <2>2, <2>3, WriteKeepsBags
<1>4. ASSUME NEW r \in Requests, Read(r)
      PROVE  BagsKeyed' /\ (k \in Keys => KeyInv(k)')
  <2>1. CASE \E o \in Objects : CopyObject(r, o)
    <3>1. PICK o \in Objects : CopyObject(r, o)
      BY <2>1
    <3> QED
      BY <3>1, BeginKeepsKey, BeginKeepsBags DEF CopyObject, tableVars
  <2>2. CASE ~ \E o \in Objects : CopyObject(r, o)
    <3>1. rows' = rows
      BY <1>4, <2>2 DEF Read, GetObject, DownloadFile, RestoreFile, Request, Look,
                        GetPathToBagFile, DownloadBag, Wait, OpenFile, tableVars
    <3>2. /\ request'[r].pc \notin Writing
          /\ \A u \in Requests : u # r => request'[u] = request[u]
      BY <1>4, <2>2, ReadMoves
    <3>3. BagsKeyed'
      BY <3>1, <3>2 DEF BagsKeyed, Exists, Writing
    <3> QED
      BY <1>4, <2>2, <3>3, ReadIsQuiet, QuietKeepsKey
  <2> QED
    BY <2>1, <2>2
<1>5. ASSUME NEW b \in Bags, Offload(b)
      PROVE  BagsKeyed' /\ (k \in Keys => KeyInv(k)')
  <2>1. b.key \in Keys
    BY DEF Bags
  <2> QED
    BY <1>5, <2>1, OffloadKeepsKey
<1>6. CASE Restart
  <2>1. /\ \A r \in Requests : request'[r].pc = "idle"
        /\ UNCHANGED <<rows, flat, fetched, torrent, touched, sent, offloaded>>
    BY <1>6 DEF Restart, Idle, tableVars, diskVars
  <2>2. AtWork(k)' = {} /\ Put(k)' = Put(k)
    BY <2>1 DEF AtWork, Writing, Put, Exists
  <2>3. BagsKeyed' /\ Quiet(k)
    BY <2>1, <2>2 DEF BagsKeyed, Exists, Quiet
  <2> QED
    BY <2>3, QuietKeepsKey
<1> QED
  BY <1>1, <1>2, <1>3, <1>4, <1>5, <1>6 DEF Next

-----------------------------------------------------------------------------
(* The theorems.                                                           *)

\* A request that has met no other for its key has the file to itself, from
\* os.Create to the INSERT, and so has an object that no request for its key has
\* been at work for: what is seeded is what the client sent, and it is seeded
\* until a cleaner or the admin deletes the local data of the key.
THEOREM ObjectsInvariant == Spec => []ObjectsInv
<1>1. Init => ObjectsInv
  <2> SUFFICES ASSUME Init
               PROVE  ObjectsInv
    OBVIOUS
  <2>1. /\ \A r \in Requests : request[r].pc = "idle"
        /\ \A o \in Objects : ~Exists(o)
    BY DEF Init, Idle, Exists
  <2>2. \A k \in Keys : AtWork(k) = {} /\ Put(k) = {}
    BY <2>1 DEF AtWork, Writing, Put
  <2>3. BagsKeyed /\ \A k \in Keys : KeyInv(k)
    BY <2>1, <2>2 DEF BagsKeyed, KeyInv, KeyRivals
  <2> QED
    BY <2>3, TypeInit, ObjectsInvByKey
<1>2. ObjectsInv /\ [Next]_vars => ObjectsInv'
  <2> SUFFICES ASSUME ObjectsInv, [Next]_vars
               PROVE  ObjectsInv'
    OBVIOUS
  <2>1. TypeOK /\ TypeOK'
    BY TypeNext DEF ObjectsInv
  <2>2. BagsKeyed' /\ \A k \in Keys : KeyInv(k)'
    BY <2>1, ObjectsInvByKey, KeysNext
  <2>3. RivalsKnown' /\ WritesAlone'
    BY <2>2 DEF RivalsKnown, WritesAlone, KeyInv, KeyRivals, WriteAlone
  <2>4. UntouchedAlone'
    BY <2>2, ObjectParts DEF UntouchedAlone, KeyInv, ObjectAlone, Put
  <2> QED
    BY <2>1, <2>2, <2>3, <2>4 DEF ObjectsInv
<1> QED
  BY <1>1, <1>2, PTL DEF Spec

\* What an untouched object is served with is what its client sent, wherever
\* the file was found, or a part of it while the bag is still arriving.
THEOREM ServesWhatWasPutCorrect == Spec => []ServesWhatWasPut
<1>1. ObjectsInv => ServesWhatWasPut
  <2> SUFFICES ASSUME ObjectsInv, NEW r \in Requests, Serves(r),
                      touched[request[r].object] = {}
               PROVE  \/ Opened(r) = sent[request[r].object]
                      \/ /\ Partial(r)
                         /\ request[r].bag.content = sent[request[r].object]
    BY DEF ServesWhatWasPut
  <2> DEFINE o == request[r].object
  <2>1. o \in Objects /\ request[r].bag \in Bags /\ rows[o] = request[r].bag
    BY RequestFields DEF ObjectsInv, Serves
  <2>2. Exists(o)
    <3>1. rows[o].content # None
      BY <2>1, ContentsAssumption DEF Bags, Torn, None
    <3> QED
      BY <3>1 DEF Exists, NoBag
  <2>3. rows[o].content = sent[o] /\ flat[KeyOf(o)] \in {None, sent[o]}
    BY <2>1, <2>2 DEF ObjectsInv, UntouchedAlone
  <2> QED
    BY <2>1, <2>3 DEF Serves, Opened
<1> QED
  BY <1>1, ObjectsInvariant, PTL

\* An untouched object is seeded until the local data of its key is deleted.
THEOREM UntouchedKeptCorrect == Spec => []UntouchedKept
<1>1. ObjectsInv => UntouchedKept
  BY DEF ObjectsInv, UntouchedAlone, UntouchedKept
<1> QED
  BY <1>1, ObjectsInvariant, PTL

\* A row that is gone: its bucket was deleted, or a DeleteRow named it.
LEMMA RowsLost ==
  ASSUME TypeOK, Next, NEW o \in Objects, Exists(o), rows'[o] # rows[o]
  PROVE  \/ buckets' # buckets
         \/ \E w \in Requests : request[w].pc = "deleteRow" /\ request[w].object = o
<1>1. CASE \E b \in Buckets : CreateBucket(b) \/ DeleteBucket(b)
  BY <1>1 DEF CreateBucket, DeleteBucket
<1>2. CASE \E w \in Requests : Write(w)
  <2>1. PICK w \in Requests : Write(w)
    BY <1>2
  <2>2. CASE DeleteRow(w)
    BY <2>2 DEF DeleteRow, DeleteRows
  <2>3. CASE CreateFile(w)
    <3>1. request[w].object \in Objects
      BY <2>3, RequestFields DEF CreateFile, Writing
    <3> QED
      BY <2>3, <3>1 DEF CreateFile, Insertable, TypeOK
  <2>4. CASE ~DeleteRow(w) /\ ~CreateFile(w)
    BY <2>1, <2>4 DEF Write, Lookup, DeleteLocal, CreateLocal, CopyInput, CreateBag,
                      tableVars
  <2> QED
    BY <2>2, <2>3, <2>4
<1>3. CASE ~ \E b \in Buckets : CreateBucket(b) \/ DeleteBucket(b)
  <2>1. CASE ~ \E w \in Requests : Write(w)
    BY <1>3, <2>1
    DEF Next, DeleteObject, PutObject, UploadFile, Read, GetObject, DownloadFile,
        RestoreFile, Request, Look, GetPathToBagFile, DownloadBag, Wait, OpenFile,
        CopyObject, List, Offload, Fetch, Restart, tableVars
  <2> QED
    BY <1>2, <2>1
<1> QED
  BY <1>1, <1>3

\* A torrent that is loaded: by a CreateBag, whose request will insert a row for
\* it, or by a GetObject or a restoreFile.
LEMMA TorrentsLoaded ==
  ASSUME TypeOK, Next, NEW b \in Bags, torrent[b] = None, torrent'[b] # None
  PROVE  \/ \E w \in Requests : request'[w].pc = "insert" /\ request'[w].bag = b
         \/ \E r \in Requests :
              request[r].pc \in {"look", "restore"} /\ request[r].bag = b
<1>1. ASSUME NEW c, DeleteLocalFile(c) \/ DeleteLocalFileFails(c)
      PROVE  torrent'[b] \in {torrent[b], None}
  BY <1>1 DEF DeleteLocalFile, DeleteLocalFileFails, TypeOK
<1>2. ASSUME NEW w \in Requests, Write(w)
      PROVE  \E u \in Requests : request'[u].pc = "insert" /\ request'[u].bag = b
  <2>1. CASE CreateBag(w)
    <3>1. PICK bag : /\ torrent' = [torrent EXCEPT ![bag] = "flat"]
                     /\ StepWith(w, "insert", bag)
      BY <2>1 DEF CreateBag
    <3>2. bag = b
      BY <3>1 DEF TypeOK
    <3> QED
      BY <3>1, <3>2 DEF StepWith, TypeOK
  <2>2. CASE DeleteLocal(w)
    BY <1>1, <2>2 DEF DeleteLocal
  <2>3. CASE ~CreateBag(w) /\ ~DeleteLocal(w)
    BY <1>2, <2>3 DEF Write, Lookup, DeleteRow, CreateLocal, CopyInput, CreateFile
  <2> QED
    BY <2>1, <2>2, <2>3
<1>3. ASSUME NEW r \in Requests, Read(r)
      PROVE  request[r].pc \in {"look", "restore"} /\ request[r].bag = b
  <2>1. CASE DownloadBag(r)
    BY <2>1 DEF DownloadBag, TypeOK
  <2>2. CASE ~DownloadBag(r)
    BY <1>3, <2>2 DEF Read, GetObject, DownloadFile, RestoreFile, Request, Look,
                      GetPathToBagFile, Wait, OpenFile, CopyObject, Begin
  <2> QED
    BY <2>1, <2>2
<1>4. ASSUME NEW c \in Bags
      PROVE  ~Offload(c)
  BY <1>1 DEF Offload
<1> QED
  BY <1>2, <1>3, <1>4
  DEF Next, CreateBucket, DeleteBucket, DeleteObject, PutObject, UploadFile, Begin,
      List, Fetch, Restart

\* Torrents that are seeded for ever without a row have one of five origins: a
\* failed INSERT, a deleted bucket, a DeleteObject of a bag that is (still, or
\* again) loaded, or a GetObject or a restoreFile of an object that is gone.
THEOREM OrphansOnlyByCorrect == Spec => OrphansOnlyBy
<1> DEFINE Excused(b) ==
      \/ \E w \in Requests : request[w].pc = "insert" /\ request[w].bag = b
      \/ buckets' # buckets
      \/ \E w \in Requests :
           request[w].pc = "deleteRow" /\ rows[request[w].object] = b
      \/ \E r \in Requests :
           request[r].pc \in {"look", "restore"} /\ request[r].bag = b
    ByOnly == \A b \in Bags : Orphan(b)' /\ ~Orphan(b) => Excused(b)
<1>1. TypeOK /\ [Next]_vars => [ByOnly]_vars
  <2> SUFFICES ASSUME TypeOK, Next, NEW b \in Bags, Orphan(b)', ~Orphan(b)
               PROVE  Excused(b)
    OBVIOUS
  <2>1. /\ torrent'[b] # None
        /\ \A o \in Objects : rows'[o] # b
        /\ \A w \in Requests : request'[w].pc = "insert" => request'[w].bag # b
    BY DEF Orphan
  <2>2. CASE torrent[b] = None
    BY <2>1, <2>2, TorrentsLoaded
  <2>3. CASE \E o \in Objects : rows[o] = b
    <3>1. PICK o \in Objects : rows[o] = b
      BY <2>3
    <3>2. Exists(o)
      <4>1. b.content # None
        BY ContentsAssumption DEF Bags, Torn, None
      <4> QED
        BY <3>1, <4>1 DEF Exists, NoBag
    <3> QED
      BY <2>1, <3>1, <3>2, RowsLost
  <2> QED
    BY <2>2, <2>3 DEF Orphan
<1>2. [][ByOnly]_vars => OrphansOnlyBy
  BY DEF OrphansOnlyBy
<1> QED
  BY <1>1, <1>2, ObjectsTypeCorrect, PTL DEF Spec
=============================================================================
