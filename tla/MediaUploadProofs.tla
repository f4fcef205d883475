-------------------------- MODULE MediaUploadProofs --------------------------
(***************************************************************************)
(* Theorems about photo uploads for any number of events, paths, sizes and *)
(* workers.                                                                *)
(*                                                                         *)
(* The argument.  A path belongs to one call at a time and is new when the *)
(* call gets it, so nobody else touches the object or the row of a call in *)
(* flight.  What the call knows of the two by its program counter          *)
(* (InFlight) is then all that its next step needs.                        *)
(***************************************************************************)
EXTENDS MediaUpload, TLAPS

Upload == [pc : {"store", "insert"}, user : Users, event : Events, path : Paths,
           content : Object]

Running(w) == call[w] # Idle

PathsApart ==
    \A v, w \in Workers :
        Running(v) /\ Running(w) /\ call[v].path = call[w].path => v = w

\* Stored before "insert", and nothing written before.
InFlight ==
    \A w \in Workers : Running(w) =>
        LET c == call[w] IN
        /\ c.content.size = c.content.sent
        /\ media[c.path] = Nil
        /\ c.pc = "store" => bucket[c.path] = Nil
        /\ c.pc = "insert" => bucket[c.path] # Nil

MInv ==
    /\ TypeOK
    /\ PathsApart
    /\ InFlight
    /\ NoDeadLinks
    /\ StoredWhole
    /\ OrphansAreFailures

\* Objects and rows are written once.
WrittenOnce ==
    \A p \in Paths :
        /\ bucket[p] # Nil => bucket'[p] = bucket[p]
        /\ media[p] # Nil => media'[p] = media[p]

-----------------------------------------------------------------------------
LEMMA CallTypes ==
    ASSUME TypeOK, NEW w \in Workers, Running(w)
    PROVE  call[w] \in Upload
BY DEF TypeOK, Running, Upload

LEMMA IdlePath ==
    ASSUME TypeOK, NEW w \in Workers, NEW p \in Paths, call[w].path = p
    PROVE  Running(w)
BY MediaAssumption DEF TypeOK, Running, Idle

LEMMA InitMInv == Init => MInv
<1> SUFFICES ASSUME Init PROVE MInv
  OBVIOUS
<1>1. TypeOK
  BY DEF Init, TypeOK
<1>2. PathsApart /\ InFlight
  BY DEF Init, PathsApart, InFlight, Running
<1>3. NoDeadLinks /\ StoredWhole /\ OrphansAreFailures
  BY DEF Init, NoDeadLinks, StoredWhole, OrphansAreFailures, Linked
<1> QED
  BY <1>1, <1>2, <1>3 DEF MInv

\* A limit that is read one byte past tells a whole file from a longer one.
LEMMA ReadsWhole ==
    ASSUME NEW size \in Sizes, ReadBytes(size) \in 1..MAX_MEDIA_BYTES
    PROVE  ReadBytes(size) = size
BY MediaAssumption DEF ReadBytes, Least

LEMMA CheckKeeps ==
    ASSUME MInv, NEW w \in Workers, NEW u \in Users, NEW e \in Events,
           NEW f \in File, NEW p \in Paths, UploadCheck(w, u, e, f, p)
    PROVE  MInv'
<1> DEFINE c == [pc |-> "store", user |-> u, event |-> e, path |-> p,
                 content |-> [size |-> ReadBytes(f.size), sent |-> f.size]]
<1>1. /\ c \in Upload /\ c.content.size = c.content.sent /\ c # Idle
      /\ c.pc = "store" /\ c.path = p
  <2>1. ReadBytes(f.size) \in 1..MAX_MEDIA_BYTES /\ f.size \in Sizes
    BY DEF UploadCheck, MayUpload, File
  <2>2. ReadBytes(f.size) = f.size
    BY <2>1, ReadsWhole
  <2> QED
    BY <2>1, <2>2, MediaAssumption DEF Upload, Object, Idle
<1>2. call' = [call EXCEPT ![w] = c] /\ UNCHANGED <<configured, bucket, media, failed>>
  BY DEF UploadCheck
<1>3. /\ bucket[p] = Nil /\ media[p] = Nil
      /\ \A v \in Workers : call[v].path # p
  BY DEF UploadCheck, Fresh, MInv, NoDeadLinks, Linked
<1> HIDE DEF c
<1>4. \A v \in Workers : call'[v] = IF v = w THEN c ELSE call[v]
  BY <1>2 DEF MInv, TypeOK
<1>5. TypeOK'
  BY <1>1, <1>2 DEF MInv, TypeOK, Upload
<1>6. PathsApart'
  BY <1>1, <1>3, <1>4 DEF MInv, PathsApart, Running
<1>7. InFlight'
  BY <1>1, <1>2, <1>3, <1>4 DEF MInv, InFlight, Running
<1>8. NoDeadLinks' /\ StoredWhole'
  BY <1>2 DEF MInv, NoDeadLinks, StoredWhole, Linked
<1>9. OrphansAreFailures'
  BY <1>2, <1>4, MediaAssumption DEF MInv, OrphansAreFailures, UploadCheck, Idle
<1> QED
  BY <1>5, <1>6, <1>7, <1>8, <1>9 DEF MInv

-----------------------------------------------------------------------------
(* The steps of a call in flight change the object and the row of its own  *)
(* path, if any.                                                           *)

LEMMA OwnPathKeeps ==
    ASSUME MInv, TypeOK', NEW w \in Workers, Running(w),
           NEW p \in Paths, p = call[w].path,
           \A v \in Workers \ {w} : call'[v] = call[v],
           \A q \in Paths \ {p} : bucket'[q] = bucket[q] /\ media'[q] = media[q],
           failed \subseteq failed',
           bucket'[p] # Nil => bucket'[p].size = bucket'[p].sent,
           media'[p] # Nil => bucket'[p] # Nil,
           call'[w] # Idle =>
              /\ call'[w].path = p
              /\ call'[w].content.size = call'[w].content.sent
              /\ media'[p] = Nil
              /\ call'[w].pc = "store" => bucket'[p] = Nil
              /\ call'[w].pc = "insert" => bucket'[p] # Nil,
           call'[w] = Idle /\ bucket'[p] # Nil /\ media'[p] = Nil => p \in failed'
    PROVE  MInv'
<1>1. PathsApart'
  BY DEF MInv, PathsApart, Running
<1>2. InFlight'
  <2> SUFFICES ASSUME NEW v \in Workers, call'[v] # Idle
               PROVE  /\ call'[v].content.size = call'[v].content.sent
                      /\ media'[call'[v].path] = Nil
                      /\ call'[v].pc = "store" => bucket'[call'[v].path] = Nil
                      /\ call'[v].pc = "insert" => bucket'[call'[v].path] # Nil
    BY DEF InFlight, Running
  <2>1. CASE v = w
    BY <2>1
  <2>2. CASE v # w
    <3>1. Running(v) /\ call[v].path \in Paths /\ call[v].path # p
      BY <2>2, CallTypes DEF MInv, PathsApart, Running, Upload
    <3> QED
      BY <2>2, <3>1 DEF MInv, InFlight
  <2> QED
    BY <2>1, <2>2
<1>3. NoDeadLinks' /\ StoredWhole'
  BY DEF MInv, NoDeadLinks, Linked, StoredWhole
<1>4. OrphansAreFailures'
  <2> SUFFICES ASSUME NEW q \in Paths, bucket'[q] # Nil, media'[q] = Nil
               PROVE  q \in failed' \/ \E v \in Workers : call'[v].path = q
    BY DEF OrphansAreFailures
  <2>1. CASE q = p
    BY <2>1
  <2>2. CASE q # p
    <3>1. q \in failed \/ \E v \in Workers : call[v].path = q
      BY <2>2 DEF MInv, OrphansAreFailures
    <3> QED
      BY <2>2, <3>1
  <2> QED
    BY <2>1, <2>2
<1> QED
  BY <1>1, <1>2, <1>3, <1>4 DEF MInv

\* A call that ends without a row, whatever it leaves in the bucket.
LEMMA EndKeeps ==
    ASSUME MInv, NEW w \in Workers, Running(w), NotCreated(w),
           UNCHANGED <<configured, media>>,
           bucket' \in {bucket, Stored(w)}
    PROVE  MInv'
<1> DEFINE p == call[w].path
<1>1. /\ call[w] \in Upload /\ p \in Paths /\ call[w].content \in Object
      /\ media[p] = Nil /\ call[w].content.size = call[w].content.sent
  BY CallTypes DEF MInv, Upload, InFlight
<1>2. /\ bucket' \in [Paths -> Object \cup {Nil}]
      /\ bucket'[p] \in {bucket[p], call[w].content}
      /\ \A q \in Paths \ {p} : bucket'[q] = bucket[q]
  BY <1>1 DEF MInv, TypeOK, Stored
<1>3. bucket'[p] # Nil => bucket'[p].size = bucket'[p].sent
  BY <1>1, <1>2 DEF MInv, StoredWhole
<1>4. /\ call'[w] = Idle
      /\ \A v \in Workers \ {w} : call'[v] = call[v]
      /\ failed' = failed \cup {p}
  BY DEF NotCreated, MInv, TypeOK
<1>5. TypeOK'
  BY <1>1, <1>2, <1>4 DEF MInv, TypeOK, NotCreated
<1> HIDE DEF p
<1> QED
  BY <1>1, <1>2, <1>3, <1>4, <1>5, OwnPathKeeps DEF p

LEMMA StoreKeeps ==
    ASSUME MInv, NEW w \in Workers, Store(w)
    PROVE  MInv'
<1>1. Running(w)
  BY DEF Store, Running, Idle
<1>2. CASE bucket' \in {bucket, Stored(w)} /\ NotCreated(w)
  BY <1>1, <1>2, EndKeeps DEF Store
<1>3. CASE /\ bucket' = Stored(w)
           /\ call' = [call EXCEPT ![w].pc = "insert"]
           /\ UNCHANGED failed
  <2> DEFINE p == call[w].path
  <2>1. /\ call[w] \in Upload /\ p \in Paths /\ call[w].content \in Object
        /\ media[p] = Nil /\ call[w].content.size = call[w].content.sent
    BY <1>1, CallTypes DEF MInv, Upload, InFlight
  <2>2. /\ bucket'[p] = call[w].content /\ bucket'[p] # Nil
        /\ \A q \in Paths \ {p} : bucket'[q] = bucket[q]
    BY <1>3, <2>1, NilAssumption DEF MInv, TypeOK, Stored
  <2>3. /\ call'[w] = [call[w] EXCEPT !.pc = "insert"]
        /\ \A v \in Workers \ {w} : call'[v] = call[v]
    BY <1>3 DEF MInv, TypeOK
  <2>4. /\ call'[w] \in Upload /\ call'[w].path = p /\ call'[w].pc = "insert"
        /\ call'[w].content = call[w].content /\ call'[w] # Idle
    BY <2>1, <2>3 DEF Upload, Idle
  <2>5. TypeOK'
    <3>1. call' \in [Workers -> {Idle} \cup Upload]
      BY <1>3, <2>3, <2>4 DEF MInv, TypeOK, Upload
    <3>2. bucket' \in [Paths -> Object \cup {Nil}]
      BY <1>3, <2>1 DEF MInv, TypeOK, Stored
    <3> QED
      BY <1>3, <3>1, <3>2 DEF MInv, TypeOK, Store, Upload
  <2>6. /\ \A v \in Workers \ {w} : call'[v] = call[v]
        /\ \A q \in Paths : media'[q] = media[q]
        /\ failed \subseteq failed' /\ media'[p] = Nil
        /\ call'[w].content.size = call'[w].content.sent
        /\ bucket'[p].size = bucket'[p].sent
    BY <1>3, <2>1, <2>2, <2>3, <2>4 DEF Store
  <2>7. p = call[w].path
    OBVIOUS
  <2> HIDE DEF p
  <2> QED
    BY <1>1, <2>1, <2>2, <2>4, <2>5, <2>6, <2>7, OwnPathKeeps
<1> QED
  BY <1>2, <1>3 DEF Store

LEMMA InsertKeeps ==
    ASSUME MInv, NEW w \in Workers, Insert(w)
    PROVE  MInv'
<1> DEFINE p == call[w].path
<1>1. Running(w)
  BY DEF Insert, Running, Idle
<1>2. call[w] \in Upload /\ p \in Paths /\ bucket[p] # Nil
  BY <1>1, CallTypes DEF MInv, InFlight, Insert, Upload
<1>3. /\ media' \in [Paths -> MediaRow \cup {Nil}]
      /\ media'[p] # Nil
      /\ \A q \in Paths \ {p} : media'[q] = media[q]
  BY <1>2, NilAssumption DEF Insert, MInv, TypeOK, MediaRow, Upload
<1>4. /\ call'[w] = Idle
      /\ \A v \in Workers \ {w} : call'[v] = call[v]
      /\ failed' \in {failed, failed \cup {p}}
  BY DEF Insert, Created, NotCreated, MInv, TypeOK
<1>5. TypeOK'
  BY <1>2, <1>3, <1>4 DEF MInv, TypeOK, Insert, Created, NotCreated
<1>6. UNCHANGED bucket /\ bucket[p].size = bucket[p].sent
  BY <1>2 DEF Insert, MInv, StoredWhole
<1> HIDE DEF p
<1> QED
  BY <1>1, <1>2, <1>3, <1>4, <1>5, <1>6, OwnPathKeeps DEF p

LEMMA StepMInv == MInv /\ [Next]_vars => MInv'
<1> SUFFICES ASSUME MInv, [Next]_vars PROVE MInv'
  OBVIOUS
<1>1. ASSUME NEW w \in Workers, StoreNotConfigured(w) \/ Fail(w)
      PROVE  MInv'
  <2>1. Running(w)
    BY <1>1 DEF StoreNotConfigured, Fail, Running, Idle
  <2> QED
    BY <1>1, <2>1, EndKeeps DEF StoreNotConfigured, Fail
<1>2. CASE UNCHANGED vars
  BY <1>2 DEF vars, MInv, TypeOK, PathsApart, InFlight, Running, NoDeadLinks, Linked,
              StoredWhole, OrphansAreFailures
<1> QED
  BY <1>1, <1>2, CheckKeeps, StoreKeeps, InsertKeeps DEF Next

\* The invariant of uploads is inductive.
THEOREM UploadsInductive == Spec => []MInv
BY InitMInv, StepMInv, PTL DEF Spec

\* Bucket, table and calls keep their types: nothing empty and nothing over
\* the limit is ever stored (_read_limited_file, _validate_image).
THEOREM UploadTypes == Spec => []TypeOK
<1>1. MInv => TypeOK
  BY DEF MInv
<1> QED
  BY <1>1, UploadsInductive, PTL

\* A media row never points to an object that is not there, wherever uploads
\* fail (upload_event_media stores the object before it inserts the row).
THEOREM LinksAreAlive == Spec => []NoDeadLinks
<1>1. MInv => NoDeadLinks
  BY DEF MInv
<1> QED
  BY <1>1, UploadsInductive, PTL

\* No photo is stored cut off (_read_limited_file).
THEOREM PhotosAreWhole == Spec => []StoredWhole
<1>1. MInv => StoredWhole
  BY DEF MInv
<1> QED
  BY <1>1, UploadsInductive, PTL

\* An object without a row is from an upload that is still running or was not
\* answered with 201 (upload_event_media).
THEOREM OrphansAreExplained == Spec => []OrphansAreFailures
<1>1. MInv => OrphansAreFailures
  BY DEF MInv
<1> QED
  BY <1>1, UploadsInductive, PTL

\* No upload overwrites the object or the row of another, nor its own: what a
\* client was shown stays (_storage_path, SupabaseStorageClient.upload).
THEOREM UploadsStay == Spec => [][WrittenOnce]_vars
<1>1. MInv /\ [Next]_vars => [WrittenOnce]_vars
  <2> SUFFICES ASSUME MInv, Next, NEW p \in Paths
               PROVE  /\ bucket[p] # Nil => bucket'[p] = bucket[p]
                      /\ media[p] # Nil => media'[p] = media[p]
    BY DEF WrittenOnce
  <2>1. ASSUME NEW w \in Workers, Store(w)
        PROVE  UNCHANGED media /\ (bucket[p] # Nil => bucket'[p] = bucket[p])
    <3>1. Running(w) /\ bucket[call[w].path] = Nil
      BY <2>1 DEF Store, Running, Idle, MInv, InFlight
    <3> QED
      BY <2>1, <3>1 DEF Store, Stored, MInv, TypeOK
  <2>2. ASSUME NEW w \in Workers, Insert(w)
        PROVE  UNCHANGED bucket /\ (media[p] # Nil => media'[p] = media[p])
    <3>1. Running(w) /\ media[call[w].path] = Nil
      BY <2>2 DEF Insert, Running, Idle, MInv, InFlight
    <3> QED
      BY <2>2, <3>1 DEF Insert, MInv, TypeOK
  <2> QED
    BY <2>1, <2>2 DEF Next, UploadCheck, StoreNotConfigured, Fail
<1> QED
  BY <1>1, UploadsInductive, PTL DEF Spec
=============================================================================
