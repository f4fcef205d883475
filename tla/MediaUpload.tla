----------------------------- MODULE MediaUpload -----------------------------
(***************************************************************************)
(* POST /api/events/{event_id}/media: a photo goes to the storage bucket   *)
(* first and its row to event_media after, with no transaction over both.  *)
(* The bucket is Supabase Storage, as SupabaseStorageClient uses it: an    *)
(* upload may fail before or after the object is there, and the client     *)
(* cannot tell which.                                                      *)
(***************************************************************************)
EXTENDS Integers, FiniteSets

CONSTANTS
    Users,          \* users with either role
    Owner,          \* the organizer user who owns each event
    Paths,          \* storage paths (uuid4) an upload may get
    Sizes,          \* sizes of the files clients send
    MAX_MEDIA_BYTES,
    Workers,        \* threads that hold a database session
    Nil

Events == DOMAIN Owner

ASSUME MediaAssumption ==
    /\ \A e \in Events : Owner[e] \in Users
    /\ Sizes \subseteq Nat
    /\ MAX_MEDIA_BYTES \in Nat \ {0}
    /\ Nil \notin Paths \cup Events

VARIABLES
    configured,     \* whether the storage settings are there
    bucket,         \* per path, the object in the bucket or Nil
    media,          \* table event_media: per path, its row or Nil
    call,           \* per worker, the upload past its checks
    failed          \* history: the paths of uploads not answered with 201

vars == <<configured, bucket, media, call, failed>>

File == [size : Sizes, image : BOOLEAN]

Object == [size : 1..MAX_MEDIA_BYTES, sent : Sizes]

MediaRow == [event : Events, uploader : Users]

ASSUME NilAssumption == Nil \notin Object \cup MediaRow

Idle == [pc |-> "idle", user |-> Nil, event |-> Nil, path |-> Nil, content |-> Nil]

Created(w) == call' = [call EXCEPT ![w] = Idle] /\ UNCHANGED failed

\* An error response, or no response at all.
NotCreated(w) ==
    /\ call' = [call EXCEPT ![w] = Idle]
    /\ failed' = failed \cup {call[w].path}

Least(m, n) == IF m < n THEN m ELSE n

\* Faulty on purpose: one byte too few is asked for to notice a longer file.
ReadBytes_AtMostMax(size) == Least(size, MAX_MEDIA_BYTES)

\* file.read(MAX_MEDIA_BYTES + 1)
ReadBytes(size) == Least(size, MAX_MEDIA_BYTES + 1)

\* Faulty on purpose: neither limit on the size is checked.
MayUpload_AnySize(u, e, f) == Owner[e] = u /\ f.image

\* Users who own no event, attendees among them, own no event in particular.
MayUpload(u, e, f) ==
    /\ Owner[e] = u
    /\ f.image
    /\ ReadBytes(f.size) \in 1..MAX_MEDIA_BYTES

-----------------------------------------------------------------------------
Init ==
    /\ configured \in BOOLEAN
    /\ bucket = [p \in Paths |-> Nil]
    /\ media = [p \in Paths |-> Nil]
    /\ call = [w \in Workers |-> Idle]
    /\ failed = {}

\* A path is fresh: uuid4.
Fresh(p) ==
    /\ bucket[p] = Nil /\ p \notin failed
    /\ \A w \in Workers : call[w].path # p

\* The checks that fail leave nothing behind and are not steps here.
UploadCheck(w, u, e, f, p) ==
    /\ call[w] = Idle
    /\ MayUpload(u, e, f)
    /\ Fresh(p)
    /\ call' = [call EXCEPT ![w] =
            [pc |-> "store", user |-> u, event |-> e, path |-> p,
             content |-> [size |-> ReadBytes(f.size), sent |-> f.size]]]
    /\ UNCHANGED <<configured, bucket, media, failed>>

Stored(w) == [bucket EXCEPT ![call[w].path] = call[w].content]

\* Faulty on purpose: an error status of the storage service is not looked at.
Store_StatusIgnored(w) ==
    /\ call[w].pc = "store"
    /\ configured
    /\ bucket' \in {bucket, Stored(w)}
    /\ call' = [call EXCEPT ![w].pc = "insert"]
    /\ UNCHANGED <<configured, media, failed>>

\* The upload succeeds, fails without a trace, or fails with the object stored.
Store(w) ==
    /\ call[w].pc = "store"
    /\ configured
    /\ \/ /\ bucket' = Stored(w)
          /\ call' = [call EXCEPT ![w].pc = "insert"]
          /\ UNCHANGED failed
       \/ bucket' \in {bucket, Stored(w)} /\ NotCreated(w)
    /\ UNCHANGED <<configured, media>>

StoreNotConfigured(w) ==
    /\ call[w].pc = "store"
    /\ ~configured
    /\ NotCreated(w)
    /\ UNCHANGED <<configured, bucket, media>>

\* Faulty on purpose: the row is never added to the session.
Insert_NotAdded(w) ==
    /\ call[w].pc = "insert"
    /\ Created(w)
    /\ UNCHANGED <<configured, bucket, media>>

\* The row becomes visible; the process may still die before it answers.
Insert(w) ==
    /\ call[w].pc = "insert"
    /\ media' = [media EXCEPT ![call[w].path] =
            [event |-> call[w].event, uploader |-> call[w].user]]
    /\ Created(w) \/ NotCreated(w)
    /\ UNCHANGED <<configured, bucket>>

\* The process or the database connection fails before the commit.
Fail(w) ==
    /\ call[w] # Idle
    /\ NotCreated(w)
    /\ UNCHANGED <<configured, bucket, media>>

Next ==
    \E w \in Workers :
        \/ \E u \in Users, e \in Events, f \in File, p \in Paths : UploadCheck(w, u, e, f, p)
        \/ Store(w) \/ StoreNotConfigured(w) \/ Insert(w) \/ Fail(w)

Spec == Init /\ [][Next]_vars

-----------------------------------------------------------------------------
TypeOK ==
    /\ configured \in BOOLEAN
    /\ bucket \in [Paths -> Object \cup {Nil}]
    /\ media \in [Paths -> MediaRow \cup {Nil}]
    /\ call \in [Workers -> {Idle} \cup
            [pc : {"store", "insert"}, user : Users, event : Events, path : Paths,
             content : Object]]
    /\ failed \subseteq Paths

Linked == {p \in Paths : media[p] # Nil}

\* A media row never points to an object that is not in the bucket, even
\* when uploads fail half-way ("dead media links", ADR-0005).
NoDeadLinks == \A p \in Linked : bucket[p] # Nil

\* What is stored is the whole file the organizer sent, never its beginning
\* (_read_limited_file reads at most MAX_MEDIA_BYTES + 1 bytes of it).
StoredWhole == \A p \in Paths : bucket[p] # Nil => bucket[p].size = bucket[p].sent

\* Storage and database disagree only about uploads that failed: an object
\* without a row belongs to a call that is still running or was never
\* answered with 201 (the gap ADR-0005 accepts, and no other).
OrphansAreFailures ==
    \A p \in Paths : bucket[p] # Nil /\ media[p] = Nil =>
        p \in failed \/ \E w \in Workers : call[w].path = p
=============================================================================
