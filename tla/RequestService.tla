---------------------------- MODULE RequestService ----------------------------
(***************************************************************************)
(* The accessibility-request endpoints as they run: FastAPI calls each     *)
(* synchronous handler on a worker thread with a database session of its   *)
(* own, and PostgreSQL runs every statement at READ COMMITTED.  A handler  *)
(* reads rows, decides on what it read, and writes at commit; between its  *)
(* read and its commit the handlers of other workers commit too.           *)
(*                                                                         *)
(* Each handler is split at the points where another worker's commit can   *)
(* be seen:  Load (the row it decides on is read), Check (a later query),  *)
(* Commit (its writes become visible, all or none).                        *)
(***************************************************************************)
EXTENDS RequestTables

CONSTANTS
    Workers         \* threads that hold a database session

ASSUME WorkersAssumption == IsFiniteSet(Workers) /\ Workers # {}

VARIABLES
    now,            \* the clock
    events,         \* table events
    profiles,       \* table need_profiles: the attendee's needs, or Nil
    requests,       \* table accessibility_requests
    verifications,  \* the request_ids of table verifications (UNIQUE)
    call,           \* per worker, what its handler has read so far
    reply           \* per worker, how its last call ended

tables == <<events, profiles, requests, verifications>>
vars == <<now, events, profiles, requests, verifications, call, reply>>

-----------------------------------------------------------------------------
(* Calls.                                                                  *)

Steps == {"idle", "create_check", "create_commit", "respond_commit",
          "confirm_commit", "verify_check", "verify_commit"}

CallState == [pc      : Steps,
              user    : Users \cup {Nil},
              event   : Events \cup {Nil},
              request : Requests \cup {Nil},
              needs   : Needs \cup {Nil},
              answer  : Decisions \cup {"accept", "decline", Nil},
              status  : Statuses \cup {"none"}]

\* "refused" is an APIError, "conflict" an IntegrityError nobody catches
\* (a 500), "lost" a call whose outcome the client never learns.
Replies == {"none", "ok", "refused", "conflict", "lost"}

Idle == [pc |-> "idle", user |-> Nil, event |-> Nil, request |-> Nil,
         needs |-> Nil, answer |-> Nil, status |-> "none"]

Begin(w, c) ==
    /\ call[w] = Idle
    /\ call' = [call EXCEPT ![w] = c]
    /\ reply' = [reply EXCEPT ![w] = "none"]

Return(w, outcome) ==
    /\ call' = [call EXCEPT ![w] = Idle]
    /\ reply' = [reply EXCEPT ![w] = outcome]

Refuse(w) == call[w] = Idle /\ Return(w, "refused")

\* The session has committed; the process may still die before it answers.
Committed(w) == \E outcome \in {"ok", "lost"} : Return(w, outcome)

-----------------------------------------------------------------------------
(* Guards: the conditions under which a handler does not raise APIError.   *)

\* Faulty on purpose: requests are taken for completed events too.
MayRequest_AnyEvent(u, e) ==
    /\ u \in Attendees
    /\ events[e].status # "none"
    /\ profiles[u] # Nil

MayRequest(u, e) ==
    /\ u \in Attendees
    /\ events[e].status = "upcoming"
    /\ profiles[u] # Nil

ActiveRequests(u, e) ==
    {r \in Requests : /\ requests[r].attendee = u
                      /\ requests[r].event = e
                      /\ requests[r].status \in ActiveStatuses}

\* Faulty on purpose: only unanswered requests count as active.
MayInsert_PendingOnly(u, e) ==
    \A r \in ActiveRequests(u, e) : requests[r].status # "pending"

\* Faulty on purpose: the handler does not look for an active request.
MayInsert_Unchecked(u, e) == TRUE

MayInsert(u, e) == ActiveRequests(u, e) = {}

\* Faulty on purpose: any request may be answered again.
MayRespond_AnyStatus(u, r) ==
    /\ u \in Organizers
    /\ requests[r].status # "none"
    /\ events[requests[r].event].owner = u

MayRespond(u, r) ==
    /\ u \in Organizers
    /\ requests[r].status # "none"
    /\ events[requests[r].event].owner = u
    /\ requests[r].status = "pending"

OwnRequest(u, r) ==
    /\ u \in Attendees
    /\ requests[r].status # "none"
    /\ requests[r].attendee = u

\* Faulty on purpose: the status of the request is not looked at.
MayConfirm_AnyStatus(u, r) == OwnRequest(u, r)

\* Faulty on purpose: a confirmed request may be confirmed or declined again.
MayConfirm_Again(u, r) ==
    OwnRequest(u, r) /\ requests[r].status \in {"responded", "confirmed", "verified"}

MayConfirm(u, r) == OwnRequest(u, r) /\ requests[r].status = "responded"

\* Faulty on purpose: only the clock is asked, not the status.
EventOver_ByClock(e) == events[e].ends_at <= now

\* Faulty on purpose: the comparison of ends_at with the clock is inverted.
EventOver_Inverted(e) == events[e].status = "completed" /\ events[e].ends_at > now

EventOver(e) == events[e].status = "completed" /\ events[e].ends_at <= now

\* The status was read with the request, the verification row and the event
\* by the queries after it.
MayVerify(c) ==
    /\ c.request \notin verifications
    /\ EventOver(requests[c.request].event)
    /\ c.status = "confirmed"

-----------------------------------------------------------------------------
Init ==
    /\ now = 0
    /\ events = SeedEvents
    /\ profiles = SeedProfiles
    /\ requests = SeedRequests
    /\ verifications = {}
    /\ call = [w \in Workers |-> Idle]
    /\ reply = [w \in Workers |-> "none"]

Tick ==
    /\ now < MaxTime
    /\ now' = now + 1
    /\ UNCHANGED <<tables, call, reply>>

(* POST /api/events: venue, event and claim become visible together.       *)
CreateEvent(o, e, window) ==
    /\ events[e].status = "none"
    /\ events' = [events EXCEPT ![e] = NewEvent(o, window, now)]
    /\ UNCHANGED <<now, profiles, requests, verifications, call, reply>>

(* PUT /api/me/needs.  Needs holds every profile, those that two           *)
(* concurrent updates can mix included (module NeedProfile).               *)
PutNeeds(a, n) ==
    /\ profiles' = [profiles EXCEPT ![a] = n]
    /\ UNCHANGED <<now, events, requests, verifications, call, reply>>

(* POST /api/events/{event_id}/requests: create_request.                   *)

\* Bound: a call that would insert starts only while an unused id is left.
IdsLeft ==
    Cardinality({w \in Workers : call[w].pc \in {"create_check", "create_commit"}})
        < Cardinality({r \in Requests : requests[r].status = "none"})

CreateLoad(w, u, e) ==
    /\ \/ /\ MayRequest(u, e)
          /\ IdsLeft
          /\ Begin(w, [Idle EXCEPT !.pc = "create_check", !.user = u,
                                   !.event = e, !.needs = profiles[u]])
       \/ ~MayRequest(u, e) /\ Refuse(w)
    /\ UNCHANGED <<now, tables>>

CreateCheck(w) ==
    /\ call[w].pc = "create_check"
    /\ \/ /\ MayInsert(call[w].user, call[w].event)
          /\ call' = [call EXCEPT ![w].pc = "create_commit"]
          /\ UNCHANGED reply
       \/ ~MayInsert(call[w].user, call[w].event) /\ Return(w, "refused")
    /\ UNCHANGED <<now, tables>>

CreateCommit(w, r) ==
    /\ call[w].pc = "create_commit"
    /\ requests[r].status = "none"
    /\ requests' = [requests EXCEPT
            ![r] = NewRequest(call[w].user, call[w].event, call[w].needs)]
    /\ Committed(w)
    /\ UNCHANGED <<now, events, profiles, verifications>>

(* POST /api/requests/{request_id}/response: respond_to_request.           *)

RespondLoad(w, u, r, d) ==
    /\ \/ /\ MayRespond(u, r)
          /\ Begin(w, [Idle EXCEPT !.pc = "respond_commit", !.user = u,
                                   !.request = r, !.answer = d])
       \/ ~MayRespond(u, r) /\ Refuse(w)
    /\ UNCHANGED <<now, tables>>

\* UPDATE ... WHERE id = :id: the status of the row is not looked at again.
RespondCommit(w) ==
    /\ call[w].pc = "respond_commit"
    /\ requests' = [requests EXCEPT ![call[w].request] = Answered(@, call[w].answer)]
    /\ Committed(w)
    /\ UNCHANGED <<now, events, profiles, verifications>>

(* POST /api/requests/{request_id}/confirm: confirm_response.              *)

ConfirmLoad(w, u, r, answer) ==
    /\ \/ /\ MayConfirm(u, r)
          /\ Begin(w, [Idle EXCEPT !.pc = "confirm_commit", !.user = u,
                                   !.request = r, !.answer = answer])
       \/ ~MayConfirm(u, r) /\ Refuse(w)
    /\ UNCHANGED <<now, tables>>

ConfirmCommit(w) ==
    /\ call[w].pc = "confirm_commit"
    /\ requests' = [requests EXCEPT ![call[w].request] =
            IF call[w].answer = "accept" THEN Accepted(@) ELSE Declined(@)]
    /\ Committed(w)
    /\ UNCHANGED <<now, events, profiles, verifications>>

(* POST /api/requests/{request_id}/verification: submit_verification.      *)

VerifyLoad(w, u, r) ==
    /\ \/ /\ OwnRequest(u, r)
          /\ Begin(w, [Idle EXCEPT !.pc = "verify_check", !.user = u,
                                   !.request = r, !.status = requests[r].status])
       \/ ~OwnRequest(u, r) /\ Refuse(w)
    /\ UNCHANGED <<now, tables>>

VerifyCheck(w) ==
    /\ call[w].pc = "verify_check"
    /\ \/ /\ MayVerify(call[w])
          /\ call' = [call EXCEPT ![w].pc = "verify_commit"]
          /\ UNCHANGED reply
       \/ ~MayVerify(call[w]) /\ Return(w, "refused")
    /\ UNCHANGED <<now, tables>>

\* The INSERT and the UPDATE share a transaction, and the UNIQUE constraint
\* on request_id fails the INSERT of whoever comes second.
VerifyCommit(w) ==
    /\ call[w].pc = "verify_commit"
    /\ \/ /\ call[w].request \notin verifications
          /\ verifications' = verifications \cup {call[w].request}
          /\ requests' = [requests EXCEPT ![call[w].request].status = "verified"]
          /\ Committed(w)
       \/ /\ call[w].request \in verifications
          /\ Return(w, "conflict")
          /\ UNCHANGED <<requests, verifications>>
    /\ UNCHANGED <<now, events, profiles>>

(* The process dies, or the database connection fails, before the commit:  *)
(* the session is rolled back.  A restart reruns seed.py, which inserts    *)
(* only rows that are missing and so changes nothing here.                 *)
Fail(w) ==
    /\ call[w] # Idle
    /\ Return(w, "lost")
    /\ UNCHANGED <<now, tables>>

WorkerStep(w) ==
    \/ CreateCheck(w)
    \/ \E r \in Requests : CreateCommit(w, r)
    \/ RespondCommit(w)
    \/ ConfirmCommit(w)
    \/ VerifyCheck(w)
    \/ VerifyCommit(w)

Arrival(w) ==
    \/ \E u \in Users, e \in Events : CreateLoad(w, u, e)
    \/ \E u \in Users, r \in Requests, d \in Decisions : RespondLoad(w, u, r, d)
    \/ \E u \in Users, r \in Requests, answer \in {"accept", "decline"} :
            ConfirmLoad(w, u, r, answer)
    \/ \E u \in Users, r \in Requests : VerifyLoad(w, u, r)

Next ==
    \/ Tick
    \/ \E o \in Organizers, e \in Events, window \in Windows : CreateEvent(o, e, window)
    \/ \E a \in Attendees, n \in Needs : PutNeeds(a, n)
    \/ \E w \in Workers : Arrival(w) \/ WorkerStep(w) \/ Fail(w)

Spec == Init /\ [][Next]_vars

-----------------------------------------------------------------------------
(* Fairness.  A handler's thread runs on, so a call in flight ends; the    *)
(* process does not fail for ever; and each client repeats the call that   *)
(* is its turn until it succeeds.  The code has no scheduler and no retry: *)
(* the last is an assumption about people.                                 *)

OrganizerAnswers(r) ==
    \E w \in Workers, u \in Organizers, d \in Decisions :
        MayRespond(u, r) /\ RespondLoad(w, u, r, d)

AttendeeConfirms(r) ==
    \E w \in Workers, u \in Attendees, answer \in {"accept", "decline"} :
        MayConfirm(u, r) /\ ConfirmLoad(w, u, r, answer)

AttendeeVerifies(r) ==
    \E w \in Workers, u \in Attendees : OwnRequest(u, r) /\ VerifyLoad(w, u, r)

Fairness ==
    /\ WF_vars(Tick)
    /\ \A w \in Workers : WF_vars(WorkerStep(w))
    /\ \A r \in Requests \ {PastRequest} :
            SF_vars(OrganizerAnswers(r)) /\ SF_vars(AttendeeConfirms(r))
    /\ \A r \in Requests : SF_vars(AttendeeVerifies(r))
    /\ <>[][\A w \in Workers : ~Fail(w)]_vars

FairSpec == Spec /\ Fairness

-----------------------------------------------------------------------------
TypeOK ==
    /\ now \in 0..MaxTime
    /\ events \in [Events -> EventRow \cup {NoEvent}]
    /\ profiles \in [Attendees -> Needs \cup {Nil}]
    /\ requests \in [Requests -> RequestRow \cup {NoRequest}]
    /\ verifications \subseteq Requests
    /\ call \in [Workers -> CallState]
    /\ reply \in [Workers -> Replies]

\* A request is "verified" exactly when it has a verification row, whatever
\* respond, confirm and verify calls overlap (submit_verification writes both
\* in one transaction; the stale writers must never undo one of them).
VerifiedIffVerification ==
    \A r \in Requests : requests[r].status = "verified" <=> r \in verifications

\* A verification is only ever about an event that is completed and over
\* (EVENT_NOT_COMPLETED in submit_verification).
VerificationAfterEnd ==
    \A r \in verifications :
        LET event == events[requests[r].event]
        IN  event.status = "completed" /\ event.ends_at <= now

\* Only the seeded request can ever be verified: create_request wants an
\* upcoming event, submit_verification a completed one, and no code moves an
\* event from one to the other.
OnlySeedVerified == verifications \subseteq {PastRequest}

\* A row tells one story, even when stale writers have overwritten part of
\* it: unanswered while pending, answered once past it, accepted when
\* confirmed, and never waiting for confirmation of a rejection.
RowsCoherent ==
    \A r \in Requests : LET row == requests[r] IN
        /\ row.status = "pending" => row.decision = Nil /\ ~row.confirmed_at
        /\ row.status \in {"responded", "confirmed", "verified"} => row.decision # Nil
        /\ row.status = "responded" => row.decision # "cannot_fulfill"
        /\ row.status \in {"confirmed", "verified"} => row.confirmed_at

\* Concurrent create_request calls can leave an attendee with several active
\* requests for one event (no constraint forbids it), but never with more
\* than there are sessions: a bound set by the pool, not by the handler.
ActiveBound ==
    \A a \in Attendees, e \in Events :
        Cardinality(ActiveRequests(a, e)) <= Cardinality(Workers)

\* How far stale commits can move a request: it never becomes pending again,
\* a pending one is only ever answered, only a confirmed one is verified, and
\* a verified one stays so.  (Among responded, confirmed and closed a stale
\* commit can move it any way, documented or not.)
ContainedMove ==
    \A r \in Requests :
        LET old == requests[r].status
            new == requests'[r].status
        IN  old # new =>
              /\ new = "pending" => old = "none"
              /\ old = "pending" => new \in {"responded", "closed"}
              /\ new = "verified" => old = "confirmed"
              /\ old # "verified"

\* Every step is a contained move (respond_to_request, confirm_response and
\* submit_verification write by id, without looking at the status again).
StaleWritesContained == [][ContainedMove]_vars

\* However calls overlap and fail, once organizer and attendee keep doing
\* their part every request comes to rest: stale writers run out.
Settles ==
    \A r \in Requests :
        requests[r].status \in ActiveStatuses
            ~> [](requests[r].status \in {"confirmed", "closed", "verified"})

\* A confirmed request for an event that is completed and over is verified
\* in the end, through refusals, duplicates and failures.
OverIsVerified ==
    \A r \in Requests :
        (/\ requests[r].status = "confirmed"
         /\ events[requests[r].event].status = "completed"
         /\ events[requests[r].event].ends_at <= now)
            ~> requests[r].status = "verified"

-----------------------------------------------------------------------------
(* What the documentation promises.  One worker keeps all of it; two keep  *)
(* neither ImplementsContract nor OneActiveRequest.                        *)

Contract == INSTANCE RequestContract

\* With one worker the service is the atomic contract, and so keeps all that
\* RequestServiceProofs proves of it: the lifecycle of docs/architecture.md,
\* promises that are not rewritten, no confirmation after a rejection.
ImplementsContract == Contract!Spec

\* "Only one active request per attendee-per-event" (docs/architecture.md).
OneActiveRequest == Contract!OneActiveRequest

\* "confirmed --> verified: attendee verifies after event ends"
\* (docs/architecture.md): the passing of the end is enough.
EndedIsVerified ==
    \A r \in Requests :
        (requests[r].status = "confirmed" /\ events[requests[r].event].ends_at <= now)
            ~> requests[r].status = "verified"
=============================================================================
