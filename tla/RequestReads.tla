----------------------------- MODULE RequestReads -----------------------------
(***************************************************************************)
(* What GET /api/requests and GET /api/me/dashboard make of the requests   *)
(* while others change them.  Each is several statements at READ           *)
(* COMMITTED without a common snapshot, and a client of the list takes     *)
(* several calls; in between, requests are created, answered, confirmed    *)
(* and verified by sessions that see none of this.                         *)
(*                                                                         *)
(* A writer is one step here, its commit, and may do whatever module       *)
(* RequestService shows a commit can do (StaleWritesContained there): a    *)
(* handler decides on a row it has read at any earlier time.  Only an      *)
(* insertion has two, since created_at is read before the commit.          *)
(***************************************************************************)
EXTENDS Integers, FiniteSets

CONSTANTS
    Attendees,
    Events,         \* the events that exist; their rows never change
    Event,          \* per event: its owner, status and starts_at
    Requests,       \* ids a request may get
    Seeded,         \* the request seed.py leaves: confirmed, for a past event
    SeedAttendee,
    SeedEvent,
    Views,          \* what clients ask for
    RecentRequestsLimit,
    MaxTime,        \* bound: the clock stops here
    Nil

ASSUME ReadsAssumption ==
    /\ SeedAttendee \in Attendees /\ SeedEvent \in Events /\ Seeded \in Requests
    /\ Event[SeedEvent].status = "completed"
    /\ IsFiniteSet(Requests)
    /\ RecentRequestsLimit \in Nat \ {0} /\ MaxTime \in Nat \ {0}
    /\ \A e \in Events : Event[e].starts_at \in Int

\* A page of the list has at least one row; the dashboard is an attendee's and
\* counts what is pending.
ASSUME ViewsAssumption ==
    \A v \in Views :
        \/ v.kind = "list" /\ v.limit \in Nat \ {0}
        \/ v.kind = "dashboard" /\ v.role = "attendee" /\ v.status = "pending"

Statuses == {"pending", "responded", "confirmed", "closed", "verified"}

Row == [status : Statuses, event : Events, attendee : Attendees, created_at : 0..MaxTime]

ASSUME NilAssumption == Nil \notin Requests \cup Statuses \cup Row

VARIABLES
    clock,
    profiles,       \* the attendees with a need profile; none is ever deleted
    rows,           \* the requests inserted so far, or Nil
    uncommitted,    \* the ids whose insertion is not committed
    view,           \* what the client asks for
    pc,             \* where the call stands
    offset, total,  \* of the list; total is the dashboard's pending count too
    active,         \* the dashboard's active request, or Nil
    shown,          \* the requests on the pages, or in the dashboard
    first,          \* history: the requests that matched at the first statement
    joined, left,   \* history: those that came to match, or no longer did, since
    quiet,          \* history: nothing changed between the last call's statements
    repeated        \* history: a request was on two pages

tables == <<clock, profiles, rows, uncommitted>>
answer == <<pc, offset, total, active, shown, first, repeated>>
vars == <<tables, view, answer, joined, left, quiet>>

-----------------------------------------------------------------------------
(* What the statements select.                                             *)

Visible == {r \in Requests : rows[r] # Nil /\ r \notin uncommitted}

\* The attendee's own requests, or those for the organizer's events; the
\* dashboard counts the attendee's pending ones.
Matching ==
    {r \in Visible :
        /\ \/ view.role = "attendee" /\ rows[r].attendee = view.user
           \/ view.role = "organizer" /\ Event[rows[r].event].owner = view.user
        /\ view.status # Nil => rows[r].status = view.status}

\* ORDER BY created_at DESC LIMIT n: rows with the same time in any order.
Newest(S, n) ==
    {T \in SUBSET S :
        /\ Cardinality(T) = IF n < Cardinality(S) THEN n ELSE Cardinality(S)
        /\ \A r \in T, q \in S \ T : rows[r].created_at >= rows[q].created_at}

\* Faulty on purpose: the page starts at the row after its first one.
Pages_SkipsOne ==
    UNION {Newest(Matching \ before, view.limit) : before \in Newest(Matching, offset + 1)}

\* OFFSET drops the first rows of the order, LIMIT keeps the next.
Pages == UNION {Newest(Matching \ before, view.limit) : before \in Newest(Matching, offset)}

\* Confirmed requests for events whose status is still "upcoming".
Attending ==
    {r \in Visible : /\ rows[r].attendee = view.user
                     /\ rows[r].status = "confirmed"
                     /\ Event[rows[r].event].status = "upcoming"}

\* Faulty on purpose: the event published for the latest time comes first.
Soonest_Latest ==
    {r \in Attending :
        \A q \in Attending : Event[rows[r].event].starts_at >= Event[rows[q].event].starts_at}

\* ORDER BY starts_at, event id LIMIT 1: an attendee may have several active
\* requests for one event, and nothing orders those.
Soonest ==
    {r \in Attending :
        \A q \in Attending :
            \/ Event[rows[r].event].starts_at < Event[rows[q].event].starts_at
            \/ /\ Event[rows[r].event].starts_at = Event[rows[q].event].starts_at
               /\ Event[rows[r].event].id <= Event[rows[q].event].id}

-----------------------------------------------------------------------------
(* The writers.                                                            *)

\* What a step does to the rows of a client that has begun to read.
Watch ==
    /\ UNCHANGED <<view, answer>>
    /\ IF pc = "ready" /\ offset = 0
       THEN UNCHANGED <<joined, left, quiet>>
       ELSE /\ joined' = joined \cup (Matching' \ Matching)
            /\ left' = left \cup (Matching \ Matching')
            /\ quiet' = FALSE

Unwatched == UNCHANGED <<view, answer, joined, left, quiet>>

Tick ==
    /\ clock < MaxTime
    /\ clock' = clock + 1
    /\ UNCHANGED <<profiles, rows, uncommitted>> /\ Unwatched

PutNeeds(a) ==
    /\ profiles' = profiles \cup {a}
    /\ UNCHANGED <<clock, rows, uncommitted>> /\ Unwatched

\* Faulty on purpose: create_request does not ask for a need profile.
MayRequest_NoProfile(a, e) == Event[e].status = "upcoming"

\* create_request, past its guards: the profile was there, the event upcoming.
MayRequest(a, e) == Event[e].status = "upcoming" /\ a \in profiles

\* created_at is read when commit() flushes the INSERT.
CreateFlush(r, a, e) ==
    /\ rows[r] = Nil
    /\ MayRequest(a, e)
    /\ rows' = [rows EXCEPT ![r] = [status |-> "pending", event |-> e,
                                    attendee |-> a, created_at |-> clock]]
    /\ uncommitted' = uncommitted \cup {r}
    /\ UNCHANGED <<clock, profiles>> /\ Unwatched

CreateCommit(r) ==
    /\ r \in uncommitted
    /\ uncommitted' = uncommitted \ {r}
    /\ UNCHANGED <<clock, profiles, rows>> /\ Watch

\* Faulty on purpose: a call that is not answered is undone by a DELETE.
CreateFail_Deletes(r) ==
    /\ rows[r] # Nil /\ rows[r].status = "pending"
    /\ rows' = [rows EXCEPT ![r] = Nil]
    /\ uncommitted' = uncommitted \ {r}
    /\ UNCHANGED <<clock, profiles>> /\ Unwatched

CreateFail(r) ==
    /\ r \in uncommitted
    /\ rows' = [rows EXCEPT ![r] = Nil]
    /\ uncommitted' = uncommitted \ {r}
    /\ UNCHANGED <<clock, profiles>> /\ Unwatched

SetStatus(r, old, new) ==
    /\ r \in Visible /\ rows[r].status \in old \ {new}
    /\ rows' = [rows EXCEPT ![r].status = new]
    /\ UNCHANGED <<clock, profiles, uncommitted>> /\ Watch

\* respond_to_request: the row was pending when it was loaded, which the
\* seeded one never is.
RespondCommit(r) ==
    /\ r # Seeded
    /\ \E new \in {"responded", "closed"} :
            SetStatus(r, {"pending", "responded", "confirmed", "closed"}, new)

\* Faulty on purpose: a decline sends the request back to the organizer.
ConfirmCommit_Reopens(r) ==
    /\ r # Seeded
    /\ \E new \in {"confirmed", "pending"} :
            SetStatus(r, {"responded", "confirmed", "closed"}, new)

\* confirm_response: the row was responded when it was loaded.
ConfirmCommit(r) ==
    /\ r # Seeded
    /\ \E new \in {"confirmed", "closed"} :
            SetStatus(r, {"responded", "confirmed", "closed"}, new)

\* submit_verification.
VerifyCommit(r) ==
    /\ r \in Visible /\ Event[rows[r].event].status = "completed"
    /\ SetStatus(r, {"confirmed"}, "verified")

Writer ==
    \/ Tick
    \/ \E a \in Attendees : PutNeeds(a)
    \/ \E r \in Requests, a \in Attendees, e \in Events : CreateFlush(r, a, e)
    \/ \E r \in Requests : CreateCommit(r) \/ CreateFail(r)
    \/ \E r \in Requests : RespondCommit(r) \/ ConfirmCommit(r) \/ VerifyCommit(r)

-----------------------------------------------------------------------------
(* The readers.  Nothing keeps the objects one statement has loaded, so    *)
(* the next one reads the rows again.                                      *)

\* list_requests counts the query, the dashboard the pending requests.
Count ==
    /\ pc = "ready"
    /\ total' = Cardinality(Matching)
    /\ first' = IF offset = 0 THEN Matching ELSE first
    /\ quiet' = TRUE
    /\ pc' = "counted"
    /\ UNCHANGED <<tables, view, offset, active, shown, repeated, joined, left>>

\* A client stops at a page that is not full, or when the total is reached.
Last(page) ==
    IF view.stop = "total" THEN offset + view.limit >= total
                           ELSE Cardinality(page) < view.limit

ListPage ==
    /\ pc = "counted" /\ view.kind = "list"
    /\ \E page \in Pages :
        /\ shown' = shown \cup page
        /\ repeated' = (repeated \/ page \cap shown # {})
        /\ pc' = IF Last(page) THEN "done" ELSE "ready"
        /\ offset' = IF Last(page) THEN offset ELSE offset + view.limit
    /\ UNCHANGED <<tables, view, total, active, first, joined, left, quiet>>

\* _find_active_event; calculate_match raises NEED_PROFILE_MISSING.
FindActiveEvent ==
    /\ pc = "counted" /\ view.kind = "dashboard"
    /\ active' \in IF Attending = {} THEN {Nil} ELSE Soonest
    /\ pc' = IF active' # Nil /\ view.user \notin profiles THEN "failed" ELSE "active"
    /\ UNCHANGED <<tables, view, offset, total, shown, first, repeated, joined, left, quiet>>

RecentRequests ==
    /\ pc = "active"
    /\ \E recent \in Newest({r \in Visible : rows[r].attendee = view.user},
                            RecentRequestsLimit) : shown' = recent
    /\ pc' = "done"
    /\ UNCHANGED <<tables, view, offset, total, active, first, repeated, joined, left, quiet>>

Reader == Count \/ ListPage \/ FindActiveEvent \/ RecentRequests

\* The client asks again, from the start.
Again ==
    /\ pc \in {"done", "failed"}
    /\ pc' = "ready" /\ offset' = 0 /\ total' = 0 /\ active' = Nil
    /\ shown' = {} /\ first' = {} /\ joined' = {} /\ left' = {}
    /\ quiet' = TRUE /\ repeated' = FALSE
    /\ UNCHANGED <<tables, view>>

-----------------------------------------------------------------------------
\* The seeded request was made days before anybody uses the API.
Init ==
    /\ clock = 1
    /\ profiles = {SeedAttendee}
    /\ rows = [r \in Requests |->
                IF r = Seeded THEN [status |-> "confirmed", event |-> SeedEvent,
                                    attendee |-> SeedAttendee, created_at |-> 0]
                ELSE Nil]
    /\ uncommitted = {}
    /\ view \in Views
    /\ pc = "ready" /\ offset = 0 /\ total = 0 /\ active = Nil
    /\ shown = {} /\ first = {} /\ joined = {} /\ left = {}
    /\ quiet = TRUE /\ repeated = FALSE

\* Bound: between the end of a reading and the next nothing is written; it
\* could not change what has been shown.
Next == Again \/ (pc \notin {"done", "failed"} /\ (Writer \/ Reader))

Spec == Init /\ [][Next]_vars

-----------------------------------------------------------------------------
TypeOK ==
    /\ clock \in 0..MaxTime
    /\ profiles \subseteq Attendees
    /\ rows \in [Requests -> Row \cup {Nil}]
    /\ uncommitted \subseteq {r \in Requests : rows[r] # Nil}
    /\ view \in Views
    /\ pc \in {"ready", "counted", "active", "done", "failed"}
    /\ offset \in Nat /\ total \in 0..Cardinality(Requests)
    /\ active \in Visible \cup {Nil}
    /\ shown \subseteq Visible /\ first \subseteq Visible /\ joined \subseteq Visible /\ left \subseteq Visible
    /\ quiet \in BOOLEAN /\ repeated \in BOOLEAN

\* Nothing is written once a reading is done: the rows are as it shows them.
Pending == {r \in shown : rows[r].status = "pending"}

\* Two of the requests that matched at some time of the reading have the same
\* created_at: no page order parts them.
Ties ==
    \E r, q \in first \cup joined : r # q /\ rows[r].created_at = rows[q].created_at

\* No row comes back to such a list once it has left: no request ever becomes
\* pending again.
LeavesForGood == view.status \in {Nil, "pending"}

\* What a client that has read the list to the end can hold against it
\* (list_requests: ORDER BY created_at alone, offsets, no snapshot), ties
\* apart, and unless it trusted a total counted before its last page was read:
\* it has missed a request only if another left the filter meanwhile, and each
\* that left hides at most one.  It has seen one twice only if another came to
\* match: a request commits with a created_at older than those already shown,
\* but never leaves the list and comes back in front.
PagesExplained ==
    /\ view.kind = "list" /\ pc = "done" /\ ~Ties /\ (view.stop = "total" => quiet) =>
        /\ left = {} => first \subseteq shown
        /\ LeavesForGood =>
                Cardinality(first \ (shown \cup left)) <= Cardinality(left)
    /\ repeated => joined # {} \/ Ties

\* The dashboard's two figures differ only by what happened between them: a
\* request counted as pending and answered since is not shown as pending, no
\* more are shown than were counted or came since, and when all are shown no
\* fewer than were counted and not answered since (get_attendee_dashboard; a
\* request never becomes pending again).
FiguresAddUp ==
    view.kind = "dashboard" /\ pc = "done" =>
        /\ Pending \cap left = {}
        /\ Cardinality(Pending) <= total + Cardinality(joined)
        /\ Cardinality(shown) < RecentRequestsLimit =>
                total <= Cardinality(Pending) + Cardinality(left)

\* While nothing is written the dashboard is one picture: the active event's
\* request is among the requests shown, as confirmed, if there is room, and
\* no request shown as confirmed is for a sooner event to come.
QuietDashboardIsOnePicture ==
    view.kind = "dashboard" /\ pc = "done" /\ quiet =>
        /\ active # Nil =>
            \/ active \in shown /\ rows[active].status = "confirmed"
            \/ active \notin shown /\ Cardinality(shown) = RecentRequestsLimit
        /\ \A r \in shown :
            LET event == Event[rows[r].event]
            IN  rows[r].status = "confirmed" /\ event.status = "upcoming" =>
                    active # Nil /\ Event[rows[active].event].starts_at <= event.starts_at

\* The dashboard never fails on the match of its active event: whoever has a
\* request had a need profile, and profiles are not deleted (calculate_match
\* would answer 409 NEED_PROFILE_MISSING for the whole dashboard).
DashboardAnswers == pc # "failed"
=============================================================================
