--------------------------- MODULE RequestContract ---------------------------
(***************************************************************************)
(* What docs/architecture.md promises of a request's life, as atomic       *)
(* steps: each endpoint checks and writes in one indivisible action.       *)
(* RequestService, with one worker, implements this specification.         *)
(***************************************************************************)
EXTENDS RequestTables

VARIABLES
    now,            \* the clock
    events,         \* the rows of table events
    requests,       \* the rows of table accessibility_requests
    verifications   \* the requests that have a row in table verifications

vars == <<now, events, requests, verifications>>

-----------------------------------------------------------------------------

Init ==
    /\ now = 0
    /\ events = SeedEvents
    /\ requests = SeedRequests
    /\ verifications = {}

Tick ==
    /\ now < MaxTime
    /\ now' = now + 1
    /\ UNCHANGED <<events, requests, verifications>>

Publish(o, e, window) ==
    /\ events[e].status = "none"
    /\ events' = [events EXCEPT ![e] = NewEvent(o, window, now)]
    /\ UNCHANGED <<now, requests, verifications>>

ActiveRequests(a, e) ==
    {r \in Requests : /\ requests[r].attendee = a
                      /\ requests[r].event = e
                      /\ requests[r].status \in ActiveStatuses}

MaySubmit(a, e) ==
    /\ events[e].status = "upcoming"
    /\ ActiveRequests(a, e) = {}

Submit(a, e, n, r) ==
    /\ requests[r].status = "none"
    /\ MaySubmit(a, e)
    /\ requests' = [requests EXCEPT ![r] = NewRequest(a, e, n)]
    /\ UNCHANGED <<now, events, verifications>>

MayAnswer(r) == requests[r].status = "pending"

Answer(r, d) ==
    /\ MayAnswer(r)
    /\ requests' = [requests EXCEPT ![r] = Answered(@, d)]
    /\ UNCHANGED <<now, events, verifications>>

MayConfirm(r) == requests[r].status = "responded"

Accept(r) ==
    /\ MayConfirm(r)
    /\ requests' = [requests EXCEPT ![r] = Accepted(@)]
    /\ UNCHANGED <<now, events, verifications>>

Decline(r) ==
    /\ MayConfirm(r)
    /\ requests' = [requests EXCEPT ![r] = Declined(@)]
    /\ UNCHANGED <<now, events, verifications>>

EventOver(e) == events[e].status = "completed" /\ events[e].ends_at <= now

MayVerify(r) ==
    /\ r \notin verifications
    /\ requests[r].status = "confirmed"
    /\ EventOver(requests[r].event)

Verify(r) ==
    /\ MayVerify(r)
    /\ verifications' = verifications \cup {r}
    /\ requests' = [requests EXCEPT ![r].status = "verified"]
    /\ UNCHANGED <<now, events>>

Next ==
    \/ Tick
    \/ \E o \in Organizers, e \in Events, window \in Windows : Publish(o, e, window)
    \/ \E a \in Attendees, e \in Events, n \in Needs, r \in Requests : Submit(a, e, n, r)
    \/ \E r \in Requests, d \in Decisions : Answer(r, d)
    \/ \E r \in Requests : Accept(r) \/ Decline(r) \/ Verify(r)

Spec == Init /\ [][Next]_vars

-----------------------------------------------------------------------------
(* What the contract is worth to attendees and organizers.                 *)

\* An attendee never has two active requests for one event
\* (ACTIVE_REQUEST_EXISTS in create_request).
OneActiveRequest ==
    \A r, s \in Requests :
        /\ requests[r].status \in ActiveStatuses
        /\ requests[s].status \in ActiveStatuses
        /\ requests[r].attendee = requests[s].attendee
        /\ requests[r].event = requests[s].event
        => r = s

\* A rejected request is closed for good: no confirmation follows an answer
\* of cannot_fulfill (respond_to_request, docs/flows.md).
NoConfirmAfterRejection ==
    \A r \in Requests :
        requests[r].decision = "cannot_fulfill" => requests[r].status = "closed"

PromiseKept ==
    \A r \in Requests :
        /\ requests[r].decision # Nil => requests'[r].decision = requests[r].decision
        /\ requests[r].needs # Nil => requests'[r].needs = requests[r].needs

\* A promise once made is never rewritten: the organizer's decision and the
\* snapshot of the attendee's needs stay what they were (respond_to_request,
\* create_request).
PromiseFrozen == [][PromiseKept]_vars

\* The only edges of the lifecycle are those of the documented diagram.
Edges == {<<"none", "pending">>, <<"pending", "responded">>, <<"pending", "closed">>,
          <<"responded", "confirmed">>, <<"responded", "closed">>,
          <<"confirmed", "verified">>}

DocumentedMove ==
    \A r \in Requests :
        requests'[r].status # requests[r].status =>
            <<requests[r].status, requests'[r].status>> \in Edges

\* A request moves along documented edges only, so closed and verified are
\* final (respond_to_request, confirm_response, submit_verification).
FollowsDiagram == [][DocumentedMove]_vars
=============================================================================
