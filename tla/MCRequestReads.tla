---------------------------- MODULE MCRequestReads ----------------------------
(* Instances of RequestReads for TLC. *)
EXTENDS RequestReads, TLC

CONSTANTS a1, a2, o1, o2, past, soon, later, seeded, r1, r2, r3

MCEvent == (past  :> [owner |-> o1, status |-> "completed", starts_at |-> -1, id |-> 1])
        @@ (soon  :> [owner |-> o1, status |-> "upcoming", starts_at |-> 1, id |-> 2])
        @@ (later :> [owner |-> o2, status |-> "upcoming", starts_at |-> 2, id |-> 3])

Dashboard == [kind |-> "dashboard", role |-> "attendee", user |-> a1, status |-> "pending",
              limit |-> 1, stop |-> "short_page"]

OwnRequests == [Dashboard EXCEPT !.kind = "list", !.status = Nil]

MCDashboards == {Dashboard, [Dashboard EXCEPT !.user = a2]}

MCLists ==
    {[OwnRequests EXCEPT !.status = "pending"], [OwnRequests EXCEPT !.stop = "total"],
     [OwnRequests EXCEPT !.role = "organizer", !.user = o1, !.limit = 2]}

MCViews == MCDashboards \cup MCLists

New == {r \in Requests \ {seeded} : rows[r] # Nil}

Others == {r \in New : rows[r].attendee # view.user}

\* Bound: a list sees new requests of one attendee for one event, at any times;
\* answered ones only if it filters by status, and "responded" stands for every
\* status that is not pending.  A dashboard sees new requests at two times, at
\* most one of them another attendee's, which stays pending.
MCBound ==
    IF view.kind = "list"
    THEN /\ profiles = {a1}
         /\ \A r \in New : rows[r].event = soon
         /\ \A r \in New : rows[r].status \in
                {"pending"} \cup (IF view.status = Nil THEN {} ELSE {"responded"})
    ELSE /\ clock < MaxTime
         /\ Cardinality(Others) <= 1
         /\ \A r \in Others : rows[r].status = "pending"

MCSymmetry == Permutations(Requests \ {seeded})
=============================================================================
