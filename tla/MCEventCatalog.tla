---------------------------- MODULE MCEventCatalog ----------------------------
(* Instances of EventCatalog for TLC. *)
EXTENDS EventCatalog, TLC

CONSTANTS o1, o2, n1, n2

Column(owner, starts_at, status, facility, metres, aware) ==
    [owner |-> owner, starts_at |-> starts_at, ends_at |-> 9, status |-> status,
     title |-> owner, aware |-> aware,
     claim |-> [facility |-> facility, walking_distance_m |-> metres]]

\* Equal times, equal and different claims, one event over, one with a way no
\* 32-bit column holds, one whose timestamps cannot be compared.
MCRow == <<
    Column(o1, 4, "upcoming", 2, 100, {TRUE}),
    Column(o2, 2, "upcoming", 0, 100, {TRUE}),
    Column(o1, 2, "upcoming", Nil, Nil, {TRUE}),
    Column(o2, -2, "completed", 2, 100, {TRUE}),
    Column(o1, 0, "upcoming", 1, 100, {TRUE}),
    Column(o1, 0, "upcoming", 1, 1001, {TRUE}),
    Column(o1, 0, "upcoming", 1, 100, {TRUE, FALSE}) >>

MCEvents == 1..7

MCSeeded == {1, 4}

\* n1 needs the facility, n2 does not care.
MCScore(n, c) == IF c.facility = Nil THEN 0 ELSE IF n = n1 THEN 50 * c.facility ELSE 100

AllEvents == [role |-> "attendee", organizer |-> Nil, sort |-> "starts_at", mine |-> FALSE,
              status |-> Nil, q |-> Nil, facility |-> Nil, date_from |-> Nil, date_to |-> Nil,
              limit |-> 2, stop |-> "short_page"]

Mine == [AllEvents EXCEPT !.role = "organizer", !.organizer = o1, !.mine = TRUE]

Ranked == [AllEvents EXCEPT !.sort = "match_score"]

MCQueries ==
    {AllEvents, Ranked, Mine,
     [AllEvents EXCEPT !.limit = 1],
     [AllEvents EXCEPT !.stop = "total"],
     [Ranked EXCEPT !.stop = "total", !.limit = 1],
     [Ranked EXCEPT !.date_from = 1, !.date_to = 1],
     [AllEvents EXCEPT !.facility = 2, !.status = "upcoming", !.limit = 1],
     [AllEvents EXCEPT !.q = {o2}, !.date_from = 0, !.limit = 1],
     [AllEvents EXCEPT !.date_from = 2, !.date_to = 1],
     [AllEvents EXCEPT !.mine = TRUE],
     [AllEvents EXCEPT !.facility = 3],
     [Mine EXCEPT !.organizer = Nil],
     [Mine EXCEPT !.sort = "match_score"]}
=============================================================================
