---------------------------- MODULE RequestTables ----------------------------
(***************************************************************************)
(* The rows the request lifecycle reads and writes: events, need profiles, *)
(* accessibility requests and verifications, and the rows seed.py leaves   *)
(* in a fresh demo database.  A row's identity is the index of a function; *)
(* a row that does not exist has status "none".                            *)
(***************************************************************************)
EXTENDS Integers, FiniteSets

CONSTANTS
    Attendees,      \* ids of users with role "attendee"
    Organizers,     \* ids of users with role "organizer", one profile each
    Events,         \* ids (uuid4) an event may get
    Requests,       \* ids (uuid4) an accessibility request may get
    Needs,          \* need profiles: the seven values as one opaque value
    Windows,        \* <<starts_at, ends_at>> pairs an organizer may submit
    MaxTime,        \* bound: the clock stops here
    SeedAttendee,   \* "u-att-1"
    SeedOrganizer,  \* "u-org-1"
    SeedNeeds,      \* DEMO_NEEDS
    UpcomingEvent,  \* "evt-upcoming-1"
    PastEvent,      \* "evt-past-1"
    PastRequest,    \* "req-past-1"
    Nil             \* SQL NULL, and an unused field

Users == Attendees \cup Organizers

Decisions == {"can_fulfill", "partially_fulfill", "cannot_fulfill"}

Statuses == {"pending", "responded", "confirmed", "closed", "verified"}

\* The statuses create_request counts as an active request.
ActiveStatuses == {"pending", "responded", "confirmed"}

\* An event's interval as EventCreate validates it.
Interval == {w \in Int \X Int : w[1] < w[2]}

ASSUME ConstantsAssumption ==
    /\ Attendees \cap Organizers = {}
    /\ SeedAttendee \in Attendees
    /\ SeedOrganizer \in Organizers
    /\ SeedNeeds \in Needs
    /\ {UpcomingEvent, PastEvent} \subseteq Events
    /\ UpcomingEvent # PastEvent
    /\ PastRequest \in Requests /\ IsFiniteSet(Requests)
    /\ Windows \subseteq Interval
    /\ MaxTime \in Nat
    /\ Nil \notin Users \cup Events \cup Requests \cup Needs \cup Decisions

\* Rows that exist: the columns the tables declare NOT NULL are never Nil.
EventRow == [status    : {"upcoming", "completed"},
             owner     : Organizers,
             starts_at : Int,
             ends_at   : Int]

RequestRow == [status       : Statuses,
               event        : Events,
               attendee     : Attendees,
               needs        : Needs,
               decision     : Decisions \cup {Nil},
               confirmed_at : BOOLEAN]

NoEvent == [status |-> "none", owner |-> Nil, starts_at |-> 0, ends_at |-> 0]

NoRequest == [status |-> "none", event |-> Nil, attendee |-> Nil,
              needs |-> Nil, decision |-> Nil, confirmed_at |-> FALSE]

\* The clock of the model starts at the moment of seeding, day 0.
SeedEvents ==
    [[e \in Events |-> NoEvent] EXCEPT
        ![UpcomingEvent] = [status |-> "upcoming", owner |-> SeedOrganizer,
                            starts_at |-> 1, ends_at |-> 2],
        ![PastEvent]     = [status |-> "completed", owner |-> SeedOrganizer,
                            starts_at |-> -2, ends_at |-> -1]]

SeedProfiles ==
    [a \in Attendees |-> IF a = SeedAttendee THEN SeedNeeds ELSE Nil]

SeedRequests ==
    [r \in Requests |->
        IF r = PastRequest
        THEN [status |-> "confirmed", event |-> PastEvent,
              attendee |-> SeedAttendee, needs |-> SeedNeeds,
              decision |-> "can_fulfill", confirmed_at |-> TRUE]
        ELSE NoRequest]

\* An event's status is decided once, when it is published.
EventStatus(window, t) == IF window[1] > t THEN "upcoming" ELSE "completed"

NewEvent(o, window, t) ==
    [status |-> EventStatus(window, t), owner |-> o,
     starts_at |-> window[1], ends_at |-> window[2]]

NewRequest(a, e, n) ==
    [status |-> "pending", event |-> e, attendee |-> a,
     needs |-> n, decision |-> Nil, confirmed_at |-> FALSE]

\* What respond_to_request writes: both columns in one UPDATE.
Answered(row, d) ==
    [row EXCEPT !.decision = d,
                !.status = IF d = "cannot_fulfill" THEN "closed" ELSE "responded"]

\* What confirm_response writes; a decline leaves confirmed_at alone.
Accepted(row) == [row EXCEPT !.status = "confirmed", !.confirmed_at = TRUE]

Declined(row) == [row EXCEPT !.status = "closed"]
=============================================================================
