----------------------------- MODULE EventCatalog -----------------------------
(***************************************************************************)
(* POST /api/events and GET /api/events together: create_event writes a    *)
(* venue, an event and a claim in one transaction, while a client of       *)
(* list_events goes from page to page by limit and offset.  Nothing ties   *)
(* one page to the next: between two calls, and between the two statements *)
(* of one call, events are published and the client's profile is replaced. *)
(*                                                                         *)
(* A row of table events never changes, so the columns an id gets when it  *)
(* is published are a constant.  ORDER BY, LIMIT and OFFSET are ranks: the *)
(* rank of a row is the number of rows that come before it.                *)
(***************************************************************************)
EXTENDS Integers, FiniteSets

CONSTANTS
    Events,         \* ids an event may get; PostgreSQL and Python order them alike
    Seeded,         \* the events seed.py leaves
    Row,            \* per event: its columns, its claim and its payload
    Profiles,       \* need profiles
    Score(_, _),    \* _compute_match of a profile and a claim (module MatchScore)
    Queries,        \* the lists clients ask for
    DayLength,      \* units of starts_at in a day
    MaxInteger,     \* the largest value of an INTEGER column, 2^31 - 1
    Nil

Claims == {Row[e].claim : e \in Events}

\* A page of more than this many rows, or none, fails validation.
MaxLimit == 50

Lists == {q.limit : q \in Queries}

ASSUME CatalogAssumption ==
    /\ IsFiniteSet(Events) /\ Events \subseteq Int
    /\ Seeded \subseteq Events
    /\ \A e \in Events : Row[e].starts_at \in Int
    /\ \A n \in Profiles, c \in Claims : Score(n, c) \in 0..100
    /\ Lists \subseteq 1..MaxLimit
    /\ \A q \in Queries : q.sort \in {"starts_at", "match_score"}
                          /\ q.stop \in {"short_page", "total"}
    /\ DayLength \in Nat \ {0} /\ MaxInteger \in Nat
    /\ Nil \notin Events \cup Profiles

VARIABLES
    venues, published, claims,  \* the ids with a committed row in each table
    creating,       \* the create_event call in flight, or Nil
    profile,        \* the client's need profile, or Nil
    query,          \* what the client lists
    pc,             \* where its call of list_events stands
    offset,         \* the first rank of the page it asks for
    total,          \* what its last count returned
    needs,          \* the profile its last call read
    shown,          \* the events on the pages so far
    first,          \* history: the events that matched at the first page
    mixed,          \* history: two pages were ranked by different profiles
    exact,          \* history: the last total counted the rows the page is cut from
    repeated        \* history: an event was shown on two pages

tables == <<venues, published, claims, creating>>
walk == <<pc, offset, total, needs, shown, first, mixed, exact, repeated>>
vars == <<tables, profile, query, walk>>

-----------------------------------------------------------------------------
(* POST /api/events.                                                       *)

\* EventCreate and the check in create_event: a naive timestamp is refused,
\* two of different kinds cannot be compared (a TypeError); nothing is written.
Acceptable(e) ==
    /\ Row[e].aware = {TRUE}
    /\ Row[e].starts_at < Row[e].ends_at

\* ClaimInput sets no upper limit, so only the column refuses a long way.
Storable(e) ==
    Row[e].claim.walking_distance_m # Nil => Row[e].claim.walking_distance_m <= MaxInteger

CreateLoad(e) ==
    /\ creating = Nil
    /\ e \notin published
    /\ Acceptable(e)
    /\ creating' = [event |-> e, flushed |-> {}]
    /\ UNCHANGED <<venues, published, claims, profile, query, walk>>

FlushVenue ==
    /\ creating # Nil /\ creating.flushed = {}
    /\ creating' = [creating EXCEPT !.flushed = {"venue"}]
    /\ UNCHANGED <<venues, published, claims, profile, query, walk>>

\* Faulty on purpose: the event is committed before its claim is written.
FlushEvent_Commits ==
    /\ creating # Nil /\ creating.flushed = {"venue"}
    /\ creating' = [creating EXCEPT !.flushed = {"venue", "event"}]
    /\ venues' = venues \cup {creating.event}
    /\ published' = published \cup {creating.event}
    /\ UNCHANGED <<claims, profile, query, walk>>

\* A flush sends the INSERT; the row stays the session's own.
FlushEvent ==
    /\ creating # Nil /\ creating.flushed = {"venue"}
    /\ creating' = [creating EXCEPT !.flushed = {"venue", "event"}]
    /\ UNCHANGED <<venues, published, claims, profile, query, walk>>

\* commit() flushes the claim first.
CreateCommit ==
    /\ creating # Nil /\ creating.flushed = {"venue", "event"}
    /\ Storable(creating.event)
    /\ venues' = venues \cup {creating.event}
    /\ published' = published \cup {creating.event}
    /\ claims' = claims \cup {creating.event}
    /\ creating' = Nil
    /\ UNCHANGED <<profile, query, walk>>

\* A claim that does not fit, a lost connection or a dead process.
CreateFail ==
    /\ creating # Nil
    /\ creating' = Nil
    /\ UNCHANGED <<venues, published, claims, profile, query, walk>>

(* PUT /api/me/needs, as the client's other calls see it.                  *)
PutNeeds(n) ==
    /\ query.role = "attendee"
    /\ profile' = n
    /\ UNCHANGED <<tables, query, walk>>

-----------------------------------------------------------------------------
(* GET /api/events.                                                        *)

FacilityValues == {0, 1, 2}     \* halves: 0, 0.5 and 1

Refused ==
    \/ query.facility \notin FacilityValues \cup {Nil}
    \/ query.mine /\ query.role # "organizer"
    \/ query.sort = "match_score" /\ query.role # "attendee"
    \/ query.date_from # Nil /\ query.date_to # Nil /\ query.date_from > query.date_to
    \/ query.sort = "match_score" /\ profile = Nil

\* One facility stands for all six; days are UTC days, both ends included.
Matches(e) ==
    /\ query.facility # Nil => Row[e].claim.facility = query.facility
    /\ query.status # Nil => Row[e].status = query.status
    /\ query.mine => query.organizer # Nil /\ Row[e].owner = query.organizer
    /\ query.q # Nil => Row[e].title \in query.q
    /\ query.date_from # Nil => Row[e].starts_at >= query.date_from * DayLength
    /\ query.date_to # Nil => Row[e].starts_at < (query.date_to + 1) * DayLength

\* A facility filter is a join with the claims.
Matching == {e \in published : Matches(e) /\ (query.facility # Nil => e \in claims)}

\* ORDER BY starts_at, id
ByTime ==
    {p \in Events \X Events :
        \/ Row[p[1]].starts_at < Row[p[2]].starts_at
        \/ Row[p[1]].starts_at = Row[p[2]].starts_at /\ p[1] < p[2]}

\* scored.sort(key = -score, starts_at, id)
ByScore(n) ==
    {p \in Events \X Events :
        \/ Score(n, Row[p[1]].claim) > Score(n, Row[p[2]].claim)
        \/ Score(n, Row[p[1]].claim) = Score(n, Row[p[2]].claim) /\ p \in ByTime}

Order == IF query.sort = "match_score" THEN ByScore(needs) ELSE ByTime

Rank(rows, e) == Cardinality({f \in rows : <<f, e>> \in Order})

\* Faulty on purpose: the offset is taken for the last row already seen.
Page_SkipsOne(rows) ==
    {e \in rows : offset < Rank(rows, e) /\ Rank(rows, e) <= offset + query.limit}

\* Faulty on purpose: the page ends one row too late.
Page_OneMore(rows) ==
    {e \in rows : offset <= Rank(rows, e) /\ Rank(rows, e) <= offset + query.limit}

Page(rows) ==
    {e \in rows : offset <= Rank(rows, e) /\ Rank(rows, e) < offset + query.limit}

\* A client stops at a page that is not full, or when the total is reached.
Last(page, count) ==
    IF query.stop = "total" THEN offset + query.limit >= count
                            ELSE Cardinality(page) < query.limit

\* build_event_list_item fails for an event without a venue.
Answer(page, count) ==
    /\ shown' = shown \cup page
    /\ repeated' = (repeated \/ page \cap shown # {})
    /\ total' = count
    /\ exact' = (count = Cardinality(Matching))
    /\ pc' = IF ~(page \subseteq venues) THEN "failed"
             ELSE IF Last(page, count) THEN "done" ELSE "ready"
    /\ offset' = IF pc' = "ready" THEN offset + query.limit ELSE offset
    /\ UNCHANGED <<needs, first, mixed>>

\* The guards, then the first statement: the profile, or the count.
Ask ==
    /\ pc = "ready" /\ ~Refused
    /\ first' = IF offset = 0 THEN Matching ELSE first
    /\ IF query.sort = "match_score"
       THEN /\ pc' = "loaded"
            /\ needs' = profile
            /\ mixed' = (mixed \/ (offset > 0 /\ profile # needs))
            /\ UNCHANGED total
       ELSE /\ pc' = "counted"
            /\ total' = Cardinality(Matching)
            /\ UNCHANGED <<needs, mixed>>
    /\ UNCHANGED <<tables, profile, query, offset, shown, exact, repeated>>

Refuse ==
    /\ pc = "ready" /\ Refused
    /\ pc' = "refused"
    /\ UNCHANGED <<tables, profile, query, offset, total, needs, shown, first,
                   mixed, exact, repeated>>

\* All rows are fetched, ranked in Python, and the page is cut from them.
RankedPage ==
    /\ pc = "loaded"
    /\ Answer(Page(Matching), Cardinality(Matching))
    /\ UNCHANGED <<tables, profile, query>>

\* LIMIT and OFFSET, a statement after the count.
TimePage ==
    /\ pc = "counted"
    /\ Answer(Page(Matching), total)
    /\ UNCHANGED <<tables, profile, query>>

\* The client lists the events again from the start.
Again ==
    /\ pc \in {"done", "refused", "failed"}
    /\ pc' = "ready" /\ offset' = 0 /\ total' = 0 /\ needs' = Nil
    /\ shown' = {} /\ first' = {}
    /\ mixed' = FALSE /\ exact' = TRUE /\ repeated' = FALSE
    /\ UNCHANGED <<tables, profile, query>>

-----------------------------------------------------------------------------
Init ==
    /\ venues = Seeded /\ published = Seeded /\ claims = Seeded
    /\ creating = Nil
    /\ profile = Nil
    /\ query \in Queries
    /\ pc = "ready" /\ offset = 0 /\ total = 0 /\ needs = Nil
    /\ shown = {} /\ first = {}
    /\ mixed = FALSE /\ exact = TRUE /\ repeated = FALSE

Client == Ask \/ Refuse \/ RankedPage \/ TimePage \/ Again

Next ==
    \/ \E e \in Events : CreateLoad(e)
    \/ FlushVenue \/ FlushEvent \/ CreateCommit \/ CreateFail
    \/ \E n \in Profiles : PutNeeds(n)
    \/ Client

Spec == Init /\ [][Next]_vars

-----------------------------------------------------------------------------
\* Types, and the assertion in list_events: whoever ranks has read a profile.
TypeOK ==
    /\ venues \subseteq Events /\ published \subseteq Events /\ claims \subseteq Events
    /\ creating \in [event : Events, flushed : SUBSET {"venue", "event"}] \cup {Nil}
    /\ profile \in Profiles \cup {Nil}
    /\ query \in Queries
    /\ pc \in {"ready", "loaded", "counted", "done", "refused", "failed"}
    /\ offset \in Nat /\ total \in 0..Cardinality(Events)
    /\ needs \in Profiles \cup {Nil}
    /\ pc = "loaded" => needs # Nil
    /\ shown \subseteq published /\ first \subseteq published
    /\ mixed \in BOOLEAN /\ exact \in BOOLEAN /\ repeated \in BOOLEAN

\* Wherever create_event stops, an event that can be seen has its venue and
\* its claim, and no call fails on one that does not (DATA_INTEGRITY_ERROR in
\* build_event_list_item, CLAIM_NOT_FOUND in calculate_match).
EventsAreWhole ==
    /\ published = venues /\ published = claims
    /\ pc # "failed"

\* A client that has read its list to the end has seen every event that was
\* there when it began, although events were published between its calls and
\* within them, unless the profile that ranks them was replaced in between,
\* or it trusted a total that was counted before its last page was read
\* (list_events: offset paging, count and page in two statements).
MissesExplained ==
    pc = "done" /\ ~(first \subseteq shown) =>
        \/ query.sort = "match_score" /\ mixed
        \/ query.sort = "starts_at" /\ query.stop = "total" /\ ~exact

\* While nothing is published and the profile stays, the pages put together
\* are the list: every match once, and the total is their number.
QuietPagesAreTheList ==
    pc = "done" /\ ~mixed /\ Matching = first =>
        shown = first /\ ~repeated /\ total = Cardinality(first)
=============================================================================
