------------------------------ MODULE MatchScore ------------------------------
(***************************************************************************)
(* _compute_match: the weighted-sum score of each event's accessibility    *)
(* claim for one attendee's need profile, as GET /api/events with          *)
(* sort=match_score computes it for every event it lists and               *)
(* GET /api/events/{event_id}/match for one.                               *)
(*                                                                         *)
(* Numbers are exact here: a fulfilment counts in halves, a weight in      *)
(* quarters, and a sum of their products is a natural number.  The code    *)
(* adds floats, which differs only where the exact score lies half-way     *)
(* between two integers: round may then return either.                     *)
(***************************************************************************)
EXTENDS Integers, Sequences, FiniteSetsExt

CONSTANTS
    FACILITY_ATTRS, \* the six attributes a claim grades 0, 0.5 or 1, in order
    Events,
    Inputs,         \* the profiles and claims a call may read
    Nil             \* SQL NULL, and a score that is not there yet

Walking == "walking_distance"
Facilities == {FACILITY_ATTRS[i] : i \in DOMAIN FACILITY_ATTRS}
Attributes == Facilities \cup {Walking}

Preferences == {"short", "moderate", "any"}
Profiles == [required : [Facilities -> BOOLEAN], walking_distance : Preferences]
Claims == [facility : [Facilities -> 0..2 \cup {Nil}], walking_distance_m : Nat \cup {Nil}]

Rows == [profile : Profiles, claims : [Events -> Claims]]

ASSUME MatchAssumption ==
    /\ FACILITY_ATTRS \in Seq(Facilities) /\ IsInjective(FACILITY_ATTRS)
    /\ Walking \notin Facilities
    /\ Nil \notin Int
    /\ Inputs \subseteq Rows

VARIABLES
    input,      \* the rows the call has read
    i,          \* how many attributes the loop has visited
    total,      \* total_coeff, in quarters
    sums,       \* per event, the sum of weight times fulfilment, in eighths
    score       \* per event, its final score or Nil

vars == <<input, i, total, sums, score>>

\* Faulty on purpose: what is not required does not count at all.
Coeff_RequiredOnly(p, a) ==
    IF a = Walking THEN [short |-> 8, moderate |-> 4, any |-> 1][p.walking_distance]
    ELSE IF p.required[a] THEN 8 ELSE 0

\* Base weight 1, times 2 if required and times 0.25 if not; for walking 2, 1, 0.25.
Coeff(p, a) ==
    IF a = Walking THEN [short |-> 8, moderate |-> 4, any |-> 1][p.walking_distance]
    ELSE IF p.required[a] THEN 8 ELSE 1

\* Faulty on purpose: no claim about the distance is taken for a short walk.
WalkFulfillment_Optimistic(pref, metres) ==
    LET d == IF metres = Nil THEN 0 ELSE metres
        near == IF pref = "short" THEN 200 ELSE 500
    IN  IF pref = "any" \/ d <= near THEN 2 ELSE IF d <= 2 * near THEN 1 ELSE 0

WalkFulfillment(pref, metres) ==
    LET near == IF pref = "short" THEN 200 ELSE 500
        far  == IF pref = "short" THEN 500 ELSE 1000
    IN  IF metres = Nil THEN Nil
        ELSE IF pref = "any" \/ metres <= near THEN 2
        ELSE IF metres <= far THEN 1 ELSE 0

Fulfillment(p, c, a) ==
    IF a = Walking THEN WalkFulfillment(p.walking_distance, c.walking_distance_m)
    ELSE c.facility[a]

\* An unknown attribute adds nothing, and its weight counts all the same.
Term(p, c, a) ==
    IF Fulfillment(p, c, a) = Nil THEN 0 ELSE Coeff(p, a) * Fulfillment(p, c, a)

-----------------------------------------------------------------------------
Init ==
    /\ input \in Inputs
    /\ i = 0
    /\ total = 0
    /\ sums = [e \in Events |-> 0]
    /\ score = [e \in Events |-> Nil]

Attribute(k) == IF k \in DOMAIN FACILITY_ATTRS THEN FACILITY_ATTRS[k] ELSE Walking

\* Faulty on purpose: the weight of a facility nobody claims is left out.
Visit_SkipsUnknown(a) ==
    LET known == \E e \in Events : Fulfillment(input.profile, input.claims[e], a) # Nil IN
    /\ i <= Len(FACILITY_ATTRS)
    /\ a = Attribute(i + 1)
    /\ i' = i + 1
    /\ total' = IF a = Walking \/ known THEN total + Coeff(input.profile, a) ELSE total
    /\ sums' = [e \in Events |-> sums[e] + Term(input.profile, input.claims[e], a)]
    /\ UNCHANGED <<input, score>>

\* Faulty on purpose: the terms are not divided by the weights they are made of.
Visit_BaseWeights(a) ==
    /\ i <= Len(FACILITY_ATTRS)
    /\ a = Attribute(i + 1)
    /\ i' = i + 1
    /\ total' = total + 4
    /\ sums' = [e \in Events |-> sums[e] + Term(input.profile, input.claims[e], a)]
    /\ UNCHANGED <<input, score>>

Visit(a) ==
    /\ i <= Len(FACILITY_ATTRS)
    /\ a = Attribute(i + 1)
    /\ i' = i + 1
    /\ total' = total + Coeff(input.profile, a)
    /\ sums' = [e \in Events |-> sums[e] + Term(input.profile, input.claims[e], a)]
    /\ UNCHANGED <<input, score>>

\* The integers nearest to 100 * n / d: one, or two when it is half-way.
Rounded(n, d) ==
    LET below == (100 * n) \div d
    IN  {s \in {below, below + 1} : 2 * (100 * n - s * d) \in -d..d}

SameTerms(e, f) ==
    \A a \in Attributes :
        Term(input.profile, input.claims[e], a) = Term(input.profile, input.claims[f], a)

\* Equal terms are added in the same order, so they come to the same float.
Round ==
    /\ i > Len(FACILITY_ATTRS)
    /\ score = [e \in Events |-> Nil]
    /\ \E chosen \in [Events -> UNION {Rounded(sums[e], 2 * total) : e \in Events}] :
        /\ \A e \in Events : chosen[e] \in Rounded(sums[e], 2 * total)
        /\ \A e, f \in Events : SameTerms(e, f) => chosen[e] = chosen[f]
        /\ score' = chosen
    /\ UNCHANGED <<input, i, total, sums>>

Next == (\E a \in Attributes : Visit(a)) \/ Round

Spec == Init /\ [][Next]_vars

-----------------------------------------------------------------------------
\* A score is a percentage.
TypeOK ==
    /\ input \in Rows
    /\ i \in 0..Len(FACILITY_ATTRS) + 1
    /\ total \in Nat
    /\ sums \in [Events -> Nat]
    /\ score \in [Events -> 0..100 \cup {Nil}]

Scored(e) == score[e] # Nil

\* S = sum of w * x / sum of w * 100, as ADR-0003 writes it, in one piece.
WeightedSum(p, c) ==
    LET Contribution(a) ==
            IF Fulfillment(p, c, a) = Nil THEN 0 ELSE Coeff(p, a) * Fulfillment(p, c, a)
    IN  MapThenSumSet(Contribution, Attributes)

TotalWeight(p) == LET Weight(a) == Coeff(p, a) IN MapThenSumSet(Weight, Attributes)

\* The loop computes the documented formula to the nearest integer, whatever is
\* unknown: an attribute nobody claims keeps its weight (_compute_match, ADR-0003).
ImplementsFormula ==
    \A e \in Events : Scored(e) =>
        LET n == WeightedSum(input.profile, input.claims[e])
            d == 2 * TotalWeight(input.profile)
        IN  2 * (100 * n - score[e] * d) \in -d..d

\* x is no better than y, where nothing known is worse than anything known.
NoBetter(x, y) == x = Nil \/ (y # Nil /\ x <= y)

NoFarther(x, y) == y = Nil \/ (x # Nil /\ x <= y)

NoBetterClaim(c, d) ==
    /\ \A a \in Facilities : NoBetter(c.facility[a], d.facility[a])
    /\ NoFarther(d.walking_distance_m, c.walking_distance_m)

\* An event that claims at least as much in every attribute never ranks below
\* one that claims less, and an organizer who claims what was unknown never
\* loses by it, for any attendee and however the sums are rounded.
ScoreIsMonotone ==
    \A e, f \in Events :
        /\ Scored(e)
        /\ NoBetterClaim(input.claims[e], input.claims[f])
        => score[e] <= score[f]

\* Rounding never makes up certainty: 100 says that every one of the seven
\* attributes is claimed in full, and 0 that none of them is claimed at all.
ExtremesAreHonest ==
    \A e \in Events : Scored(e) =>
        LET x(a) == Fulfillment(input.profile, input.claims[e], a) IN
        /\ score[e] = 100 <=> \A a \in Attributes : x(a) = 2
        /\ score[e] = 0 <=> \A a \in Attributes : x(a) \in {0, Nil}
=============================================================================
