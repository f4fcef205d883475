----------------------------- MODULE MCMatchScore -----------------------------
(* Instances of MatchScore for TLC. *)
EXTENDS MatchScore

MCSix == <<"step_free_entrance", "elevator_or_ramp", "accessible_restroom",
           "accessible_seating", "rest_area", "parking_or_dropoff">>

Place == [a \in Facilities |-> CHOOSE k \in DOMAIN FACILITY_ATTRS : FACILITY_ATTRS[k] = a]

\* One distance on each side of every limit, and at it.
Metres == {0, 200, 201, 500, 501, 1000, 1001, Nil}

\* What one facility is to a profile and a claim, as a number: whether it is
\* required (a bit), and the grade claimed, from unknown to full.
Kinds == 0..7
IsRequired(kind) == kind % 2 = 1
Grades == <<Nil, 0, 1, 2>>
Grade(kind) == Grades[1 + kind \div 2]

\* Facilities differ by name only: one input for each multiset of kinds.
Rising == {k \in [1..6 -> Kinds] : \A n \in 1..5 : k[n] <= k[n + 1]}

Claim(k, metres) ==
    [facility |-> [a \in Facilities |-> Grade(k[Place[a]])], walking_distance_m |-> metres]

\* The claim with the worst told of all that was unknown.
Disclosed(c) ==
    [facility |-> [a \in Facilities |-> IF c.facility[a] = Nil THEN 0 ELSE c.facility[a]],
     walking_distance_m |-> IF c.walking_distance_m = Nil THEN 1001 ELSE c.walking_distance_m]

\* The claim with the lowest grade, unknown included, one step up.
Improved(k, metres) == Claim([k EXCEPT ![1] = IF @ + 2 \in Kinds THEN @ + 2 ELSE @], metres)

\* Event 1 has any claim, event 2 one that is a little better.
MCInputs ==
    {[profile |-> [required |-> [a \in Facilities |-> IsRequired(k[Place[a]])],
                   walking_distance |-> pref],
      claims |-> <<Claim(k, metres),
                   IF told THEN Disclosed(Claim(k, metres)) ELSE Improved(k, metres)>>] :
        k \in Rising, pref \in Preferences, metres \in Metres, told \in BOOLEAN}
=============================================================================
