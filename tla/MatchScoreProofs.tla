--------------------------- MODULE MatchScoreProofs ---------------------------
(***************************************************************************)
(* Proofs about _compute_match for every list of facilities, every profile *)
(* and every claim: the score is a percentage, it is monotone in the claim,*)
(* it is the documented weighted sum to the nearest integer, and its ends  *)
(* are honest.                                                             *)
(*                                                                         *)
(* The argument.  The induction is the loop's own.  ScoreInductive relates *)
(* the running sums of any two events after i attributes, Summed relates   *)
(* each to the formula's sum over the attributes visited so far, and       *)
(* Extremes says when a sum is full or empty.  That a sum over a set does  *)
(* not depend on the order is SumStep.                                     *)
(***************************************************************************)
EXTENDS MatchScore, FiniteSetTheorems, TLAPS

T(e, a) == Term(input.profile, input.claims[e], a)

\* After i attributes the better claim is not behind, and level only if the
\* two have contributed the same terms so far.
Ordered ==
    \A e, f \in Events : NoBetterClaim(input.claims[e], input.claims[f]) =>
        /\ sums[e] <= sums[f]
        /\ sums[e] = sums[f] => \A k \in 1..i : T(e, Attribute(k)) = T(f, Attribute(k))

LoopTypes ==
    /\ input \in Rows
    /\ i \in 0..Len(FACILITY_ATTRS) + 1
    /\ total \in Nat
    /\ sums \in [Events -> Nat]
    /\ score \in [Events -> Int \cup {Nil}]

Bounded ==
    /\ i > 0 => total > 0
    /\ \A e \in Events : sums[e] <= 2 * total

Rounding ==
    /\ \A e \in Events : score[e] # Nil =>
            i > Len(FACILITY_ATTRS) /\ score[e] \in Rounded(sums[e], 2 * total)
    /\ \A e, f \in Events : SameTerms(e, f) => score[e] = score[f]
    /\ \A e, f \in Events : score[e] # Nil => score[f] # Nil

ScoreInductive == LoopTypes /\ Bounded /\ Ordered /\ Rounding

-----------------------------------------------------------------------------
LEMMA CoeffBounds ==
    ASSUME NEW p \in Profiles, NEW a \in Attributes
    PROVE  Coeff(p, a) \in 1..8
BY MatchAssumption DEF Profiles, Preferences, Attributes, Coeff

LEMMA WalkBounds ==
    ASSUME NEW pref \in Preferences, NEW m \in Nat \cup {Nil}
    PROVE  WalkFulfillment(pref, m) \in 0..2 \cup {Nil}
BY DEF WalkFulfillment

LEMMA FulfillmentBounds ==
    ASSUME NEW p \in Profiles, NEW c \in Claims, NEW a \in Attributes
    PROVE  Fulfillment(p, c, a) \in 0..2 \cup {Nil}
<1>1. CASE a = Walking
  BY <1>1, WalkBounds DEF Fulfillment, Profiles, Claims
<1>2. CASE a # Walking
  BY <1>2 DEF Fulfillment, Claims, Attributes
<1> QED BY <1>1, <1>2

LEMMA TermBounds ==
    ASSUME NEW p \in Profiles, NEW c \in Claims, NEW a \in Attributes
    PROVE  /\ Term(p, c, a) \in Nat
           /\ Term(p, c, a) <= 2 * Coeff(p, a)
<1>1. Coeff(p, a) \in 1..8
  BY CoeffBounds
<1>2. Fulfillment(p, c, a) \in 0..2 \cup {Nil}
  BY FulfillmentBounds
<1>3. CASE Fulfillment(p, c, a) = Nil
  BY <1>1, <1>3 DEF Term
<1>4. CASE Fulfillment(p, c, a) # Nil
  <2>1. Fulfillment(p, c, a) \in {0, 1, 2}
    BY <1>2, <1>4
  <2> QED BY <1>1, <1>4, <2>1 DEF Term
<1> QED BY <1>3, <1>4

\* A walk that is no farther is no worse, whatever the preference.
LEMMA WalkMonotone ==
    ASSUME NEW pref \in Preferences,
           NEW m \in Nat \cup {Nil}, NEW n \in Nat \cup {Nil}, NoFarther(n, m)
    PROVE  NoBetter(WalkFulfillment(pref, m), WalkFulfillment(pref, n))
BY MatchAssumption DEF Preferences, NoFarther, NoBetter, WalkFulfillment

LEMMA TermMonotone ==
    ASSUME NEW p \in Profiles, NEW c \in Claims, NEW d \in Claims,
           NoBetterClaim(c, d), NEW a \in Attributes
    PROVE  Term(p, c, a) <= Term(p, d, a)
<1> DEFINE x == Fulfillment(p, c, a)
           y == Fulfillment(p, d, a)
<1>1. NoBetter(x, y)
  <2>1. CASE a = Walking
    BY <2>1, WalkMonotone DEF Fulfillment, NoBetterClaim, Profiles, Claims
  <2>2. CASE a # Walking
    BY <2>2 DEF Fulfillment, NoBetterClaim, Attributes
  <2> QED BY <2>1, <2>2
<1>2. x \in 0..2 \cup {Nil} /\ y \in 0..2 \cup {Nil}
  BY FulfillmentBounds
<1>3. Coeff(p, a) \in 1..8
  BY CoeffBounds
<1> HIDE DEF x, y
<1>4. Term(p, c, a) = IF x = Nil THEN 0 ELSE Coeff(p, a) * x
  BY DEF Term, x
<1>5. Term(p, d, a) = IF y = Nil THEN 0 ELSE Coeff(p, a) * y
  BY DEF Term, y
<1>6. CASE x = Nil
  <2>1. Term(p, d, a) \in Nat
    BY TermBounds
  <2> QED BY <1>4, <1>6, <2>1
<1>7. CASE x # Nil
  <2>1. x \in {0, 1, 2} /\ y \in {0, 1, 2} /\ x <= y /\ y # Nil
    BY <1>1, <1>2, <1>7, MatchAssumption DEF NoBetter
  <2>2. Coeff(p, a) * x <= Coeff(p, a) * y
    BY <1>3, <2>1
  <2> QED BY <1>4, <1>5, <1>7, <2>1, <2>2
<1> QED BY <1>6, <1>7

\* A nearest integer to a percentage is a percentage.
LEMMA RoundedRange ==
    ASSUME NEW n \in Nat, NEW d \in Nat, d > 0, n <= d, NEW s \in Rounded(n, d)
    PROVE  s \in 0..100
<1>1. s \in Int
  BY DEF Rounded
<1>2. 2 * (100 * n - s * d) >= -d /\ 2 * (100 * n - s * d) <= d
  BY <1>1 DEF Rounded
<1>3. s <= 100
  <2>1. SUFFICES ASSUME s >= 101 PROVE FALSE
    BY <1>1
  <2>2. s * d >= 101 * d
    BY <1>1, <2>1
  <2> QED BY <1>1, <1>2, <2>2
<1>4. s >= 0
  <2>1. SUFFICES ASSUME s <= -1 PROVE FALSE
    BY <1>1
  <2>2. s * d <= -d
    BY <1>1, <2>1
  <2> QED BY <1>1, <1>2, <2>2
<1> QED BY <1>1, <1>3, <1>4

\* Rounding keeps the order of different values, half-way ones included.
LEMMA RoundedMonotone ==
    ASSUME NEW m \in Nat, NEW n \in Nat, NEW d \in Nat, d > 0, m < n,
           NEW s \in Rounded(m, d), NEW t \in Rounded(n, d)
    PROVE  s <= t
<1>1. s \in Int /\ t \in Int
  BY DEF Rounded
<1>2. 2 * (100 * m - s * d) >= -d /\ 2 * (100 * n - t * d) <= d
  BY <1>1 DEF Rounded
<1>3. SUFFICES ASSUME s >= t + 1 PROVE FALSE
  BY <1>1
<1>4. s * d >= (t + 1) * d
  BY <1>1, <1>3
<1>5. (t + 1) * d = t * d + d
  BY <1>1
<1> QED BY <1>1, <1>2, <1>4, <1>5

-----------------------------------------------------------------------------
LEMMA InputParts ==
    ASSUME input \in Rows
    PROVE  /\ input.profile \in Profiles
           /\ \A e \in Events : input.claims[e] \in Claims
BY DEF Rows

LEMMA InitInductive == Init => ScoreInductive
<1> SUFFICES ASSUME Init PROVE ScoreInductive
  OBVIOUS
<1>1. LoopTypes
  BY MatchAssumption DEF Init, LoopTypes, Rows
<1>2. Bounded /\ Ordered
  BY DEF Init, Bounded, Ordered
<1>3. Rounding
  BY DEF Init, Rounding
<1> QED BY <1>1, <1>2, <1>3 DEF ScoreInductive

LEMMA VisitInductive ==
    ASSUME ScoreInductive, NEW a \in Attributes, Visit(a)
    PROVE  ScoreInductive'
<1> USE DEF ScoreInductive
<1>1. /\ input.profile \in Profiles
      /\ \A e \in Events : input.claims[e] \in Claims
  BY InputParts DEF LoopTypes
<1>2. /\ Coeff(input.profile, a) \in 1..8
      /\ \A e \in Events : T(e, a) \in Nat /\ T(e, a) <= 2 * Coeff(input.profile, a)
  BY <1>1, CoeffBounds, TermBounds DEF T
<1>3. /\ i \in 0..Len(FACILITY_ATTRS)
      /\ i' = i + 1
      /\ a = Attribute(i + 1)
      /\ total' = total + Coeff(input.profile, a)
      /\ sums' = [e \in Events |-> sums[e] + T(e, a)]
      /\ input' = input
      /\ score' = score
  BY DEF Visit, LoopTypes, T
<1>4. Len(FACILITY_ATTRS) \in Nat
  BY MatchAssumption
<1>5. LoopTypes'
  BY <1>2, <1>3, <1>4 DEF LoopTypes
<1>6. Bounded'
  <2>1. total' > 0
    BY <1>2, <1>3 DEF LoopTypes
  <2>2. ASSUME NEW e \in Events PROVE sums'[e] <= 2 * total'
    <3>1. sums[e] <= 2 * total /\ sums[e] \in Nat /\ total \in Nat
      BY DEF Bounded, LoopTypes
    <3>2. sums'[e] = sums[e] + T(e, a)
      BY <1>3
    <3>3. Coeff(input.profile, a) \in Int /\ T(e, a) \in Nat
      BY <1>2
    <3>4. T(e, a) <= 2 * Coeff(input.profile, a)
      BY <1>2
    <3>5. total' = total + Coeff(input.profile, a)
      BY <1>3
    <3> QED BY <3>1, <3>2, <3>3, <3>4, <3>5
  <2> QED BY <2>1, <2>2 DEF Bounded
<1>7. Ordered'
  <2>1. SUFFICES ASSUME NEW e \in Events, NEW f \in Events,
                        NoBetterClaim(input.claims[e], input.claims[f])
                 PROVE  /\ sums'[e] <= sums'[f]
                        /\ sums'[e] = sums'[f] =>
                             \A k \in 1..i + 1 : T(e, Attribute(k)) = T(f, Attribute(k))
    BY <1>3 DEF Ordered, T
  <2>2. /\ sums[e] <= sums[f]
        /\ sums[e] = sums[f] => \A k \in 1..i : T(e, Attribute(k)) = T(f, Attribute(k))
    BY <2>1 DEF Ordered
  <2>3. T(e, a) <= T(f, a)
    BY <1>1, <2>1, TermMonotone DEF T
  <2>4. sums'[e] = sums[e] + T(e, a) /\ sums'[f] = sums[f] + T(f, a)
    BY <1>3
  <2>5. /\ sums[e] \in Nat /\ sums[f] \in Nat
        /\ T(e, a) \in Nat /\ T(f, a) \in Nat
    BY <1>2 DEF LoopTypes
  <2>6. sums'[e] <= sums'[f]
    BY <2>2, <2>3, <2>4, <2>5
  <2>7. ASSUME sums'[e] = sums'[f], NEW k \in 1..i + 1
        PROVE  T(e, Attribute(k)) = T(f, Attribute(k))
    <3>1. sums[e] = sums[f] /\ T(e, a) = T(f, a)
      BY <2>2, <2>3, <2>4, <2>5, <2>7
    <3>2. CASE k = i + 1
      BY <1>3, <3>1, <3>2
    <3>3. CASE k # i + 1
      <4>1. k \in 1..i
        BY <1>3, <3>3, <1>4
      <4> QED BY <2>2, <3>1, <4>1
    <3> QED BY <3>2, <3>3
  <2> QED BY <2>6, <2>7
<1>8. Rounding'
  <2>1. \A e \in Events : score[e] = Nil
    BY <1>3, <1>4 DEF Rounding
  <2> QED BY <1>3, <2>1 DEF Rounding
<1> QED BY <1>5, <1>6, <1>7, <1>8

LEMMA RoundInductive ==
    ASSUME ScoreInductive, Round
    PROVE  ScoreInductive'
<1> USE DEF ScoreInductive
<1>1. UNCHANGED <<input, i, total, sums>> /\ i > Len(FACILITY_ATTRS)
  BY DEF Round
<1>2. PICK chosen \in [Events -> UNION {Rounded(sums[e], 2 * total) : e \in Events}] :
        /\ \A e \in Events : chosen[e] \in Rounded(sums[e], 2 * total)
        /\ \A e, f \in Events : SameTerms(e, f) => chosen[e] = chosen[f]
        /\ score' = chosen
  BY DEF Round
<1>3. \A e \in Events : chosen[e] \in Int
  <2>1. \A e \in Events : sums[e] \in Nat /\ total \in Nat /\ total > 0
    <3>1. i > 0
      BY <1>1, MatchAssumption DEF LoopTypes
    <3> QED BY <3>1 DEF LoopTypes, Bounded
  <2> QED BY <1>2, <2>1 DEF Rounded
<1>4. LoopTypes'
  BY <1>1, <1>2, <1>3 DEF LoopTypes
<1>5. Bounded' /\ Ordered'
  BY <1>1 DEF Bounded, Ordered, T
<1>6. Rounding'
  <2>1. \A e, f \in Events : SameTerms(e, f)' <=> SameTerms(e, f)
    BY <1>1 DEF SameTerms
  <2>2. \A e \in Events : score'[e] # Nil
    BY <1>2, <1>3, MatchAssumption
  <2>3. ASSUME NEW e \in Events
        PROVE  i' > Len(FACILITY_ATTRS) /\ score'[e] \in Rounded(sums'[e], 2 * total')
    BY <1>1, <1>2
  <2> QED BY <1>2, <2>1, <2>2, <2>3 DEF Rounding
<1> QED BY <1>4, <1>5, <1>6

THEOREM ScoreIsInductive == Spec => []ScoreInductive
<1>1. Init => ScoreInductive
  BY InitInductive
<1>2. ScoreInductive /\ [Next]_vars => ScoreInductive'
  <2> SUFFICES ASSUME ScoreInductive, [Next]_vars PROVE ScoreInductive'
    OBVIOUS
  <2>1. ASSUME NEW a \in Attributes, Visit(a) PROVE ScoreInductive'
    BY <2>1, VisitInductive
  <2>2. CASE Round
    BY <2>2, RoundInductive
  <2>3. CASE UNCHANGED vars
    BY <2>3 DEF vars, ScoreInductive, LoopTypes, Bounded, Ordered, Rounding, T, SameTerms
  <2> QED BY <2>1, <2>2, <2>3 DEF Next
<1> QED BY <1>1, <1>2, PTL DEF Spec

-----------------------------------------------------------------------------
LEMMA FinalSum ==
    ASSUME ScoreInductive, NEW e \in Events, score[e] # Nil
    PROVE  /\ sums[e] \in Nat /\ total \in Nat /\ total > 0
           /\ 2 * total \in Nat /\ 2 * total > 0
           /\ sums[e] <= 2 * total
           /\ score[e] \in Rounded(sums[e], 2 * total)
           /\ i = Len(FACILITY_ATTRS) + 1
<1>1. Len(FACILITY_ATTRS) \in Nat
  BY MatchAssumption
<1>2. i > Len(FACILITY_ATTRS) /\ score[e] \in Rounded(sums[e], 2 * total)
  BY DEF ScoreInductive, Rounding
<1>3. i \in 0..Len(FACILITY_ATTRS) + 1 /\ sums[e] \in Nat /\ total \in Nat
  BY DEF ScoreInductive, LoopTypes
<1>4. total > 0 /\ sums[e] <= 2 * total
  BY <1>1, <1>2, <1>3 DEF ScoreInductive, Bounded
<1> QED BY <1>1, <1>2, <1>3, <1>4

\* Every score is a percentage, and the rest of the state is well typed.
THEOREM ScoresArePercentages == Spec => []TypeOK
<1>1. ScoreInductive => TypeOK
  <2> SUFFICES ASSUME ScoreInductive PROVE TypeOK
    OBVIOUS
  <2>1. ASSUME NEW e \in Events PROVE score[e] \in 0..100 \cup {Nil}
    BY FinalSum, RoundedRange
  <2>2. score \in [Events -> 0..100 \cup {Nil}]
    BY <2>1 DEF ScoreInductive, LoopTypes
  <2> QED BY <2>2 DEF TypeOK, ScoreInductive, LoopTypes
<1> QED BY <1>1, ScoreIsInductive, PTL

\* A claim that is at least as good in every attribute never scores lower.
THEOREM BetterClaimsNeverScoreLower == Spec => []ScoreIsMonotone
<1>1. ScoreInductive => ScoreIsMonotone
  <2> SUFFICES ASSUME ScoreInductive, NEW e \in Events, NEW f \in Events, Scored(e),
                      NoBetterClaim(input.claims[e], input.claims[f])
               PROVE  score[e] <= score[f]
    BY DEF ScoreIsMonotone
  <2>1. score[e] # Nil /\ score[f] # Nil
    BY DEF Scored, ScoreInductive, Rounding
  <2>2. /\ sums[e] <= sums[f]
        /\ sums[e] = sums[f] => \A k \in 1..i : T(e, Attribute(k)) = T(f, Attribute(k))
    BY DEF ScoreInductive, Ordered
  <2>3. CASE sums[e] < sums[f]
    BY <2>1, <2>3, FinalSum, RoundedMonotone
  <2>4. CASE sums[e] = sums[f]
    <3>1. ASSUME NEW a \in Attributes PROVE T(e, a) = T(f, a)
      <4>1. i = Len(FACILITY_ATTRS) + 1
        BY <2>1, FinalSum
      <4>2. Len(FACILITY_ATTRS) \in Nat /\ DOMAIN FACILITY_ATTRS = 1..Len(FACILITY_ATTRS)
        BY MatchAssumption
      <4>3. \E k \in 1..i : a = Attribute(k)
        <5>1. CASE a = Walking
          <6>1. i \in 1..i /\ i \notin DOMAIN FACILITY_ATTRS
            BY <4>1, <4>2
          <6> QED BY <5>1, <6>1 DEF Attribute
        <5>2. CASE a # Walking
          <6>1. PICK k \in DOMAIN FACILITY_ATTRS : a = FACILITY_ATTRS[k]
            BY <5>2 DEF Attributes, Facilities
          <6>2. k \in 1..i
            BY <4>1, <4>2, <6>1
          <6> QED BY <6>1, <6>2 DEF Attribute
        <5> QED BY <5>1, <5>2
      <4> QED BY <2>2, <2>4, <4>3
    <3>2. SameTerms(e, f)
      BY <3>1 DEF SameTerms, T
    <3>3. score[e] = score[f]
      BY <3>2 DEF ScoreInductive, Rounding
    <3>4. score[e] \in 0..100
      BY <2>1, FinalSum, RoundedRange
    <3> QED BY <3>3, <3>4
  <2>5. sums[e] \in Nat /\ sums[f] \in Nat
    BY <2>1, FinalSum
  <2> QED BY <2>2, <2>3, <2>4, <2>5
<1> QED BY <1>1, ScoreIsInductive, PTL

-----------------------------------------------------------------------------
(* Sums over a set.  MapThenSumSet is a recursive function on the subsets  *)
(* of a set; the induction that shows that it exists and what it computes  *)
(* takes a smallest counterexample instead of an induction principle.      *)

\* The function MapThenSumSet sums with: g[s] is the sum of w over s.
SumsOver(w, A, g) ==
    g = [s \in SUBSET A |->
            IF s = {} THEN 0
            ELSE w[CHOOSE x \in s : TRUE] + g[s \ {CHOOSE x \in s : TRUE}]]

Sum(w, A) == CHOOSE g : SumsOver(w, A, g)

LEMMA LeastNumber ==
    ASSUME NEW S \in SUBSET Nat, S # {}
    PROVE  \E n \in S : \A m \in S : n <= m
<1> DEFINE Less == {ss \in Nat \X Nat : ss[1] < ss[2]}
<1>1. IsWellFoundedOn(Less, Nat)
  BY NatLessThanWellFounded DEF OpToRel
<1>2. \E x \in S : \A y \in S : <<y, x>> \notin Less
  <2> HIDE DEF Less
  <2> QED
    BY <1>1, WFMin
<1>3. \A x, y \in S : <<y, x>> \notin Less => x <= y
  OBVIOUS
<1> QED
  BY <1>2, <1>3

\* Such a function exists: one that is right for all sets of at most k elements
\* can be continued to those of k + 1.
LEMMA SumExists ==
    ASSUME NEW A, IsFiniteSet(A), NEW w
    PROVE  SumsOver(w, A, Sum(w, A))
<1> DEFINE Sized(k) == {s \in SUBSET A : Cardinality(s) <= k}
           Pick(s) == CHOOSE x \in s : TRUE
           Right(k, g) == g = [s \in Sized(k) |->
                                IF s = {} THEN 0 ELSE w[Pick(s)] + g[s \ {Pick(s)}]]
           Bad == {k \in Nat : \A g : ~Right(k, g)}
<1>1. \A s \in SUBSET A : IsFiniteSet(s) /\ Cardinality(s) \in Nat
  BY FS_Subset, FS_CardinalityType
<1>2. \A s \in SUBSET A : s # {} => /\ Pick(s) \in s /\ s \ {Pick(s)} \in SUBSET A
                                    /\ Cardinality(s \ {Pick(s)}) = Cardinality(s) - 1
  BY <1>1, FS_RemoveElement
<1> HIDE DEF Pick
<1>3. Bad = {}
  <2> SUFFICES ASSUME Bad # {} PROVE FALSE
    OBVIOUS
  <2>1. PICK k \in Bad : \A m \in Bad : k <= m
    <3>1. Bad \in SUBSET Nat
      OBVIOUS
    <3> HIDE DEF Bad
    <3> QED
      BY <3>1, LeastNumber
  <2>2. CASE k = 0
    <3>1. \A s \in Sized(0) : s = {}
      BY <1>1, FS_EmptySet
    <3>2. Right(0, [s \in Sized(0) |-> 0])
      BY <3>1
    <3> QED
      BY <2>1, <2>2, <3>2
  <2>3. CASE k > 0
    <3>1. k - 1 \in Nat /\ k - 1 \notin Bad
      <4>1. k \in Nat
        OBVIOUS
      <4> HIDE DEF Bad
      <4> QED
        BY <2>1, <2>3, <4>1
    <3>2. PICK g : Right(k - 1, g)
      BY <3>1
    <3> DEFINE Next1(s) == IF s = {} THEN 0 ELSE w[Pick(s)] + g[s \ {Pick(s)}]
               h == [s \in Sized(k) |-> Next1(s)]
    <3>3. \A s \in Sized(k - 1) : s \in Sized(k) /\ g[s] = Next1(s) /\ h[s] = g[s]
      <4>1. \A s \in Sized(k - 1) : s \in Sized(k)
        BY <1>1, <3>1
      <4>2. \A s \in Sized(k - 1) : g[s] = Next1(s)
        BY <3>2
      <4> QED
        BY <4>1, <4>2
    <3>4. \A s \in Sized(k) : s # {} => s \ {Pick(s)} \in Sized(k - 1)
      BY <1>1, <1>2, <3>1
    <3>5. \A s \in Sized(k) : s # {} => h[s \ {Pick(s)}] = g[s \ {Pick(s)}]
      BY <3>3, <3>4
    <3>6. \A s \in Sized(k) :
            h[s] = IF s = {} THEN 0 ELSE w[Pick(s)] + h[s \ {Pick(s)}]
      BY <3>5
    <3>7. h = [s \in Sized(k) |-> h[s]]
      OBVIOUS
    <3> HIDE DEF h
    <3>8. Right(k, h)
      BY <3>6, <3>7
    <3> QED
      BY <2>1, <3>8
  <2> QED
    BY <2>1, <2>2, <2>3
<1>4. PICK g : Right(Cardinality(A), g)
  <2>1. Cardinality(A) \in Nat /\ Cardinality(A) \notin Bad
    BY <1>1, <1>3
  <2> HIDE DEF Right
  <2> QED
    BY <2>1
<1>5. Sized(Cardinality(A)) = SUBSET A
  BY FS_Subset
<1>6. SumsOver(w, A, g)
  BY <1>4, <1>5 DEF SumsOver, Pick
<1> HIDE DEF Right, Sized, Bad
<1> QED
  BY <1>6 DEF Sum

\* The sum may be taken in any order.
LEMMA SumStep ==
    ASSUME NEW A, IsFiniteSet(A), NEW w \in [A -> Nat], NEW s \in SUBSET A
    PROVE  /\ Sum(w, A)[{}] = 0
           /\ Sum(w, A)[s] \in Nat
           /\ \A x \in s : Sum(w, A)[s] = w[x] + Sum(w, A)[s \ {x}]
<1> DEFINE g == Sum(w, A)
           Pick(t) == CHOOSE x \in t : TRUE
           Right(t) == /\ g[t] \in Nat
                       /\ \A x \in t : g[t] = w[x] + g[t \ {x}]
           Bad == {t \in SUBSET A : ~Right(t)}
<1>1. g = [t \in SUBSET A |-> IF t = {} THEN 0 ELSE w[Pick(t)] + g[t \ {Pick(t)}]]
  <2>1. SumsOver(w, A, g)
    BY SumExists
  <2> HIDE DEF g
  <2> QED
    BY <2>1 DEF SumsOver
<1>2. g[{}] = 0
  BY <1>1
<1>3. \A t \in SUBSET A : t # {} =>
        /\ Pick(t) \in t /\ t \ {Pick(t)} \in SUBSET A
        /\ g[t] = w[Pick(t)] + g[t \ {Pick(t)}]
  BY <1>1
<1> HIDE DEF g, Pick
<1>4. Bad = {}
  <2> SUFFICES ASSUME Bad # {} PROVE FALSE
    OBVIOUS
  <2>1. PICK t \in Bad : \A u \in Bad : ~(u \subseteq t /\ u # t)
    <3>1. IsWellFoundedOn(StrictSubsetOrdering(A), SUBSET A)
      BY FS_StrictSubsetOrderingWellFounded, FS_FiniteSubsetsOfFinite
    <3>2. Bad \subseteq SUBSET A
      OBVIOUS
    <3> HIDE DEF Bad
    <3>3. \E t \in Bad : \A u \in Bad : <<u, t>> \notin StrictSubsetOrdering(A)
      BY <3>1, <3>2, WFMin
    <3> QED
      BY <3>2, <3>3 DEF StrictSubsetOrdering
  <2>2. t \in SUBSET A /\ ~Right(t) /\ \A u \in SUBSET t : u # t => Right(u)
    BY <2>1
  <2>3. t # {}
    <3>1. Right({})
      BY <1>2
    <3> HIDE DEF Right
    <3> QED
      BY <2>2, <3>1
  <2> DEFINE c == Pick(t)
  <2>4. c \in t /\ c \in A /\ g[t] = w[c] + g[t \ {c}] /\ w[c] \in Nat
    BY <1>3, <2>2, <2>3
  <2> HIDE DEF c
  <2>5. Right(t \ {c})
    BY <2>2, <2>4
  <2>6. g[t] \in Nat
    BY <2>4, <2>5
  <2>7. ASSUME NEW x \in t, x # c
        PROVE  g[t] = w[x] + g[t \ {x}]
    <3>1. Right(t \ {x})
      BY <2>2, <2>7
    <3>2. g[t \ {c}] = w[x] + g[(t \ {c}) \ {x}]
      BY <2>5, <2>7
    <3>3. g[t \ {x}] = w[c] + g[(t \ {x}) \ {c}]
      BY <2>4, <2>7, <3>1
    <3>4. (t \ {c}) \ {x} = (t \ {x}) \ {c}
      OBVIOUS
    <3>5. Right((t \ {c}) \ {x})
      BY <2>2, <2>4
    <3>6. g[(t \ {c}) \ {x}] \in Nat /\ w[x] \in Nat
      BY <2>2, <2>7, <3>5
    <3> QED
      BY <2>4, <3>2, <3>3, <3>4, <3>6
  <2> QED
    BY <2>2, <2>4, <2>6, <2>7
<1> QED
  BY <1>2, <1>4 DEF g

-----------------------------------------------------------------------------
(* The loop and the formula.                                               *)

Weights(p) == [a \in Attributes |-> Coeff(p, a)]
Terms(p, c) == [a \in Attributes |-> Term(p, c, a)]

Visited(n) == {Attribute(k) : k \in 1..n}

\* The running sums are those of the formula over what has been visited.
Summed ==
    /\ total = Sum(Weights(input.profile), Attributes)[Visited(i)]
    /\ \A e \in Events :
        sums[e] = Sum(Terms(input.profile, input.claims[e]), Attributes)[Visited(i)]

LEMMA AttributeOrder ==
    /\ Len(FACILITY_ATTRS) \in Nat /\ DOMAIN FACILITY_ATTRS = 1..Len(FACILITY_ATTRS)
    /\ \A k \in 1..Len(FACILITY_ATTRS) + 1 : Attribute(k) \in Attributes
    /\ \A j, k \in 1..Len(FACILITY_ATTRS) + 1 : Attribute(j) = Attribute(k) => j = k
    /\ \A a \in Attributes : \E k \in 1..Len(FACILITY_ATTRS) + 1 : a = Attribute(k)
<1>1. Len(FACILITY_ATTRS) \in Nat /\ DOMAIN FACILITY_ATTRS = 1..Len(FACILITY_ATTRS)
  BY MatchAssumption
<1>2. /\ \A k \in 1..Len(FACILITY_ATTRS) :
            Attribute(k) = FACILITY_ATTRS[k] /\ Attribute(k) \in Facilities
      /\ Attribute(Len(FACILITY_ATTRS) + 1) = Walking
  BY <1>1 DEF Attribute, Facilities
<1>3. \A k \in 1..Len(FACILITY_ATTRS) + 1 :
        k \in 1..Len(FACILITY_ATTRS) \/ k = Len(FACILITY_ATTRS) + 1
  BY <1>1
<1>4. \A j, k \in 1..Len(FACILITY_ATTRS) + 1 : Attribute(j) = Attribute(k) => j = k
  BY <1>1, <1>2, <1>3, MatchAssumption DEF IsInjective
<1>5. \A a \in Attributes : \E k \in 1..Len(FACILITY_ATTRS) + 1 : a = Attribute(k)
  <2>1. Len(FACILITY_ATTRS) + 1 \in 1..Len(FACILITY_ATTRS) + 1
    BY <1>1
  <2>2. ASSUME NEW a \in Facilities
        PROVE  \E k \in 1..Len(FACILITY_ATTRS) + 1 : a = Attribute(k)
    <3>1. PICK k \in 1..Len(FACILITY_ATTRS) : a = FACILITY_ATTRS[k]
      BY <1>1 DEF Facilities
    <3>2. k \in 1..Len(FACILITY_ATTRS) + 1
      BY <1>1
    <3> QED
      BY <1>2, <3>1, <3>2
  <2> QED
    BY <1>2, <2>1, <2>2 DEF Attributes
<1> QED
  BY <1>1, <1>2, <1>3, <1>4, <1>5 DEF Attributes

LEMMA AttributesFinite == IsFiniteSet(Attributes)
<1> DEFINE n == Len(FACILITY_ATTRS) + 1
           f == [k \in 1..n |-> Attribute(k)]
<1>1. n \in Nat /\ f \in Surjection(1..n, Attributes)
  BY AttributeOrder DEF Surjection
<1>2. IsFiniteSet(1..n)
  BY <1>1, FS_Interval
<1> HIDE DEF n, f
<1> QED
  BY <1>1, <1>2, FS_Surjection

\* Every visit is the first of its attribute, and in the end none is left out.
LEMMA VisitedGrows ==
    /\ Visited(0) = {}
    /\ \A n \in 0..Len(FACILITY_ATTRS) :
            /\ Visited(n + 1) \in SUBSET Attributes
            /\ Attribute(n + 1) \in Visited(n + 1)
            /\ Visited(n + 1) \ {Attribute(n + 1)} = Visited(n)
    /\ Visited(Len(FACILITY_ATTRS) + 1) = Attributes
<1>1. Visited(0) = {}
  BY DEF Visited
<1>2. ASSUME NEW n \in 0..Len(FACILITY_ATTRS)
      PROVE  /\ Visited(n + 1) \in SUBSET Attributes
             /\ Attribute(n + 1) \in Visited(n + 1)
             /\ Visited(n + 1) \ {Attribute(n + 1)} = Visited(n)
  <2>1. /\ n + 1 \in 1..n + 1 /\ n + 1 \in 1..Len(FACILITY_ATTRS) + 1
        /\ \A k \in 1..n + 1 : k \in 1..Len(FACILITY_ATTRS) + 1 /\ (k # n + 1 <=> k \in 1..n)
        /\ \A k \in 1..n : k \in 1..n + 1
    BY AttributeOrder
  <2> QED
    BY <2>1, AttributeOrder DEF Visited
<1>3. Visited(Len(FACILITY_ATTRS) + 1) = Attributes
  BY AttributeOrder DEF Visited
<1> QED
  BY <1>1, <1>2, <1>3

LEMMA TermFunctions ==
    ASSUME NEW p \in Profiles, NEW c \in Claims
    PROVE  Weights(p) \in [Attributes -> Nat] /\ Terms(p, c) \in [Attributes -> Nat]
BY CoeffBounds, TermBounds DEF Weights, Terms

LEMMA SummedInit == ScoreInductive /\ Init => Summed
<1> SUFFICES ASSUME ScoreInductive, Init PROVE Summed
  OBVIOUS
<1>1. input.profile \in Profiles /\ \A e \in Events : input.claims[e] \in Claims
  BY InputParts DEF ScoreInductive, LoopTypes
<1>2. ASSUME NEW w \in [Attributes -> Nat]
      PROVE  Sum(w, Attributes)[Visited(i)] = 0
  <2>1. Visited(i) = {} /\ {} \in SUBSET Attributes
    BY VisitedGrows DEF Init
  <2>2. Sum(w, Attributes)[{}] = 0
    BY <2>1, AttributesFinite, SumStep
  <2> QED
    BY <2>1, <2>2
<1>3. total = Sum(Weights(input.profile), Attributes)[Visited(i)]
  <2>1. Weights(input.profile) \in [Attributes -> Nat]
    BY <1>1, CoeffBounds DEF Weights
  <2> QED
    BY <1>2, <2>1 DEF Init
<1>4. ASSUME NEW e \in Events
      PROVE  sums[e] = Sum(Terms(input.profile, input.claims[e]), Attributes)[Visited(i)]
  <2>1. Terms(input.profile, input.claims[e]) \in [Attributes -> Nat]
    BY <1>1, TermFunctions
  <2> QED
    BY <1>2, <2>1 DEF Init
<1> QED
  BY <1>3, <1>4 DEF Summed

LEMMA SummedVisit ==
    ASSUME ScoreInductive, Summed, NEW a \in Attributes, Visit(a)
    PROVE  Summed'
<1>1. input.profile \in Profiles /\ \A e \in Events : input.claims[e] \in Claims
  BY InputParts DEF ScoreInductive, LoopTypes
<1>2. /\ i \in 0..Len(FACILITY_ATTRS) /\ i' = i + 1 /\ a = Attribute(i + 1)
      /\ total' = total + Coeff(input.profile, a)
      /\ sums' = [e \in Events |-> sums[e] + Term(input.profile, input.claims[e], a)]
      /\ input' = input
  BY AttributeOrder DEF Visit, ScoreInductive, LoopTypes
<1>3. ASSUME NEW w \in [Attributes -> Nat]
      PROVE  /\ Sum(w, Attributes)[Visited(i + 1)] = w[a] + Sum(w, Attributes)[Visited(i)]
             /\ w[a] \in Nat /\ Sum(w, Attributes)[Visited(i)] \in Nat
  <2>1. /\ Visited(i + 1) \in SUBSET Attributes /\ a \in Visited(i + 1)
        /\ Visited(i + 1) \ {a} = Visited(i) /\ Visited(i) \in SUBSET Attributes
    BY <1>2, VisitedGrows
  <2>2. /\ Sum(w, Attributes)[Visited(i)] \in Nat
        /\ \A x \in Visited(i + 1) :
              Sum(w, Attributes)[Visited(i + 1)]
                = w[x] + Sum(w, Attributes)[Visited(i + 1) \ {x}]
    BY <2>1, AttributesFinite, SumStep
  <2> QED
    BY <2>1, <2>2
<1>4. total' = Sum(Weights(input.profile), Attributes)[Visited(i + 1)]
  <2>1. Weights(input.profile)[a] = Coeff(input.profile, a)
    BY DEF Weights
  <2>2. Weights(input.profile) \in [Attributes -> Nat]
    BY <1>1, CoeffBounds DEF Weights
  <2> QED
    BY <1>2, <1>3, <2>1, <2>2 DEF Summed
<1>5. ASSUME NEW e \in Events
      PROVE  sums'[e] = Sum(Terms(input.profile, input.claims[e]), Attributes)[Visited(i + 1)]
  <2>1. Terms(input.profile, input.claims[e])[a] = Term(input.profile, input.claims[e], a)
    BY DEF Terms
  <2>2. Terms(input.profile, input.claims[e]) \in [Attributes -> Nat]
    BY <1>1, TermFunctions
  <2> QED
    BY <1>2, <1>3, <2>1, <2>2 DEF Summed
<1> QED
  BY <1>2, <1>4, <1>5 DEF Summed

\* The documented formula, as the sums of the two functions.
LEMMA FormulaIsSum ==
    ASSUME NEW p, NEW c
    PROVE  /\ TotalWeight(p) = Sum(Weights(p), Attributes)[Attributes]
           /\ WeightedSum(p, c) = Sum(Terms(p, c), Attributes)[Attributes]
<1>1. TotalWeight(p) = Sum(Weights(p), Attributes)[Attributes]
  BY DEF TotalWeight, MapThenSumSet, MapThenFoldSet, Sum, SumsOver, Weights
<1>2. WeightedSum(p, c) = Sum(Terms(p, c), Attributes)[Attributes]
  <2>1. Terms(p, c) = [a \in Attributes |->
                        IF Fulfillment(p, c, a) = Nil THEN 0 ELSE Coeff(p, a) * Fulfillment(p, c, a)]
    BY DEF Terms, Term
  <2> DEFINE w == Terms(p, c)
             Part(a) == IF Fulfillment(p, c, a) = Nil THEN 0
                        ELSE Coeff(p, a) * Fulfillment(p, c, a)
  <2>2. \A a \in Attributes : Part(a) = w[a]
    BY <2>1
  <2>3. WeightedSum(p, c) = MapThenSumSet(Part, Attributes)
    BY DEF WeightedSum
  <2> HIDE DEF w, Part
  <2>4. WeightedSum(p, c)
          = (CHOOSE g : g = [s \in SUBSET Attributes |->
                IF s = {} THEN 0
                ELSE Part(CHOOSE x \in s : TRUE)
                        + g[s \ {CHOOSE x \in s : TRUE}]])[Attributes]
    BY <2>3 DEF MapThenSumSet, MapThenFoldSet
  <2>5. \A s \in SUBSET Attributes : s # {} =>
            Part(CHOOSE x \in s : TRUE) = w[CHOOSE x \in s : TRUE]
    BY <2>2
  <2>6. \A g : [s \in SUBSET Attributes |->
                IF s = {} THEN 0
                ELSE Part(CHOOSE x \in s : TRUE)
                        + g[s \ {CHOOSE x \in s : TRUE}]]
             = [s \in SUBSET Attributes |->
                IF s = {} THEN 0
                ELSE w[CHOOSE x \in s : TRUE]
                        + g[s \ {CHOOSE x \in s : TRUE}]]
    BY <2>5
  <2>7. \A g : SumsOver(w, Attributes, g)
            <=> g = [s \in SUBSET Attributes |->
                IF s = {} THEN 0
                ELSE Part(CHOOSE x \in s : TRUE)
                        + g[s \ {CHOOSE x \in s : TRUE}]]
    BY <2>6 DEF SumsOver
  <2> QED
    BY <2>4, <2>7 DEF Sum, w
<1> QED
  BY <1>1, <1>2

\* The loop computes the weighted sum of ADR-0003 to the nearest integer, for
\* any facilities in any order, any profile and any claim (_compute_match).
THEOREM LoopIsFormula == Spec => []ImplementsFormula
<1>1. ScoreInductive /\ Summed /\ ScoreInductive' /\ [Next]_vars => Summed'
  <2>1. ASSUME Summed, Round \/ UNCHANGED vars PROVE Summed'
    <3>1. UNCHANGED <<input, i, total, sums>>
      BY <2>1 DEF Round, vars
    <3> QED
      BY <2>1, <3>1 DEF Summed, Visited
  <2> QED
    BY <2>1, SummedVisit DEF Next
<1>2. ScoreInductive /\ Summed => ImplementsFormula
  <2> SUFFICES ASSUME ScoreInductive, Summed, NEW e \in Events, score[e] # Nil
               PROVE  LET n == WeightedSum(input.profile, input.claims[e])
                          d == 2 * TotalWeight(input.profile)
                      IN  2 * (100 * n - score[e] * d) \in -d..d
    BY DEF ImplementsFormula, Scored
  <2>1. i = Len(FACILITY_ATTRS) + 1 /\ score[e] \in Rounded(sums[e], 2 * total)
    BY FinalSum
  <2>2. Visited(i) = Attributes
    BY <2>1, VisitedGrows
  <2>3. /\ total = TotalWeight(input.profile)
        /\ sums[e] = WeightedSum(input.profile, input.claims[e])
    BY <2>2, FormulaIsSum DEF Summed
  <2> QED
    BY <2>1, <2>3 DEF Rounded
<1> QED
  BY <1>1, <1>2, SummedInit, ScoreIsInductive, PTL DEF Spec

-----------------------------------------------------------------------------
(* The two ends of the scale.                                              *)

X(e, a) == Fulfillment(input.profile, input.claims[e], a)

\* A sum is full, or empty, only if every attribute visited so far is; and no
\* attribute weighs more than 8 quarters.
Extremes ==
    /\ total <= 8 * i
    /\ \A e \in Events :
        /\ sums[e] = 2 * total <=> \A k \in 1..i : X(e, Attribute(k)) = 2
        /\ sums[e] = 0 <=> \A k \in 1..i : X(e, Attribute(k)) \in {0, Nil}

LEMMA TermExtremes ==
    ASSUME NEW p \in Profiles, NEW c \in Claims, NEW a \in Attributes
    PROVE  /\ Term(p, c, a) = 2 * Coeff(p, a) <=> Fulfillment(p, c, a) = 2
           /\ Term(p, c, a) = 0 <=> Fulfillment(p, c, a) \in {0, Nil}
<1>1. Coeff(p, a) \in 1..8
  BY CoeffBounds
<1>2. Fulfillment(p, c, a) \in 0..2 \cup {Nil}
  BY FulfillmentBounds
<1>3. CASE Fulfillment(p, c, a) = Nil
  <2>1. Term(p, c, a) = 0 /\ Nil # 2
    BY <1>3, MatchAssumption DEF Term
  <2> QED
    BY <1>1, <1>3, <2>1
<1>4. CASE Fulfillment(p, c, a) # Nil
  <2>1. Fulfillment(p, c, a) \in {0, 1, 2}
    BY <1>2, <1>4
  <2>2. Term(p, c, a) = Coeff(p, a) * Fulfillment(p, c, a)
    BY <1>4 DEF Term
  <2> QED
    BY <1>1, <1>4, <2>1, <2>2
<1> QED
  BY <1>3, <1>4

\* Fewer than 100 units of weight: what is one eighth short of full rounds to
\* 99 at most, and one eighth to 1 at least.
LEMMA RoundedExtremes ==
    ASSUME NEW n \in Nat, NEW d \in Nat, d > 0, d < 200, n <= d, NEW s \in Rounded(n, d)
    PROVE  (s = 100 <=> n = d) /\ (s = 0 <=> n = 0)
<1>1. s \in Int /\ 2 * (100 * n - s * d) >= -d /\ 2 * (100 * n - s * d) <= d
  BY DEF Rounded
<1>2. s = 100 => n = d
  BY <1>1
<1>3. s = 0 => n = 0
  BY <1>1
<1>4. n = d => s = 100
  <2> SUFFICES ASSUME n = d PROVE s = 100
    OBVIOUS
  <2>1. 2 * ((100 - s) * d) >= -d /\ 2 * ((100 - s) * d) <= d
    BY <1>1
  <2>2. ASSUME s <= 99 PROVE FALSE
    <3>1. (100 - s) * d >= 1 * d
      BY <1>1, <2>2
    <3> QED
      BY <1>1, <2>1, <3>1
  <2>3. ASSUME s >= 101 PROVE FALSE
    <3>1. (s - 100) * d >= 1 * d
      BY <1>1, <2>3
    <3>2. (100 - s) * d = -((s - 100) * d)
      BY <1>1
    <3> QED
      BY <1>1, <2>1, <3>1, <3>2
  <2> QED
    BY <1>1, <2>2, <2>3
<1>5. n = 0 => s = 0
  <2> SUFFICES ASSUME n = 0 PROVE s = 0
    OBVIOUS
  <2>1. 2 * (s * d) <= d /\ 2 * (s * d) >= -d
    BY <1>1
  <2>2. ASSUME s >= 1 PROVE FALSE
    <3>1. s * d >= 1 * d
      BY <1>1, <2>2
    <3> QED
      BY <1>1, <2>1, <3>1
  <2>3. ASSUME s <= -1 PROVE FALSE
    <3>1. s * d <= (-1) * d
      BY <1>1, <2>3
    <3> QED
      BY <1>1, <2>1, <3>1
  <2> QED
    BY <1>1, <2>2, <2>3
<1> QED
  BY <1>2, <1>3, <1>4, <1>5

LEMMA ExtremesVisit ==
    ASSUME ScoreInductive, Extremes, NEW a \in Attributes, Visit(a)
    PROVE  Extremes'
<1>1. input.profile \in Profiles /\ \A e \in Events : input.claims[e] \in Claims
  BY InputParts DEF ScoreInductive, LoopTypes
<1>2. /\ i \in Nat /\ i' = i + 1 /\ a = Attribute(i + 1)
      /\ total' = total + Coeff(input.profile, a)
      /\ sums' = [e \in Events |-> sums[e] + Term(input.profile, input.claims[e], a)]
      /\ input' = input
  BY AttributeOrder DEF Visit, ScoreInductive, LoopTypes
<1>3. Coeff(input.profile, a) \in 1..8 /\ total \in Nat /\ total <= 8 * i
  BY <1>1, CoeffBounds DEF ScoreInductive, LoopTypes, Extremes
<1>4. total' <= 8 * i'
  BY <1>2, <1>3
<1>5. ASSUME NEW e \in Events
      PROVE  /\ sums'[e] = 2 * total' <=> \A k \in 1..i + 1 : X(e, Attribute(k)) = 2
             /\ sums'[e] = 0 <=> \A k \in 1..i + 1 : X(e, Attribute(k)) \in {0, Nil}
  <2> DEFINE t == Term(input.profile, input.claims[e], a)
             c == Coeff(input.profile, a)
  <2>1. /\ t \in Nat /\ t <= 2 * c
        /\ t = 2 * c <=> X(e, a) = 2
        /\ t = 0 <=> X(e, a) \in {0, Nil}
    BY <1>1, TermBounds, TermExtremes DEF X
  <2>2. sums'[e] = sums[e] + t /\ total' = total + c /\ c \in Nat
    BY <1>2, <1>3
  <2>3. /\ sums[e] \in Nat /\ sums[e] <= 2 * total
        /\ sums[e] = 2 * total <=> \A k \in 1..i : X(e, Attribute(k)) = 2
        /\ sums[e] = 0 <=> \A k \in 1..i : X(e, Attribute(k)) \in {0, Nil}
    BY DEF ScoreInductive, LoopTypes, Bounded, Extremes
  <2> HIDE DEF t, c
  <2>4. /\ sums'[e] = 2 * total' <=> sums[e] = 2 * total /\ t = 2 * c
        /\ sums'[e] = 0 <=> sums[e] = 0 /\ t = 0
    BY <1>3, <2>1, <2>2, <2>3
  <2>5. /\ \A k \in 1..i + 1 : k \in 1..i \/ k = i + 1
        /\ i + 1 \in 1..i + 1 /\ \A k \in 1..i : k \in 1..i + 1
    BY <1>2
  <2>6. /\ (\A k \in 1..i + 1 : X(e, Attribute(k)) = 2)
              <=> (\A k \in 1..i : X(e, Attribute(k)) = 2) /\ X(e, a) = 2
        /\ (\A k \in 1..i + 1 : X(e, Attribute(k)) \in {0, Nil})
              <=> (\A k \in 1..i : X(e, Attribute(k)) \in {0, Nil}) /\ X(e, a) \in {0, Nil}
    BY <1>2, <2>5
  <2> QED
    BY <2>1, <2>3, <2>4, <2>6
<1> QED
  BY <1>2, <1>4, <1>5 DEF Extremes, X

\* With up to eleven facilities (the code has six), a score of 100 means that
\* every attribute is claimed in full and 0 that none is (_compute_match).
THEOREM RoundingIsHonest ==
    ASSUME Len(FACILITY_ATTRS) <= 11
    PROVE  Spec => []ExtremesAreHonest
<1>1. Init => Extremes
  BY DEF Init, Extremes
<1>2. ScoreInductive /\ Extremes /\ [Next]_vars => Extremes'
  <2>1. ASSUME Extremes, Round \/ UNCHANGED vars PROVE Extremes'
    <3>1. UNCHANGED <<input, i, total, sums>>
      BY <2>1 DEF Round, vars
    <3> QED
      BY <2>1, <3>1 DEF Extremes, X
  <2> QED
    BY <2>1, ExtremesVisit DEF Next
<1>3. ScoreInductive /\ Extremes => ExtremesAreHonest
  <2> SUFFICES ASSUME ScoreInductive, Extremes, NEW e \in Events, score[e] # Nil
               PROVE  /\ score[e] = 100 <=> \A a \in Attributes : X(e, a) = 2
                      /\ score[e] = 0 <=> \A a \in Attributes : X(e, a) \in {0, Nil}
    BY DEF ExtremesAreHonest, Scored, X
  <2>1. i = Len(FACILITY_ATTRS) + 1
    BY FinalSum
  <2>2. 2 * total < 200
    BY <2>1, AttributeOrder, FinalSum DEF Extremes
  <2>3. /\ score[e] = 100 <=> sums[e] = 2 * total
        /\ score[e] = 0 <=> sums[e] = 0
    BY <2>2, FinalSum, RoundedExtremes
  <2>4. /\ sums[e] = 2 * total <=> \A k \in 1..i : X(e, Attribute(k)) = 2
        /\ sums[e] = 0 <=> \A k \in 1..i : X(e, Attribute(k)) \in {0, Nil}
    BY DEF Extremes
  <2>5. /\ \A k \in 1..i : Attribute(k) \in Attributes
        /\ \A a \in Attributes : \E k \in 1..i : a = Attribute(k)
    BY <2>1, AttributeOrder
  <2> QED
    BY <2>3, <2>4, <2>5
<1> QED
  BY <1>1, <1>2, <1>3, ScoreIsInductive, PTL DEF Spec
=============================================================================
