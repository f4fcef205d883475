-------------------------- MODULE EventCatalogProofs --------------------------
(***************************************************************************)
(* Proofs about publishing and paging events, for any events, claims,      *)
(* profiles and lists: what is published is whole, and a client misses an  *)
(* event only for the two reasons MissesExplained names.                   *)
(*                                                                         *)
(* The argument about the pages is one about ranks.  Publishing only adds  *)
(* rows, so the rank of a row only grows, and what has not been shown yet  *)
(* never slips in front of the offset (NotSkipped).  A page that is not    *)
(* full leaves no row behind it (ShortPageIsLast).                         *)
(***************************************************************************)
EXTENDS EventCatalog, FiniteSetTheorems, TLAPS

\* Rank under a given order; Rank(rows, e) is RankIn(Order, rows, e).
Before(R, rows, e) == {f \in rows : <<f, e>> \in R}
RankIn(R, rows, e) == Cardinality(Before(R, rows, e))

StrictTotal(R) ==
    /\ \A e \in Events : <<e, e>> \notin R
    /\ \A e, f, g \in Events : <<e, f>> \in R /\ <<f, g>> \in R => <<e, g>> \in R
    /\ \A e, f \in Events : e # f => <<e, f>> \in R \/ <<f, e>> \in R

-----------------------------------------------------------------------------
LEMMA FiniteRows ==
    ASSUME NEW rows \in SUBSET Events
    PROVE  /\ IsFiniteSet(rows)
           /\ Cardinality(rows) \in 0..Cardinality(Events)
<1>1. IsFiniteSet(rows) /\ Cardinality(rows) <= Cardinality(Events)
  BY FS_Subset, CatalogAssumption
<1>2. Cardinality(rows) \in Nat /\ Cardinality(Events) \in Nat
  BY <1>1, FS_CardinalityType, CatalogAssumption
<1> QED BY <1>1, <1>2

LEMMA EventsCounted == 0 \in 0..Cardinality(Events)
<1>1. Cardinality(Events) \in Nat
  BY FS_CardinalityType, CatalogAssumption
<1> QED BY <1>1

LEMMA RankType ==
    ASSUME NEW R, NEW rows \in SUBSET Events, NEW e
    PROVE  RankIn(R, rows, e) \in Nat
<1>1. Before(R, rows, e) \in SUBSET Events
  BY DEF Before
<1> QED BY <1>1, FiniteRows, FS_CardinalityType DEF RankIn

\* More rows, higher ranks.
LEMMA RankGrows ==
    ASSUME NEW R, NEW rows \in SUBSET Events, NEW more \in SUBSET Events,
           rows \subseteq more, NEW e
    PROVE  RankIn(R, rows, e) <= RankIn(R, more, e)
<1>1. Before(R, more, e) \in SUBSET Events /\ Before(R, rows, e) \in SUBSET Before(R, more, e)
  BY DEF Before
<1>2. IsFiniteSet(Before(R, more, e))
  BY <1>1, FiniteRows
<1> QED BY <1>1, <1>2, FS_Subset DEF RankIn

\* Of two rows the earlier one has the lower rank.
LEMMA RankOrdered ==
    ASSUME NEW R, StrictTotal(R), NEW rows \in SUBSET Events,
           NEW e \in rows, NEW f \in rows, <<e, f>> \in R
    PROVE  /\ Before(R, rows, e) \subseteq Before(R, rows, f)
           /\ Before(R, rows, e) # Before(R, rows, f)
           /\ RankIn(R, rows, e) < RankIn(R, rows, f)
<1>1. Before(R, rows, e) \subseteq Before(R, rows, f)
  BY DEF Before, StrictTotal
<1>2. e \in Before(R, rows, f) /\ e \notin Before(R, rows, e)
  BY DEF Before, StrictTotal
<1>3. Before(R, rows, f) \in SUBSET Events
  BY DEF Before
<1>4. IsFiniteSet(Before(R, rows, f)) /\ Before(R, rows, e) \in SUBSET Before(R, rows, f)
  BY <1>1, <1>3, FiniteRows
<1>5. /\ Cardinality(Before(R, rows, e)) <= Cardinality(Before(R, rows, f))
      /\ Cardinality(Before(R, rows, e)) # Cardinality(Before(R, rows, f))
  BY <1>2, <1>4, FS_Subset
<1> QED BY <1>1, <1>2, <1>5, RankType DEF RankIn

\* A row's rank is less than the number of rows.
LEMMA RankBelowCount ==
    ASSUME NEW R, StrictTotal(R), NEW rows \in SUBSET Events, NEW e \in rows
    PROVE  RankIn(R, rows, e) < Cardinality(rows)
<1>1. Before(R, rows, e) \in SUBSET rows /\ e \notin Before(R, rows, e)
  BY DEF Before, StrictTotal
<1>2. /\ Cardinality(Before(R, rows, e)) <= Cardinality(rows)
      /\ Cardinality(Before(R, rows, e)) # Cardinality(rows)
  BY <1>1, FiniteRows, FS_Subset
<1>3. Cardinality(rows) \in Nat /\ RankIn(R, rows, e) \in Nat
  BY FiniteRows, FS_CardinalityType, RankType
<1> QED BY <1>2, <1>3 DEF RankIn

\* No more than k rows have a rank below k.
LEMMA FewLowRanks ==
    ASSUME NEW R, StrictTotal(R), NEW rows \in SUBSET Events, NEW k \in Nat
    PROVE  Cardinality({e \in rows : RankIn(R, rows, e) < k}) <= k
<1> DEFINE Low == {e \in rows : RankIn(R, rows, e) < k}
           rank == [e \in Low |-> RankIn(R, rows, e)]
<1>1. \A e \in rows : RankIn(R, rows, e) \in Nat
  BY RankType
<1>2. rank \in [Low -> 0..(k - 1)]
  BY <1>1
<1>3. ASSUME NEW e \in Low, NEW f \in Low, rank[e] = rank[f] PROVE e = f
  <2> SUFFICES ASSUME e # f PROVE FALSE
    OBVIOUS
  <2>1. CASE <<e, f>> \in R
    <3>1. RankIn(R, rows, e) < RankIn(R, rows, f)
      BY <2>1, RankOrdered
    <3> QED BY <3>1, <1>1, <1>3
  <2>2. CASE <<f, e>> \in R
    <3>1. RankIn(R, rows, f) < RankIn(R, rows, e)
      BY <2>2, RankOrdered
    <3> QED BY <3>1, <1>1, <1>3
  <2> QED BY <2>1, <2>2 DEF StrictTotal
<1>4. rank \in Injection(Low, 0..(k - 1))
  <2> HIDE DEF rank, Low
  <2> QED BY <1>2, <1>3 DEF Injection, IsInjective
<1>5. IsFiniteSet(0..(k - 1)) /\ Cardinality(0..(k - 1)) = k
  <2>1. /\ IsFiniteSet(0..(k - 1))
        /\ Cardinality(0..(k - 1)) = IF 0 > k - 1 THEN 0 ELSE (k - 1) - 0 + 1
    BY FS_Interval
  <2> QED BY <2>1
<1>6. Cardinality(Low) <= Cardinality(0..(k - 1))
  <2> HIDE DEF rank, Low
  <2> QED BY <1>4, <1>5, FS_Injection
<1> QED BY <1>5, <1>6

\* A page that is not full is the last: no row has a rank beyond it.
LEMMA ShortPageIsLast ==
    ASSUME NEW R, StrictTotal(R), NEW rows \in SUBSET Events,
           NEW from \in Nat, NEW size \in Nat,
           Cardinality({e \in rows : from <= RankIn(R, rows, e)
                                     /\ RankIn(R, rows, e) < from + size}) < size
    PROVE  \A e \in rows : RankIn(R, rows, e) < from + size
<1> DEFINE page == {e \in rows : from <= RankIn(R, rows, e) /\ RankIn(R, rows, e) < from + size}
           low == {e \in rows : RankIn(R, rows, e) < from}
           high == {e \in rows : RankIn(R, rows, e) >= from + size}
           sets == {Before(R, rows, e) : e \in high}
<1>1. \A e \in rows : RankIn(R, rows, e) \in Nat
  BY RankType
<1>2. Cardinality(low \cup page) < from + size
  <2>1. low \in SUBSET Events /\ page \in SUBSET Events /\ low \cap page \in SUBSET Events
    OBVIOUS
  <2>2. Cardinality(low) <= from
    BY FewLowRanks
  <2>3. /\ IsFiniteSet(low) /\ IsFiniteSet(page)
        /\ Cardinality(low) \in Nat /\ Cardinality(page) \in Nat
        /\ Cardinality(low \cap page) \in Nat
    BY <2>1, FiniteRows, FS_CardinalityType
  <2>4. Cardinality(low \cup page) = Cardinality(low) + Cardinality(page) - Cardinality(low \cap page)
    BY <2>3, FS_Union
  <2>5. Cardinality(page) < size
    OBVIOUS
  <2> HIDE DEF low, page
  <2> QED BY <2>2, <2>3, <2>4, <2>5
<1>3. ASSUME NEW e \in high PROVE \E f \in high : <<f, e>> \in R
  <2> SUFFICES ASSUME \A f \in high : <<f, e>> \notin R PROVE FALSE
    OBVIOUS
  <2>1. Before(R, rows, e) \in SUBSET (low \cup page)
    BY <1>1 DEF Before
  <2>2. (low \cup page) \in SUBSET Events
    OBVIOUS
  <2>3. RankIn(R, rows, e) <= Cardinality(low \cup page)
    BY <2>1, <2>2, FiniteRows, FS_Subset DEF RankIn
  <2>4. Cardinality(low \cup page) \in Nat
    BY <2>2, FiniteRows, FS_CardinalityType
  <2>5. RankIn(R, rows, e) \in Nat /\ RankIn(R, rows, e) >= from + size
    BY <1>1
  <2> QED BY <1>2, <2>3, <2>4, <2>5
<1>4. ASSUME high # {} PROVE FALSE
  <2>1. IsWellFoundedOn(StrictSubsetOrdering(Events), FiniteSubsetsOf(Events))
    BY FS_StrictSubsetOrderingWellFounded
  <2>2. sets \subseteq FiniteSubsetsOf(Events) /\ sets # {}
    BY <1>4, FiniteRows DEF FiniteSubsetsOf, Before
  <2>3. PICK x \in sets : \A y \in sets : <<y, x>> \notin StrictSubsetOrdering(Events)
    <3> HIDE DEF sets
    <3> QED BY <2>1, <2>2, WFMin
  <2>4. PICK e \in high : x = Before(R, rows, e)
    OBVIOUS
  <2>5. PICK f \in high : <<f, e>> \in R
    BY <1>3
  <2>6. /\ Before(R, rows, f) \subseteq Before(R, rows, e)
        /\ Before(R, rows, f) # Before(R, rows, e)
    BY <2>5, RankOrdered
  <2>7. Before(R, rows, f) \in SUBSET Events /\ Before(R, rows, e) \in SUBSET Events
    BY DEF Before
  <2> QED BY <2>3, <2>4, <2>6, <2>7 DEF StrictSubsetOrdering
<1> QED BY <1>1, <1>4

-----------------------------------------------------------------------------
(* The invariant.                                                          *)

\* A ranked page is being cut by a profile, any other by its starts_at.
Sorted ==
    /\ pc = "loaded" => query.sort = "match_score"
    /\ pc = "counted" => query.sort = "starts_at"
    /\ mixed => query.sort = "match_score"

\* What has not been shown is not in front of the page to come.
NotSkipped ==
    /\ first \subseteq Matching
    /\ pc \in {"ready", "loaded", "counted"} /\ ~mixed =>
            \A e \in first \ shown : Rank(Matching, e) >= offset

\* While the list stays as it was, what has been shown is its beginning.
ShownSoFar ==
    Matching = first =>
        /\ pc \in {"ready", "loaded", "counted"} /\ ~mixed =>
                shown = {e \in Matching : Rank(Matching, e) < offset} /\ ~repeated
        /\ pc = "counted" => total = Cardinality(Matching)

\* Before the first page nothing has been shown.
AtStart == offset = 0 /\ pc \in {"ready", "loaded", "counted"} => shown = {} /\ ~repeated

\* The inductive invariant: the four properties and what carries them.
CatalogInductive ==
    /\ TypeOK /\ EventsAreWhole /\ Sorted /\ AtStart
    /\ NotSkipped /\ MissesExplained
    /\ ShownSoFar /\ QuietPagesAreTheList

Reading == pc \in {"loaded", "counted"}

-----------------------------------------------------------------------------
LEMMA MatchingRows ==
    ASSUME TypeOK
    PROVE  Matching \in SUBSET Events /\ Matching \subseteq published
BY DEF TypeOK, Matching

LEMMA QueryType ==
    ASSUME TypeOK
    PROVE  /\ query.limit \in Nat /\ query.limit > 0
           /\ query.sort \in {"starts_at", "match_score"}
           /\ query.stop \in {"short_page", "total"}
BY CatalogAssumption DEF TypeOK, Lists, MaxLimit

LEMMA RankIsRankIn ==
    ASSUME NEW rows, NEW e
    PROVE  Rank(rows, e) = RankIn(Order, rows, e)
BY DEF Rank, RankIn, Before

LEMMA ByTimeTotal == StrictTotal(ByTime)
<1>1. \A e \in Events : e \in Int /\ Row[e].starts_at \in Int
  BY CatalogAssumption
<1> QED BY <1>1 DEF ByTime, StrictTotal

LEMMA ByScoreTotal ==
    ASSUME NEW n \in Profiles
    PROVE  StrictTotal(ByScore(n))
<1> DEFINE s(e) == Score(n, Row[e].claim)
<1>1. \A e \in Events : s(e) \in Int
  BY CatalogAssumption DEF Claims
<1>2. \A e, f \in Events :
        <<e, f>> \in ByScore(n) <=> s(e) > s(f) \/ (s(e) = s(f) /\ <<e, f>> \in ByTime)
  BY DEF ByScore
<1> HIDE DEF s
<1> QED BY <1>1, <1>2, ByTimeTotal DEF StrictTotal

LEMMA OrderTotal ==
    ASSUME TypeOK, Sorted, Reading
    PROVE  StrictTotal(Order)
BY ByTimeTotal, ByScoreTotal DEF TypeOK, Sorted, Reading, Order

\* A client that stops has every row before the end of its page, if it is
\* the rows it has counted.
LEMMA LastIsLast ==
    ASSUME TypeOK, Sorted, Reading, NEW count,
           Last(Page(Matching), count),
           query.stop = "total" => count = Cardinality(Matching),
           NEW e \in Matching
    PROVE  Rank(Matching, e) < offset + query.limit
<1>1. StrictTotal(Order) /\ Matching \in SUBSET Events
  BY OrderTotal, MatchingRows
<1>2. offset \in Nat /\ query.limit \in Nat
  BY QueryType DEF TypeOK
<1>3. Rank(Matching, e) \in Nat
  BY <1>1, RankIsRankIn, RankType
<1>4. CASE query.stop = "total"
  <2>1. Rank(Matching, e) < Cardinality(Matching)
    BY <1>1, RankIsRankIn, RankBelowCount
  <2>2. Cardinality(Matching) \in Nat
    BY <1>1, FiniteRows
  <2> QED BY <1>2, <1>3, <1>4, <2>1, <2>2 DEF Last
<1>5. CASE query.stop # "total"
  <2>1. Cardinality(Page(Matching)) < query.limit
    BY <1>5 DEF Last
  <2>2. Page(Matching) = {f \in Matching : offset <= RankIn(Order, Matching, f)
                                /\ RankIn(Order, Matching, f) < offset + query.limit}
    BY RankIsRankIn DEF Page
  <2>3. \A f \in Matching : RankIn(Order, Matching, f) < offset + query.limit
    <3> DEFINE R == Order
               rows == Matching
    <3>1. /\ StrictTotal(R) /\ rows \in SUBSET Events
          /\ Cardinality({f \in rows : offset <= RankIn(R, rows, f)
                                /\ RankIn(R, rows, f) < offset + query.limit}) < query.limit
      BY <1>1, <2>1, <2>2
    <3> HIDE DEF R, rows
    <3>2. \A f \in rows : RankIn(R, rows, f) < offset + query.limit
      BY <1>2, <3>1, ShortPageIsLast
    <3> QED BY <3>2 DEF R, rows
  <2> QED BY <2>3, RankIsRankIn
<1> QED BY <1>4, <1>5

-----------------------------------------------------------------------------
(* Publishing and a new profile: the reader stays where it is.             *)

LEMMA MatchingGrows ==
    ASSUME TypeOK, UNCHANGED query, published \subseteq published', claims \subseteq claims'
    PROVE  Matching \subseteq Matching'
BY DEF Matching, Matches

LEMMA TablesStep ==
    ASSUME CatalogInductive, TypeOK', EventsAreWhole', UNCHANGED <<query, walk>>,
           published \subseteq published', claims \subseteq claims'
    PROVE  CatalogInductive'
<1>1. /\ UNCHANGED <<query, pc, offset, total, needs, shown, first, mixed, exact, repeated>>
      /\ Order' = Order
  BY DEF walk, Order
<1>2. Matching \subseteq Matching' /\ Matching \in SUBSET Events /\ Matching' \in SUBSET Events
  BY <1>1, MatchingGrows, MatchingRows DEF CatalogInductive, TypeOK, Matching
<1>3. ASSUME NEW e \in Matching PROVE Rank(Matching, e) <= Rank(Matching, e)'
  <2> DEFINE R == Order
             rows == Matching
             more == Matching'
  <2>1. Rank(Matching, e) = RankIn(R, rows, e) /\ Rank(Matching, e)' = RankIn(R, more, e)
    BY <1>1 DEF Rank, RankIn, Before
  <2>2. rows \in SUBSET Events /\ more \in SUBSET Events /\ rows \subseteq more
    BY <1>2
  <2> HIDE DEF R, rows, more
  <2>3. RankIn(R, rows, e) <= RankIn(R, more, e)
    BY <2>2, RankGrows
  <2> QED BY <2>1, <2>3
<1>4. \A e \in Matching : Rank(Matching, e) \in Nat /\ Rank(Matching, e)' \in Nat
  <2> DEFINE more == Matching'
  <2>1. more \in SUBSET Events
    BY <1>2
  <2>2. \A e : Rank(Matching, e)' = RankIn(Order, more, e)
    BY <1>1 DEF Rank, RankIn, Before
  <2> HIDE DEF more
  <2> QED BY <1>2, <2>1, <2>2, RankIsRankIn, RankType
<1>5. NotSkipped'
  <2>1. offset \in Nat
    BY DEF CatalogInductive, TypeOK
  <2>2. \A e \in first : e \in Matching
    BY DEF CatalogInductive, NotSkipped
  <2>3. first' \subseteq Matching'
    BY <1>1, <1>2, <2>2
  <2>4. ASSUME pc \in {"ready", "loaded", "counted"}, ~mixed, NEW e \in first \ shown
        PROVE  Rank(Matching, e)' >= offset
    <3>1. Rank(Matching, e) >= offset
      BY <2>4 DEF CatalogInductive, NotSkipped
    <3> QED BY <1>3, <1>4, <2>1, <2>2, <3>1
  <2> QED BY <1>1, <2>3, <2>4 DEF NotSkipped
<1>6. (Matching = first)' => Matching' = Matching /\ Matching = first
  BY <1>1, <1>2 DEF CatalogInductive, NotSkipped
<1>7. Matching' = Matching => \A e : Rank(Matching, e)' = Rank(Matching, e)
  BY <1>1 DEF Rank
<1>8. ShownSoFar'
  BY <1>1, <1>6, <1>7 DEF CatalogInductive, ShownSoFar
<1>9. AtStart' /\ MissesExplained' /\ QuietPagesAreTheList' /\ Sorted'
  BY <1>1, <1>6 DEF CatalogInductive, AtStart, MissesExplained, QuietPagesAreTheList, Sorted
<1> QED BY <1>5, <1>8, <1>9 DEF CatalogInductive

-----------------------------------------------------------------------------
(* The reader: the tables stay as they are.                                *)

LEMMA SameTables ==
    ASSUME UNCHANGED <<tables, query>>
    PROVE  Matching' = Matching
BY DEF tables, Matching, Matches

LEMMA AskStep ==
    ASSUME CatalogInductive, Ask
    PROVE  CatalogInductive'
<1>1. /\ pc = "ready" /\ ~Refused
      /\ first' = IF offset = 0 THEN Matching ELSE first
      /\ UNCHANGED <<tables, profile, query, offset, shown, exact, repeated>>
  BY DEF Ask
<1>2. Matching' = Matching /\ Matching \in SUBSET Events /\ Matching \subseteq published
  BY <1>1, SameTables, MatchingRows DEF CatalogInductive
<1>3. CASE query.sort = "match_score"
  <2>1. /\ pc' = "loaded" /\ needs' = profile /\ UNCHANGED total
        /\ mixed' = (mixed \/ (offset > 0 /\ profile # needs))
    BY <1>3 DEF Ask
  <2>2. profile # Nil
    BY <1>1, <1>3 DEF Refused
  <2>3. TypeOK'
    BY <1>1, <1>2, <2>1, <2>2 DEF CatalogInductive, TypeOK, tables
  <2>4. offset \in Nat
    BY DEF CatalogInductive, TypeOK
  <2>5. \A e \in Matching : Rank(Matching, e)' \in Nat
    <3> DEFINE R == Order'
    <3>1. \A e : Rank(Matching, e)' = RankIn(R, Matching, e)
      BY <1>2 DEF Rank, RankIn, Before
    <3> HIDE DEF R
    <3> QED BY <1>2, <3>1, RankType
  <2>6. ~mixed' /\ offset # 0 => ~mixed /\ \A e : Rank(Matching, e)' = Rank(Matching, e)
    <3> SUFFICES ASSUME ~mixed', offset # 0
                 PROVE  ~mixed /\ \A e : Rank(Matching, e)' = Rank(Matching, e)
      OBVIOUS
    <3>1. ~mixed /\ ~(offset > 0 /\ profile # needs)
      BY <2>1
    <3>2. needs' = needs
      BY <2>1, <2>4, <3>1
    <3>3. Order' = Order
      BY <1>1, <3>2 DEF Order
    <3>4. \A e : Rank(Matching, e)' = Rank(Matching, e)
      BY <1>2, <3>3 DEF Rank
    <3> QED BY <3>1, <3>4
  <2>7. NotSkipped'
    <3>1. CASE offset = 0
      BY <1>1, <1>2, <2>4, <2>5, <3>1 DEF NotSkipped
    <3>2. CASE offset # 0
      BY <1>1, <1>2, <2>1, <2>6, <3>2 DEF CatalogInductive, NotSkipped
    <3> QED BY <3>1, <3>2
  <2>8. ShownSoFar'
    <3>1. CASE offset = 0
      <4>1. offset = 0 => shown = {} /\ ~repeated
        BY <1>1, <3>1 DEF CatalogInductive, AtStart
      <4> QED BY <1>1, <1>2, <2>1, <2>5, <3>1, <4>1 DEF ShownSoFar
    <3>2. CASE offset # 0
      BY <1>1, <1>2, <2>1, <2>6, <3>2 DEF CatalogInductive, ShownSoFar
    <3> QED BY <3>1, <3>2
  <2>9. AtStart' /\ EventsAreWhole' /\ Sorted' /\ MissesExplained' /\ QuietPagesAreTheList'
    BY <1>1, <1>3, <2>1
       DEF CatalogInductive, AtStart, EventsAreWhole, Sorted, MissesExplained, QuietPagesAreTheList, tables
  <2> QED BY <2>3, <2>7, <2>8, <2>9 DEF CatalogInductive
<1>4. CASE query.sort # "match_score"
  <2>1. pc' = "counted" /\ total' = Cardinality(Matching) /\ UNCHANGED <<needs, mixed>>
    BY <1>4 DEF Ask
  <2>2. TypeOK'
    BY <1>1, <1>2, <2>1, FiniteRows DEF CatalogInductive, TypeOK, tables
  <2>3. \A e : Rank(Matching, e)' = Rank(Matching, e)
    BY <1>1, <1>2, <2>1 DEF Rank, Order
  <2>4. offset \in Nat /\ \A e \in Matching : Rank(Matching, e) \in Nat
    BY <1>2, RankIsRankIn, RankType DEF CatalogInductive, TypeOK
  <2>5. NotSkipped'
    BY <1>1, <1>2, <2>1, <2>3, <2>4 DEF CatalogInductive, NotSkipped
  <2>6. ShownSoFar'
    <3>1. CASE offset = 0
      <4>1. shown = {} /\ ~repeated
        BY <1>1, <3>1 DEF CatalogInductive, AtStart
      <4> QED BY <1>1, <1>2, <2>1, <2>3, <2>4, <3>1, <4>1 DEF ShownSoFar
    <3>2. CASE offset # 0
      BY <1>1, <1>2, <2>1, <2>3, <3>2 DEF CatalogInductive, ShownSoFar
    <3> QED BY <3>1, <3>2
  <2>7. AtStart' /\ EventsAreWhole' /\ Sorted' /\ MissesExplained' /\ QuietPagesAreTheList'
    BY <1>1, <1>4, <2>1, QueryType
       DEF CatalogInductive, AtStart, EventsAreWhole, Sorted, MissesExplained, QuietPagesAreTheList, tables
  <2> QED BY <2>2, <2>5, <2>6, <2>7 DEF CatalogInductive
<1> QED BY <1>3, <1>4

\* A page: what is added is what the ranks between offset and the next offset
\* hold, and a client that stops has left nothing behind.
LEMMA PageStep ==
    ASSUME CatalogInductive, Reading, UNCHANGED <<tables, profile, query>>,
           NEW count \in 0..Cardinality(Events),
           Answer(Page(Matching), count),
           query.sort = "match_score" => count = Cardinality(Matching),
           Matching = first => count = Cardinality(Matching)
    PROVE  CatalogInductive'
<1> DEFINE page == Page(Matching)
           stops == Last(page, count)
<1>1. /\ shown' = shown \cup page
      /\ repeated' = (repeated \/ page \cap shown # {})
      /\ total' = count
      /\ exact' = (count = Cardinality(Matching))
      /\ pc' = IF ~(page \subseteq venues) THEN "failed" ELSE IF stops THEN "done" ELSE "ready"
      /\ offset' = IF pc' = "ready" THEN offset + query.limit ELSE offset
      /\ UNCHANGED <<query, needs, first, mixed>>
  BY DEF Answer
<1>2. Matching' = Matching /\ Matching \in SUBSET Events /\ Matching \subseteq published
  BY SameTables, MatchingRows DEF CatalogInductive
<1>3. page \subseteq Matching /\ page \subseteq venues
  BY <1>2 DEF Page, CatalogInductive, EventsAreWhole
<1>4. offset \in Nat /\ query.limit \in Nat /\ query.limit > 0
  BY QueryType DEF CatalogInductive, TypeOK
<1>5. \A e : Rank(Matching, e) \in Nat /\ Rank(Matching, e)' = Rank(Matching, e)
  <2>1. Order' = Order
    BY <1>1 DEF Order
  <2>2. \A e : Rank(Matching, e)' = Rank(Matching, e)
    BY <1>2, <2>1 DEF Rank
  <2> QED BY <1>2, <2>2, RankIsRankIn, RankType
<1>6. \A e \in Matching : e \in page <=> offset <= Rank(Matching, e)
                                     /\ Rank(Matching, e) < offset + query.limit
  BY DEF Page
<1>7. pc' = (IF stops THEN "done" ELSE "ready") /\ pc' \in {"done", "ready"}
  BY <1>1, <1>3
<1>8. ASSUME stops, query.stop = "total" => count = Cardinality(Matching), NEW e \in Matching
      PROVE  Rank(Matching, e) < offset + query.limit
  BY <1>8, LastIsLast DEF CatalogInductive
<1>9. first \subseteq Matching /\ ((~mixed => \A e \in first \ shown : Rank(Matching, e) >= offset))
  BY DEF CatalogInductive, NotSkipped, Reading
<1>10. Matching = first /\ ~mixed =>
        shown = {e \in Matching : Rank(Matching, e) < offset} /\ ~repeated
  BY DEF CatalogInductive, ShownSoFar, Reading
<1> HIDE DEF page, stops
<1>11. TypeOK'
  <2>1. shown' \subseteq published' /\ first' \subseteq published'
    BY <1>1, <1>2, <1>3 DEF CatalogInductive, TypeOK, tables
  <2>2. repeated' \in BOOLEAN /\ exact' \in BOOLEAN
    BY <1>1
  <2> QED BY <1>1, <1>4, <1>7, <2>1, <2>2 DEF CatalogInductive, TypeOK, tables
<1>12. EventsAreWhole' /\ Sorted' /\ AtStart'
  <2>1. EventsAreWhole'
    BY <1>7 DEF CatalogInductive, EventsAreWhole, tables
  <2>2. Sorted'
    BY <1>1, <1>7 DEF CatalogInductive, Sorted
  <2>3. pc' = "ready" => offset' # 0
    BY <1>1, <1>4
  <2> QED BY <1>7, <2>1, <2>2, <2>3 DEF AtStart
<1>13. ASSUME ~mixed, stops, query.stop = "total" => count = Cardinality(Matching)
       PROVE  first \subseteq shown'
  BY <1>1, <1>5, <1>6, <1>8, <1>9, <1>13, <1>4
<1>14. NotSkipped'
  BY <1>1, <1>2, <1>4, <1>5, <1>6, <1>7, <1>9 DEF NotSkipped
<1>15. MissesExplained'
  <2>1. mixed => query.sort = "match_score"
    BY DEF CatalogInductive, Sorted
  <2>2. query.sort \in {"starts_at", "match_score"}
    BY QueryType DEF CatalogInductive
  <2>3. CASE mixed
    BY <1>1, <2>1, <2>3 DEF MissesExplained
  <2>4. CASE ~mixed /\ stops /\ (query.stop = "total" => count = Cardinality(Matching))
    BY <1>1, <1>13, <2>4 DEF MissesExplained
  <2>5. CASE ~mixed /\ stops /\ query.stop = "total" /\ count # Cardinality(Matching)
    BY <1>1, <2>2, <2>5 DEF MissesExplained
  <2>6. CASE ~stops
    BY <1>7, <2>6 DEF MissesExplained
  <2> QED BY <2>3, <2>4, <2>5, <2>6
<1>16. ASSUME Matching = first, ~mixed
       PROVE  shown' = {e \in Matching : Rank(Matching, e) < offset + query.limit} /\ ~repeated'
  <2>1. shown = {e \in Matching : Rank(Matching, e) < offset} /\ ~repeated
    BY <1>10, <1>16
  <2>2. page \cap shown = {}
    BY <1>3, <1>4, <1>5, <1>6, <2>1
  <2>3. \A e : e \in shown' <=> e \in Matching /\ Rank(Matching, e) < offset + query.limit
    BY <1>1, <1>3, <1>4, <1>5, <1>6, <2>1
  <2> QED BY <1>1, <2>1, <2>2, <2>3
<1>17. ShownSoFar'
  BY <1>1, <1>2, <1>5, <1>7, <1>16 DEF ShownSoFar
<1>18. QuietPagesAreTheList'
  <2> SUFFICES ASSUME stops, ~mixed, Matching = first
               PROVE  shown' = first /\ ~repeated' /\ total' = Cardinality(first)
    BY <1>1, <1>2, <1>7 DEF QuietPagesAreTheList
  <2>1. \A e \in Matching : Rank(Matching, e) < offset + query.limit
    BY <1>8
  <2>2. shown' = Matching /\ ~repeated'
    BY <1>16, <2>1
  <2> QED BY <1>1, <2>2
<1> QED BY <1>11, <1>12, <1>14, <1>15, <1>17, <1>18 DEF CatalogInductive

-----------------------------------------------------------------------------
LEMMA CatalogStep ==
    ASSUME CatalogInductive, [Next]_vars
    PROVE  CatalogInductive'
<1>1. ASSUME NEW e \in Events, CreateLoad(e) PROVE CatalogInductive'
  <2>1. TypeOK' /\ EventsAreWhole'
    BY <1>1 DEF CreateLoad, CatalogInductive, TypeOK, EventsAreWhole, walk
  <2> QED BY <1>1, <2>1, TablesStep DEF CreateLoad
<1>2. ASSUME FlushVenue \/ FlushEvent PROVE CatalogInductive'
  <2>1. TypeOK' /\ EventsAreWhole'
    BY <1>2, CatalogAssumption DEF FlushVenue, FlushEvent, CatalogInductive, TypeOK, EventsAreWhole, walk
  <2> QED BY <1>2, <2>1, TablesStep DEF FlushVenue, FlushEvent
<1>3. ASSUME CreateCommit PROVE CatalogInductive'
  <2>1. creating.event \in Events
    BY <1>3 DEF CreateCommit, CatalogInductive, TypeOK
  <2>2. TypeOK' /\ EventsAreWhole'
    BY <1>3, <2>1 DEF CreateCommit, CatalogInductive, TypeOK, EventsAreWhole, walk
  <2> QED BY <1>3, <2>2, TablesStep DEF CreateCommit
<1>4. ASSUME CreateFail PROVE CatalogInductive'
  <2>1. TypeOK' /\ EventsAreWhole'
    BY <1>4 DEF CreateFail, CatalogInductive, TypeOK, EventsAreWhole, walk
  <2> QED BY <1>4, <2>1, TablesStep DEF CreateFail
<1>5. ASSUME NEW n \in Profiles, PutNeeds(n) PROVE CatalogInductive'
  <2>1. TypeOK' /\ EventsAreWhole'
    BY <1>5 DEF PutNeeds, CatalogInductive, TypeOK, EventsAreWhole, walk, tables
  <2> QED BY <1>5, <2>1, TablesStep DEF PutNeeds, tables
<1>6. ASSUME Ask PROVE CatalogInductive'
  BY <1>6, AskStep
<1>7. ASSUME Refuse PROVE CatalogInductive'
  <2>1. Matching' = Matching /\ \A e : Rank(Matching, e)' = Rank(Matching, e)
    BY <1>7, SameTables DEF Refuse, Rank, Order
  <2>2. TypeOK' /\ EventsAreWhole'
    BY <1>7 DEF Refuse, CatalogInductive, TypeOK, EventsAreWhole, tables
  <2>3. NotSkipped' /\ ShownSoFar'
    BY <1>7, <2>1 DEF Refuse, CatalogInductive, NotSkipped, ShownSoFar
  <2> QED BY <1>7, <2>2, <2>3 DEF Refuse, CatalogInductive, Sorted, AtStart, MissesExplained,
                                 QuietPagesAreTheList
<1>8. ASSUME RankedPage PROVE CatalogInductive'
  <2> DEFINE count == Cardinality(Matching)
  <2>1. Reading /\ UNCHANGED <<tables, profile, query>> /\ Answer(Page(Matching), count)
    BY <1>8 DEF RankedPage, Reading
  <2>2. count \in 0..Cardinality(Events)
    BY MatchingRows, FiniteRows DEF CatalogInductive
  <2> QED BY <2>1, <2>2, PageStep
<1>9. ASSUME TimePage PROVE CatalogInductive'
  <2>1. Reading /\ UNCHANGED <<tables, profile, query>> /\ Answer(Page(Matching), total)
    BY <1>9 DEF TimePage, Reading
  <2>2. total \in 0..Cardinality(Events) /\ query.sort = "starts_at"
    BY <1>9 DEF TimePage, CatalogInductive, TypeOK, Sorted
  <2>3. Matching = first => total = Cardinality(Matching)
    BY <1>9 DEF TimePage, CatalogInductive, ShownSoFar
  <2> QED BY <2>1, <2>2, <2>3, PageStep
<1>10. ASSUME Again PROVE CatalogInductive'
  <2>1. Matching' = Matching /\ Matching \in SUBSET Events
    BY <1>10, SameTables, MatchingRows DEF Again, CatalogInductive
  <2>2. \A e : Rank(Matching, e)' \in Nat
    <3> DEFINE R == Order'
    <3>1. \A e : Rank(Matching, e)' = RankIn(R, Matching, e)
      BY <2>1 DEF Rank, RankIn, Before
    <3> HIDE DEF R
    <3> QED BY <2>1, <3>1, RankType
  <2>3. TypeOK' /\ EventsAreWhole'
    BY <1>10, EventsCounted DEF Again, CatalogInductive, TypeOK, EventsAreWhole, tables
  <2>4. NotSkipped' /\ ShownSoFar'
    BY <1>10, <2>1, <2>2 DEF Again, NotSkipped, ShownSoFar
  <2> QED BY <1>10, <2>3, <2>4 DEF Again, CatalogInductive, Sorted, AtStart, MissesExplained,
                                  QuietPagesAreTheList
<1>11. ASSUME UNCHANGED vars PROVE CatalogInductive'
  <2>1. UNCHANGED <<tables, query, walk>>
    BY <1>11 DEF vars
  <2>2. TypeOK' /\ EventsAreWhole'
    BY <1>11 DEF vars, tables, walk, CatalogInductive, TypeOK, EventsAreWhole
  <2> QED BY <2>1, <2>2, TablesStep DEF tables
<1> QED BY <1>1, <1>2, <1>3, <1>4, <1>5, <1>6, <1>7, <1>8, <1>9, <1>10, <1>11 DEF Next, Client

LEMMA CatalogInit == Init => CatalogInductive
<1> SUFFICES ASSUME Init PROVE CatalogInductive
  OBVIOUS
<1>1. TypeOK /\ EventsAreWhole
  BY CatalogAssumption, EventsCounted DEF Init, TypeOK, EventsAreWhole
<1>2. \A e : Rank(Matching, e) \in Nat
  BY <1>1, MatchingRows, RankIsRankIn, RankType
<1> QED BY <1>1, <1>2 DEF Init, CatalogInductive, Sorted, AtStart, NotSkipped, ShownSoFar,
                         MissesExplained, QuietPagesAreTheList

-----------------------------------------------------------------------------
(* The theorems.                                                           *)

\* Every step of writers and reader keeps the inductive invariant.
THEOREM CatalogSafe == Spec => []CatalogInductive
BY CatalogInit, CatalogStep, PTL DEF Spec

\* Every variable keeps its type, and a ranked list is only ever cut with a
\* need profile (the assertion in list_events).
THEOREM CatalogTypes == Spec => []TypeOK
<1>1. CatalogInductive => TypeOK
  BY DEF CatalogInductive
<1> QED BY <1>1, CatalogSafe, PTL

\* However create_event fails, no event is seen without its venue and claim,
\* so no list fails on one.
THEOREM PublishedWhole == Spec => []EventsAreWhole
<1>1. CatalogInductive => EventsAreWhole
  BY DEF CatalogInductive
<1> QED BY <1>1, CatalogSafe, PTL

\* A client that reads list_events to the end misses an event only when its
\* profile changed or a total it trusted was out of date.
THEOREM MissesAreExplained == Spec => []MissesExplained
<1>1. CatalogInductive => MissesExplained
  BY DEF CatalogInductive
<1> QED BY <1>1, CatalogSafe, PTL

\* Without writers the pages of list_events are the list, each event once.
THEOREM QuietPages == Spec => []QuietPagesAreTheList
<1>1. CatalogInductive => QuietPagesAreTheList
  BY DEF CatalogInductive
<1> QED BY <1>1, CatalogSafe, PTL
=============================================================================
