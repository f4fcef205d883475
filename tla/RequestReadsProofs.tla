-------------------------- MODULE RequestReadsProofs --------------------------
(***************************************************************************)
(* Theorems about the request list and the dashboard, for any number of    *)
(* requests, attendees and events, any view, page size and length of the   *)
(* dashboard, and whatever is written between their statements.            *)
(*                                                                         *)
(* The argument.  A page is cut out by rank: the number of matching rows   *)
(* that are newer.  While no row leaves the filter ranks only grow, so a   *)
(* row that is still to come cannot slip in front of the offset; while     *)
(* none joins it they only fall, so a row that was shown cannot come back  *)
(* behind it.  A row that leaves lowers the ranks behind it by one, and     *)
(* since no two rows have the same rank at most one of them gets past the  *)
(* offset.  The dashboard's figures are compared through the set that      *)
(* was counted: what matches now was counted or has joined, and what was   *)
(* counted matches now or has left, for good.                              *)
(***************************************************************************)
EXTENDS RequestReads, FiniteSetTheorems, TLAPS

Mine == {r \in Visible : rows[r].attendee = view.user}

\* The rows a page puts in front of r, as long as no two have the same time.
Newer(r) == {q \in Matching : rows[q].created_at > rows[r].created_at}

Rank(r) == Cardinality(Newer(r))

\* The first statement of a reading has been carried out.
Begun == pc # "ready" \/ offset > 0

OwnersHaveProfiles == \A r \in Requests : rows[r] # Nil => rows[r].attendee \in profiles

Places ==
    /\ pc # "failed"
    /\ view.kind = "list" => pc # "active"
    /\ view.kind = "dashboard" => offset = 0 /\ ~repeated
    /\ ~Begun => first = {} /\ joined = {} /\ left = {} /\ shown = {} /\ ~repeated

\* Every change of the filter's rows is in the histories.
Recorded == Begun => first \subseteq Matching \cup left /\ Matching \subseteq first \cup joined

\* While nothing left, a row that is still to be shown is behind the offset.
NotSkipped ==
    view.kind = "list" /\ left = {} /\ ~Ties =>
        \A r \in first \ shown :
            IF pc = "done" THEN view.stop = "total" /\ ~quiet ELSE Rank(r) >= offset

\* While nothing joined, a row that was shown is in front of it.
NotRepeated ==
    joined = {} /\ ~Ties =>
        /\ ~repeated
        /\ view.kind = "list" /\ pc # "done" => \A r \in shown : Rank(r) < offset

\* Rows that no later page will show: still there, not shown, in front.
Missed == {r \in (first \ shown) \cap Matching : Rank(r) < offset}

\* Every row that has left accounts for at most one of them.
FewMissed ==
    view.kind = "list" /\ LeavesForGood =>
        /\ left \cap Matching = {}
        /\ ~Ties /\ pc # "done" => Cardinality(Missed) <= Cardinality(left)
        /\ ~Ties /\ pc = "done" /\ (view.stop = "total" => quiet) =>
                Cardinality(first \ (shown \cup left)) <= Cardinality(left)

FreshTotal ==
    view.kind = "list" /\ pc = "counted" /\ quiet => total = Cardinality(Matching)

Figures ==
    view.kind = "dashboard" =>
        /\ pc # "ready" => total = Cardinality(first)
        /\ \A r \in left : rows[r].status # "pending"
        /\ pc = "done" => shown \in Newest(Mine, RecentRequestsLimit)
        /\ pc \in {"active", "done"} /\ quiet =>
                active \in IF Attending = {} THEN {Nil} ELSE Soonest

ReadsInductive ==
    /\ TypeOK /\ OwnersHaveProfiles /\ Places /\ Recorded
    /\ NotSkipped /\ FewMissed /\ NotRepeated /\ FreshTotal /\ Figures

-----------------------------------------------------------------------------
(* Sets of requests and their sizes.                                       *)

LEMMA FiniteRequests ==
    ASSUME NEW S \in SUBSET Requests
    PROVE  /\ IsFiniteSet(S) /\ Cardinality(S) \in Nat
           /\ Cardinality(S) \in 0..Cardinality(Requests)
<1>1. IsFiniteSet(S) /\ Cardinality(S) <= Cardinality(Requests)
  BY FS_Subset, ReadsAssumption
<1>2. Cardinality(S) \in Nat /\ Cardinality(Requests) \in Nat
  BY <1>1, FS_CardinalityType, ReadsAssumption
<1> QED
  BY <1>1, <1>2

LEMMA FewerRequests ==
    ASSUME NEW S \in SUBSET Requests, NEW T \in SUBSET S
    PROVE  /\ Cardinality(T) <= Cardinality(S)
           /\ Cardinality(S) = Cardinality(T) => S = T
BY FiniteRequests, FS_Subset

LEMMA UnionBound ==
    ASSUME NEW S \in SUBSET Requests, NEW T \in SUBSET Requests
    PROVE  /\ Cardinality(S \cup T) <= Cardinality(S) + Cardinality(T)
           /\ S \cap T = {} => Cardinality(S \cup T) = Cardinality(S) + Cardinality(T)
<1>1. Cardinality(S \cup T) = Cardinality(S) + Cardinality(T) - Cardinality(S \cap T)
  BY FiniteRequests, FS_Union
<1>2. S \cap T \in SUBSET Requests
  OBVIOUS
<1>3. S \cap T = {} => Cardinality(S \cap T) = 0
  BY FS_EmptySet
<1> QED
  BY <1>1, <1>2, <1>3, FiniteRequests

\* LIMIT n gives n rows, or all there are.
LEMMA NewestRows ==
    ASSUME NEW S \in SUBSET Requests, NEW n \in Nat, NEW T \in Newest(S, n)
    PROVE  /\ T \in SUBSET S /\ T \in SUBSET Requests
           /\ Cardinality(T) \in 0..n
           /\ T = S \/ Cardinality(T) = n
           /\ \A r \in T, q \in S \ T : rows[r].created_at >= rows[q].created_at
<1>1. /\ T \in SUBSET S
      /\ Cardinality(T) = IF n < Cardinality(S) THEN n ELSE Cardinality(S)
      /\ \A r \in T, q \in S \ T : rows[r].created_at >= rows[q].created_at
  BY DEF Newest
<1>2. T \in SUBSET Requests /\ Cardinality(S) \in Nat /\ Cardinality(T) \in Nat
  BY <1>1, FiniteRequests
<1>3. Cardinality(S) = Cardinality(T) => S = T
  BY <1>1, FewerRequests
<1> QED
  BY <1>1, <1>2, <1>3

LEMMA VisibleRows ==
    ASSUME TypeOK
    PROVE  /\ Visible \in SUBSET Requests /\ Matching \in SUBSET Visible
           /\ Matching \in SUBSET Requests /\ Mine \in SUBSET Visible
           /\ \A r \in Visible : rows[r] \in Row /\ rows[r].created_at \in Nat
           /\ \A r : Newer(r) \in SUBSET Matching /\ Newer(r) \in SUBSET Requests
           /\ \A r : Rank(r) \in Nat
<1>1. /\ Visible \in SUBSET Requests /\ Matching \in SUBSET Visible
      /\ Matching \in SUBSET Requests /\ Mine \in SUBSET Visible
      /\ \A r : Newer(r) \in SUBSET Matching /\ Newer(r) \in SUBSET Requests
  BY DEF Visible, Matching, Mine, Newer
<1>2. \A r \in Visible : rows[r] \in Row /\ rows[r].created_at \in Nat
  BY DEF TypeOK, Visible, Row
<1> QED
  BY <1>1, <1>2, FiniteRequests DEF Rank

\* No two of the rows a page is cut from have the same time.
Apart == \A r, q \in Matching : r # q => rows[r].created_at # rows[q].created_at

LEMMA MatchingApart ==
    ASSUME ReadsInductive, Begun, ~Ties
    PROVE  Apart
BY DEF ReadsInductive, Recorded, Ties, Apart

\* Then no two of them have the same rank.
LEMMA RanksDiffer ==
    ASSUME TypeOK, Apart, NEW r \in Matching, NEW q \in Matching, Rank(r) = Rank(q)
    PROVE  r = q
<1>1. ASSUME NEW x \in Matching, NEW y \in Matching, Rank(x) = Rank(y)
      PROVE  ~(rows[x].created_at > rows[y].created_at)
  <2> SUFFICES ASSUME rows[x].created_at > rows[y].created_at PROVE FALSE
    OBVIOUS
  <2>1. Newer(x) \in SUBSET Newer(y) /\ x \in Newer(y) /\ x \notin Newer(x)
    BY VisibleRows DEF Newer
  <2>2. Newer(x) = Newer(y)
    BY <1>1, <2>1, VisibleRows, FewerRequests DEF Rank
  <2> QED
    BY <2>1, <2>2
<1>2. ~(rows[r].created_at > rows[q].created_at) /\ ~(rows[q].created_at > rows[r].created_at)
  BY <1>1
<1> QED
  BY <1>2, VisibleRows DEF Apart

\* A page holds the rows with the ranks from its offset on.
LEMMA PageRanks ==
    ASSUME TypeOK, Apart, NEW n \in Nat, NEW m \in Nat,
           NEW before \in Newest(Matching, n), NEW page \in Newest(Matching \ before, m)
    PROVE  /\ \A r \in page : n <= Rank(r) /\ Rank(r) < n + m
           /\ \A r \in Matching \ page :
                Rank(r) >= n => Rank(r) >= n + m /\ Cardinality(page) = m
<1>1. /\ before \in SUBSET Matching /\ before \in SUBSET Requests
      /\ before = Matching \/ Cardinality(before) = n
      /\ \A r \in before, q \in Matching \ before : rows[r].created_at >= rows[q].created_at
  BY VisibleRows, NewestRows
<1>2. /\ page \in SUBSET (Matching \ before) /\ page \in SUBSET Requests
      /\ Cardinality(page) \in 0..m
      /\ page = Matching \ before \/ Cardinality(page) = m
      /\ \A r \in page, q \in (Matching \ before) \ page :
            rows[r].created_at >= rows[q].created_at
  <2>1. Matching \ before \in SUBSET Requests
    BY VisibleRows
  <2> QED
    BY <2>1, NewestRows
<1>3. \A r, q \in Matching : r # q => rows[r].created_at # rows[q].created_at
  BY DEF Apart
<1>4. \A r \in Matching \ before : before \subseteq Newer(r)
  BY <1>1, <1>3, VisibleRows DEF Newer
<1>5. ASSUME NEW r \in page
      PROVE  n <= Rank(r) /\ Rank(r) < n + m
  <2>1. Cardinality(before) = n
    BY <1>1, <1>2
  <2>2. n <= Rank(r)
    BY <1>2, <1>4, <2>1, VisibleRows, FewerRequests DEF Rank
  <2>3. Newer(r) \subseteq before \cup (page \ {r})
    BY <1>1, <1>2, VisibleRows DEF Newer
  <2>4. Cardinality(page \ {r}) = Cardinality(page) - 1
    BY <1>2, FiniteRequests, FS_RemoveElement
  <2>5. Cardinality(before \cup (page \ {r})) <= n + (m - 1)
    <3>1. page \ {r} \in SUBSET Requests
      BY <1>2
    <3>2. Cardinality(before \cup (page \ {r})) <= n + Cardinality(page \ {r})
      BY <1>1, <2>1, <3>1, UnionBound
    <3>3. Cardinality(before \cup (page \ {r})) \in Nat
      BY <1>1, <3>1, FiniteRequests
    <3> QED
      BY <1>2, <2>4, <3>2, <3>3
  <2>6. Rank(r) <= Cardinality(before \cup (page \ {r}))
    <3>1. before \cup (page \ {r}) \in SUBSET Requests
      BY <1>1, <1>2
    <3> QED
      BY <2>3, <3>1, FewerRequests DEF Rank
  <2>7. Cardinality(before \cup (page \ {r})) \in Nat
    <3>1. before \cup (page \ {r}) \in SUBSET Requests
      BY <1>1, <1>2
    <3> QED
      BY <3>1, FiniteRequests
  <2> QED
    BY <2>2, <2>5, <2>6, <2>7, VisibleRows
<1>6. ASSUME NEW r \in Matching \ page, Rank(r) >= n
      PROVE  Rank(r) >= n + m /\ Cardinality(page) = m
  <2>1. r \notin before
    <3> SUFFICES ASSUME r \in before PROVE FALSE
      OBVIOUS
    <3>1. Newer(r) \subseteq before \ {r}
      BY <1>1, VisibleRows DEF Newer
    <3>2. before \ {r} \in SUBSET Requests /\ Cardinality(before \ {r}) = Cardinality(before) - 1
      BY <1>1, FiniteRequests, FS_RemoveElement
    <3>3. Cardinality(before) \in 0..n
      BY VisibleRows, NewestRows
    <3>4. Rank(r) <= Cardinality(before \ {r})
      BY <3>1, <3>2, FewerRequests DEF Rank
    <3> QED
      BY <1>6, <3>2, <3>3, <3>4, VisibleRows
  <2>2. Cardinality(page) = m /\ Cardinality(before) = n
    BY <1>1, <1>2, <2>1
  <2>3. before \cup page \subseteq Newer(r)
    <3>1. page \subseteq Newer(r)
      BY <1>2, <1>3, <2>1, VisibleRows DEF Newer
    <3> QED
      BY <1>4, <2>1, <3>1
  <2>4. Cardinality(before \cup page) = n + m
    <3>1. before \cap page = {}
      BY <1>2
    <3> QED
      BY <1>1, <1>2, <2>2, <3>1, UnionBound
  <2>5. Cardinality(before \cup page) <= Rank(r)
    BY <2>3, VisibleRows, FewerRequests DEF Rank
  <2> QED
    BY <2>2, <2>4, <2>5, VisibleRows
<1> QED
  BY <1>5, <1>6

-----------------------------------------------------------------------------
(* The writers.                                                            *)

LEMMA SamePlaces ==
    ASSUME UNCHANGED <<view, answer, joined, left, quiet>>
    PROVE  /\ UNCHANGED <<view, pc, offset, total, active, shown, first, repeated>>
           /\ UNCHANGED <<joined, left, quiet>>
BY DEF answer

\* What nobody can see yet, or ever, changes nothing for a reader.
LEMMA HiddenStep ==
    ASSUME ReadsInductive, pc # "done", TypeOK', OwnersHaveProfiles',
           Visible' = Visible, \A r \in Visible : rows'[r] = rows[r],
           UNCHANGED <<view, answer, joined, left, quiet>>
    PROVE  ReadsInductive'
<1>1. /\ UNCHANGED <<view, pc, offset, total, active, shown, first, repeated>>
      /\ UNCHANGED <<joined, left, quiet>>
  BY SamePlaces
<1>2. Matching' = Matching /\ Ties' = Ties
  <2>1. first \cup joined \subseteq Visible
    BY DEF ReadsInductive, TypeOK
  <2> QED
    BY <1>1, <2>1 DEF Matching, Ties
<1>3. \A r \in Visible : Rank(r)' = Rank(r)
  <2>1. \A r \in Visible : Newer(r)' = Newer(r)
    BY <1>2, VisibleRows DEF ReadsInductive, Newer
  <2> QED
    BY <2>1 DEF Rank
<1>4. Attending' = Attending /\ Soonest' = Soonest
  <2>1. Attending' = Attending /\ Attending \subseteq Visible
    BY <1>1 DEF Attending
  <2> QED
    BY <2>1 DEF Soonest
<1>5. first \subseteq Visible /\ shown \subseteq Visible /\ left \subseteq Visible
  BY DEF ReadsInductive, TypeOK
<1>6. Places' /\ Recorded' /\ FreshTotal'
  BY <1>1, <1>2 DEF ReadsInductive, Places, Recorded, FreshTotal, Begun
<1>7. NotSkipped' /\ NotRepeated'
  BY <1>1, <1>2, <1>3, <1>5 DEF ReadsInductive, NotSkipped, NotRepeated
<1>8. FewMissed'
  <2>1. Missed' = Missed
    BY <1>1, <1>2, <1>3, <1>5 DEF Missed
  <2> QED
    BY <1>1, <1>2, <2>1 DEF ReadsInductive, FewMissed, LeavesForGood
<1>9. Figures'
  BY <1>1, <1>4, <1>5 DEF ReadsInductive, Figures
<1> QED
  BY <1>6, <1>7, <1>8, <1>9 DEF ReadsInductive

\* When one row leaves, at most one gets in front of the offset: the one that
\* had the offset for its rank.
LEMMA OneMoreMissed ==
    ASSUME ReadsInductive, TypeOK', pc # "done", Begun, view.kind = "list", LeavesForGood,
           ~Ties, UNCHANGED <<view, shown, first, offset>>,
           \A r \in Matching : rows'[r].created_at = rows[r].created_at,
           NEW d, Matching \ Matching' \subseteq {d},
           left' = left \cup (Matching \ Matching'), left' \cap Matching' = {}
    PROVE  Cardinality(Missed') <= Cardinality(left')
<1>1. /\ Matching \in SUBSET Requests /\ Matching' \in SUBSET Requests
      /\ left \in SUBSET Requests /\ left' \in SUBSET Requests
      /\ Missed \in SUBSET Requests /\ Missed' \in SUBSET Requests
      /\ offset \in Nat
  BY DEF ReadsInductive, TypeOK, Matching, Visible, Missed
<1>2. /\ Cardinality(left) \in Nat /\ Cardinality(left') \in Nat
      /\ Cardinality(Missed) \in Nat /\ Cardinality(Missed') \in Nat
      /\ Cardinality(Missed) <= Cardinality(left) /\ left \cap Matching = {}
  BY <1>1, FiniteRequests DEF ReadsInductive, FewMissed
<1>3. \A r : Newer(r) \in SUBSET Requests /\ Newer(r)' \in SUBSET Requests
  BY <1>1 DEF Newer
<1>4. \A r : Rank(r) \in Nat /\ Rank(r)' \in Nat
  <2>1. \A r : Cardinality(Newer(r)) \in Nat /\ Cardinality(Newer(r)') \in Nat
    BY <1>3, FiniteRequests
  <2> QED
    BY <2>1 DEF Rank
<1>5. \A r \in Missed' : r \in (first \ shown) \cap Matching /\ Rank(r)' < offset
  BY DEF Missed, ReadsInductive, Recorded
<1>6. CASE Matching \subseteq Matching'
  <2>1. ASSUME NEW r \in Missed' PROVE r \in Missed
    <3>1. Newer(r) \subseteq Newer(r)'
      BY <1>5, <1>6 DEF Newer
    <3>2. Rank(r) <= Rank(r)'
      BY <1>3, <3>1, FewerRequests DEF Rank
    <3> QED
      BY <1>1, <1>4, <1>5, <3>2 DEF Missed
  <2>2. Cardinality(Missed') <= Cardinality(Missed)
    BY <1>1, <2>1, FewerRequests
  <2>3. Cardinality(left') = Cardinality(left)
    <3>1. left' = left
      BY <1>6
    <3> QED
      BY <3>1
  <2> QED
    BY <1>2, <2>2, <2>3
<1>7. CASE ~(Matching \subseteq Matching')
  <2>1. d \in Matching /\ d \notin left /\ left' = left \cup {d}
    BY <1>2, <1>7
  <2>2. Cardinality(left') = Cardinality(left) + 1
    BY <1>1, <2>1, FiniteRequests, FS_AddElement
  <2> DEFINE edge == {r \in Matching : Rank(r) = offset}
  <2>3. ASSUME NEW r \in Missed' PROVE r \in Missed \cup edge
    <3>1. Newer(r) \subseteq Newer(r)' \cup {d}
      BY <1>5, <1>7 DEF Newer
    <3>2. Newer(r)' \cup {d} \in SUBSET Requests
      BY <1>1, <1>3, <2>1
    <3>3. Rank(r) <= Cardinality(Newer(r)' \cup {d})
      BY <3>1, <3>2, FewerRequests DEF Rank
    <3>4. Cardinality(Newer(r)' \cup {d}) <= Rank(r)' + 1
      <4>1. Cardinality(Newer(r)' \cup {d}) =
                IF d \in Newer(r)' THEN Cardinality(Newer(r)') ELSE Cardinality(Newer(r)') + 1
        BY <1>3, FiniteRequests, FS_AddElement
      <4>2. Cardinality(Newer(r)') \in Nat
        BY <1>3, FiniteRequests
      <4> QED
        BY <4>1, <4>2 DEF Rank
    <3>5. Cardinality(Newer(r)' \cup {d}) \in Nat
      BY <3>2, FiniteRequests
    <3>6. Rank(r) <= offset
      BY <1>1, <1>4, <1>5, <3>3, <3>4, <3>5
    <3> QED
      BY <1>1, <1>4, <1>5, <3>6 DEF Missed
  <2>4. Cardinality(Missed \cup edge) <= Cardinality(Missed) + 1
    <3>1. CASE edge = {}
      <4>1. Missed \cup edge = Missed
        BY <3>1
      <4> QED
        BY <1>2, <4>1
    <3>2. CASE edge # {}
      <4>1. PICK x \in edge : TRUE
        BY <3>2
      <4>2. edge = {x}
        BY <4>1, MatchingApart, RanksDiffer DEF ReadsInductive
      <4> HIDE DEF edge
      <4>3. Cardinality(Missed \cup {x}) =
                IF x \in Missed THEN Cardinality(Missed) ELSE Cardinality(Missed) + 1
        BY <1>1, FiniteRequests, FS_AddElement
      <4> QED
        BY <1>2, <4>2, <4>3
    <3> QED
      BY <3>1, <3>2
  <2>5. Missed \cup edge \in SUBSET Requests
    BY <1>1
  <2>6. Cardinality(Missed') <= Cardinality(Missed \cup edge)
    BY <2>3, <2>5, FewerRequests
  <2>7. Cardinality(Missed \cup edge) \in Nat
    BY <2>5, FiniteRequests
  <2> QED
    BY <1>2, <2>2, <2>4, <2>6, <2>7
<1> QED
  BY <1>6, <1>7

\* A commit: rows may come to match, and one may cease to, but none disappears,
\* changes its time or its place, or becomes pending.
LEMMA WatchedStep ==
    ASSUME ReadsInductive, pc # "done", TypeOK', OwnersHaveProfiles', Watch,
           Visible \subseteq Visible', NEW d, Matching \ Matching' \subseteq {d},
           \A r \in Visible : /\ rows'[r].created_at = rows[r].created_at
                              /\ rows'[r].attendee = rows[r].attendee
                              /\ rows'[r].event = rows[r].event
                              /\ rows'[r].status = "pending" => rows[r].status = "pending"
    PROVE  ReadsInductive'
<1>1. UNCHANGED <<view, pc, offset, total, active, shown, first, repeated>>
  BY DEF Watch, answer
<1>2. ~Begun => UNCHANGED <<joined, left, quiet>>
  BY DEF Watch, Begun, ReadsInductive, TypeOK
<1>3. Begun => /\ joined' = joined \cup (Matching' \ Matching)
               /\ left' = left \cup (Matching \ Matching')
               /\ quiet' = FALSE
  BY DEF Watch, Begun, ReadsInductive, TypeOK
<1>4. first \subseteq Visible /\ shown \subseteq Visible /\ left \subseteq Visible
  BY DEF ReadsInductive, TypeOK
<1>5. Begun' = Begun /\ (~Begun => pc = "ready")
  BY <1>1 DEF Begun
<1>6. Places' /\ Recorded' /\ FreshTotal'
  BY <1>1, <1>2, <1>3, <1>5 DEF ReadsInductive, Places, Recorded, FreshTotal
<1>7. Ties => Ties'
  <2>1. first \cup joined \subseteq Visible /\ first' = first /\ joined \subseteq joined'
    BY <1>1, <1>2, <1>3 DEF ReadsInductive, TypeOK
  <2> QED
    BY <2>1 DEF Ties
<1>8. Matching \in SUBSET Visible /\ Matching' \in SUBSET Requests /\ Matching \in SUBSET Requests
  BY VisibleRows DEF ReadsInductive, Matching, Visible
<1>9. NotSkipped'
  <2> SUFFICES ASSUME view.kind = "list", left' = {}, ~Ties', NEW r \in first \ shown
               PROVE  Rank(r)' >= offset
    BY <1>1 DEF NotSkipped
  <2>1. Begun
    BY DEF ReadsInductive, Places
  <2>2. left = {} /\ Matching \subseteq Matching'
    BY <1>3, <2>1
  <2>3. Rank(r) >= offset
    BY <1>7, <2>2 DEF ReadsInductive, NotSkipped
  <2>4. Newer(r) \subseteq Newer(r)' /\ Newer(r)' \in SUBSET Requests
    BY <1>4, <1>8, <2>2 DEF Newer
  <2>5. Rank(r) <= Rank(r)'
    BY <2>4, FewerRequests DEF Rank
  <2>6. Rank(r) \in Nat /\ Rank(r)' \in Nat /\ offset \in Nat
    BY <2>4, VisibleRows, FiniteRequests DEF ReadsInductive, TypeOK, Rank
  <2> QED
    BY <2>3, <2>5, <2>6
<1>10. NotRepeated'
  <2> SUFFICES ASSUME joined' = {}, ~Ties'
               PROVE  ~repeated /\ (view.kind = "list" => \A r \in shown : Rank(r)' < offset)
    BY <1>1 DEF NotRepeated
  <2>1. CASE ~Begun
    BY <2>1 DEF ReadsInductive, Places
  <2>2. CASE Begun
    <3>1. joined = {} /\ Matching' \subseteq Matching
      BY <1>3, <2>2
    <3>2. ~repeated /\ (view.kind = "list" => \A r \in shown : Rank(r) < offset)
      BY <1>7, <3>1 DEF ReadsInductive, NotRepeated
    <3>3. ASSUME NEW r \in shown, view.kind = "list"
          PROVE  Rank(r)' < offset
      <4>1. Newer(r)' \subseteq Newer(r) /\ Newer(r) \in SUBSET Requests /\ Newer(r)' \in SUBSET Requests
        BY <1>4, <1>8, <3>1 DEF Newer
      <4>2. Rank(r)' <= Rank(r)
        BY <4>1, FewerRequests DEF Rank
      <4>3. Rank(r) \in Nat /\ Rank(r)' \in Nat /\ offset \in Nat
        BY <4>1, FiniteRequests DEF ReadsInductive, TypeOK, Rank
      <4> QED
        BY <3>2, <3>3, <4>2, <4>3
    <3> QED
      BY <3>2, <3>3
  <2> QED
    BY <2>1, <2>2
<1>11. Figures'
  <2> SUFFICES ASSUME view.kind = "dashboard" PROVE Figures'
    BY <1>1 DEF Figures
  <2>1. view.role = "attendee" /\ view.status = "pending"
    BY ViewsAssumption DEF ReadsInductive, TypeOK
  <2>2. \A r \in left' : rows'[r].status # "pending"
    <3>1. \A r \in left : rows'[r].status # "pending"
      BY <1>4 DEF ReadsInductive, Figures
    <3>2. \A r \in Matching \ Matching' : rows'[r].status # "pending"
      BY <1>1, <2>1, NilAssumption DEF Matching, Statuses
    <3> QED
      BY <1>2, <1>3, <3>1, <3>2
  <2>3. Begun /\ pc # "ready" => quiet' = FALSE
    BY <1>3
  <2> QED
    BY <1>1, <1>3, <1>5, <2>2 DEF ReadsInductive, Figures, Begun
<1>12. FewMissed'
  <2> SUFFICES ASSUME view.kind = "list", LeavesForGood
               PROVE  /\ left' \cap Matching' = {}
                      /\ ~Ties' => Cardinality(Missed') <= Cardinality(left')
    BY <1>1 DEF FewMissed, LeavesForGood
  <2>1. CASE ~Begun
    <3>1. left' = {} /\ Missed' = {}
      BY <1>1, <1>2, <2>1 DEF ReadsInductive, Places, Missed
    <3> QED
      BY <3>1, FS_EmptySet
  <2>2. CASE Begun
    <3>1. left \cap Matching = {}
      BY DEF ReadsInductive, FewMissed
    <3>2. left' \cap Matching' = {}
      <4>1. \A r \in Visible : r \in Matching' => r \in Matching
        BY <1>1, NilAssumption DEF Matching, LeavesForGood, Statuses
      <4> QED
        BY <1>3, <1>4, <2>2, <3>1, <4>1
    <3>3. \A r \in Matching : rows'[r].created_at = rows[r].created_at
      BY <1>8
    <3> QED
      BY <1>1, <1>3, <1>7, <2>2, <3>2, <3>3, OneMoreMissed
  <2> QED
    BY <2>1, <2>2
<1> QED
  BY <1>6, <1>9, <1>10, <1>11, <1>12 DEF ReadsInductive

LEMMA HiddenWriters ==
    ASSUME ReadsInductive, pc # "done",
           \/ Tick \/ \E a \in Attendees : PutNeeds(a)
           \/ \E r \in Requests, a \in Attendees, e \in Events : CreateFlush(r, a, e)
           \/ \E r \in Requests : CreateFail(r)
    PROVE  ReadsInductive'
<1>0. TypeOK /\ OwnersHaveProfiles /\ UNCHANGED <<view, answer, joined, left, quiet>>
  BY DEF ReadsInductive, Tick, PutNeeds, CreateFlush, CreateFail, Unwatched
<1>1. /\ UNCHANGED <<view, pc, offset, total, active, shown, first, repeated>>
      /\ UNCHANGED <<joined, left, quiet>>
  BY <1>0, SamePlaces
<1>2. CASE Tick \/ \E a \in Attendees : PutNeeds(a)
  <2>1. UNCHANGED <<rows, uncommitted>> /\ Visible' = Visible
    BY <1>2 DEF Tick, PutNeeds, Visible
  <2>2. TypeOK'
    BY <1>0, <1>1, <1>2, <2>1, ReadsAssumption DEF TypeOK, Tick, PutNeeds
  <2>3. OwnersHaveProfiles'
    BY <1>0, <1>2, <2>1 DEF OwnersHaveProfiles, Tick, PutNeeds
  <2> QED
    BY <1>0, <2>1, <2>2, <2>3, HiddenStep
<1>3. ASSUME NEW r \in Requests, NEW a \in Attendees, NEW e \in Events, CreateFlush(r, a, e)
      PROVE  ReadsInductive'
  <2> DEFINE new == [status |-> "pending", event |-> e, attendee |-> a, created_at |-> clock]
  <2>1. /\ rows[r] = Nil /\ a \in profiles /\ new \in Row /\ new # Nil
        /\ rows' = [rows EXCEPT ![r] = new] /\ uncommitted' = uncommitted \cup {r}
        /\ UNCHANGED <<clock, profiles>>
    BY <1>0, <1>3, NilAssumption DEF CreateFlush, MayRequest, TypeOK, Row, Statuses
  <2>2. new.attendee = a
    OBVIOUS
  <2> HIDE DEF new
  <2>3. rows'[r] = new /\ \A q \in Requests : q # r => rows'[q] = rows[q]
    BY <1>0, <2>1 DEF TypeOK
  <2>4. Visible' = Visible /\ \A q \in Visible : rows'[q] = rows[q]
    BY <2>1, <2>3 DEF Visible
  <2>5. TypeOK'
    BY <1>0, <1>1, <2>1, <2>3, <2>4 DEF TypeOK
  <2>6. OwnersHaveProfiles'
    BY <1>0, <2>1, <2>2, <2>3 DEF OwnersHaveProfiles
  <2> QED
    BY <1>0, <2>4, <2>5, <2>6, HiddenStep
<1>4. ASSUME NEW r \in Requests, CreateFail(r)
      PROVE  ReadsInductive'
  <2>1. /\ r \in uncommitted /\ rows' = [rows EXCEPT ![r] = Nil]
        /\ uncommitted' = uncommitted \ {r} /\ UNCHANGED <<clock, profiles>>
    BY <1>4 DEF CreateFail
  <2>2. rows'[r] = Nil /\ \A q \in Requests : q # r => rows'[q] = rows[q]
    BY <1>0, <2>1 DEF TypeOK
  <2>3. Visible' = Visible /\ \A q \in Visible : rows'[q] = rows[q]
    BY <2>1, <2>2 DEF Visible
  <2>4. TypeOK'
    BY <1>0, <1>1, <2>1, <2>2, <2>3 DEF TypeOK
  <2>5. OwnersHaveProfiles'
    BY <1>0, <2>1, <2>2 DEF OwnersHaveProfiles
  <2> QED
    BY <1>0, <2>3, <2>4, <2>5, HiddenStep
<1> QED
  BY <1>2, <1>3, <1>4

\* The client's own variables keep their types under Watch.
LEMMA WatchTypes ==
    ASSUME TypeOK, Watch, Visible \subseteq Visible'
    PROVE  /\ view' \in Views
           /\ pc' \in {"ready", "counted", "active", "done", "failed"}
           /\ offset' \in Nat /\ total' \in 0..Cardinality(Requests)
           /\ active' \in Visible' \cup {Nil}
           /\ shown' \subseteq Visible' /\ first' \subseteq Visible'
           /\ joined' \subseteq Visible' /\ left' \subseteq Visible'
           /\ quiet' \in BOOLEAN /\ repeated' \in BOOLEAN
<1>1. Matching \subseteq Visible /\ Matching' \subseteq Visible'
  BY DEF Matching
<1> QED
  BY <1>1 DEF TypeOK, Watch, answer

LEMMA CreateCommitStep ==
    ASSUME ReadsInductive, pc # "done", NEW r \in Requests, CreateCommit(r)
    PROVE  ReadsInductive'
<1>1. /\ TypeOK /\ OwnersHaveProfiles /\ Watch
      /\ uncommitted' = uncommitted \ {r} /\ UNCHANGED <<clock, profiles, rows>>
  BY DEF ReadsInductive, CreateCommit
<1>2. Visible \subseteq Visible'
  BY <1>1 DEF Visible
<1>3. TypeOK'
  BY <1>1, <1>2, WatchTypes DEF TypeOK
<1>4. OwnersHaveProfiles'
  BY <1>1 DEF OwnersHaveProfiles
<1>5. Matching \ Matching' \subseteq {r}
  BY <1>1, <1>2 DEF Matching, Watch
<1> QED
  BY <1>1, <1>2, <1>3, <1>4, <1>5, WatchedStep

LEMMA SetStatusStep ==
    ASSUME ReadsInductive, pc # "done", NEW r \in Requests, NEW old, NEW new \in Statuses,
           SetStatus(r, old, new), new # "pending"
    PROVE  ReadsInductive'
<1>1. /\ TypeOK /\ OwnersHaveProfiles /\ Watch /\ r \in Visible
      /\ rows' = [rows EXCEPT ![r].status = new] /\ UNCHANGED <<clock, profiles, uncommitted>>
  BY DEF ReadsInductive, SetStatus
<1>2. rows[r] \in Row
  BY <1>1, VisibleRows
<1>3. /\ rows'[r] = [rows[r] EXCEPT !.status = new]
      /\ \A q \in Requests : q # r => rows'[q] = rows[q]
  BY <1>1 DEF TypeOK
<1>4. /\ rows'[r] \in Row /\ rows'[r] # Nil /\ rows'[r].status = new
      /\ rows'[r].created_at = rows[r].created_at
      /\ rows'[r].attendee = rows[r].attendee /\ rows'[r].event = rows[r].event
  BY <1>2, <1>3, NilAssumption DEF Row
<1>5. Visible' = Visible
  BY <1>1, <1>3, <1>4 DEF Visible
<1>6. TypeOK'
  <2>1. rows' \in [Requests -> Row \cup {Nil}]
    BY <1>1, <1>3, <1>4 DEF TypeOK
  <2>2. uncommitted' \subseteq {q \in Requests : rows'[q] # Nil}
    BY <1>1, <1>3, <1>4 DEF TypeOK
  <2> QED
    BY <1>1, <1>5, <2>1, <2>2, WatchTypes DEF TypeOK
<1>7. OwnersHaveProfiles'
  BY <1>1, <1>3, <1>4 DEF OwnersHaveProfiles, Visible
<1>8. \A q \in Visible : /\ rows'[q].created_at = rows[q].created_at
                         /\ rows'[q].attendee = rows[q].attendee
                         /\ rows'[q].event = rows[q].event
                         /\ rows'[q].status = "pending" => rows[q].status = "pending"
  BY <1>3, <1>4 DEF Visible
<1>9. Matching \ Matching' \subseteq {r}
  BY <1>1, <1>3, <1>5 DEF Matching, Visible, Watch
<1> QED
  BY <1>1, <1>5, <1>6, <1>7, <1>8, <1>9, WatchedStep

LEMMA WriterStep ==
    ASSUME ReadsInductive, pc # "done", Writer
    PROVE  ReadsInductive'
<1>1. ASSUME NEW r \in Requests, RespondCommit(r) \/ ConfirmCommit(r) \/ VerifyCommit(r)
      PROVE  ReadsInductive'
  <2>1. \E new \in {"responded", "closed", "confirmed", "verified"}, old \in SUBSET Statuses :
            SetStatus(r, old, new)
    BY <1>1 DEF RespondCommit, ConfirmCommit, VerifyCommit, Statuses
  <2>2. \A new \in {"responded", "closed", "confirmed", "verified"} :
            new \in Statuses /\ new # "pending"
    BY DEF Statuses
  <2> QED
    BY <2>1, <2>2, SetStatusStep
<1> QED
  BY <1>1, HiddenWriters, CreateCommitStep DEF Writer

-----------------------------------------------------------------------------
(* The readers.                                                            *)

LEMMA SameTables ==
    ASSUME UNCHANGED <<tables, view>>
    PROVE  /\ UNCHANGED <<clock, profiles, rows, uncommitted>>
           /\ Visible' = Visible /\ Matching' = Matching /\ Mine' = Mine
           /\ Attending' = Attending /\ Soonest' = Soonest
           /\ UNCHANGED <<first, joined>> => Ties' = Ties
           /\ \A r : Rank(r)' = Rank(r)
           /\ Newest(Mine, RecentRequestsLimit)' = Newest(Mine, RecentRequestsLimit)
<1>1. UNCHANGED <<clock, profiles, rows, uncommitted, view>>
  BY DEF tables
<1>2. Visible' = Visible
  BY <1>1 DEF Visible
<1>3. /\ Matching' = Matching /\ Mine' = Mine /\ Attending' = Attending
      /\ UNCHANGED <<first, joined>> => Ties' = Ties
  BY <1>1, <1>2 DEF Matching, Mine, Attending, Ties
<1>4. Soonest' = Soonest
  BY <1>1, <1>3 DEF Soonest
<1>5. \A r : Newer(r)' = Newer(r)
  BY <1>1, <1>3 DEF Newer
<1>6. Newest(Mine, RecentRequestsLimit)' = Newest(Mine, RecentRequestsLimit)
  BY <1>1, <1>3 DEF Newest
<1> QED
  BY <1>1, <1>2, <1>3, <1>4, <1>5, <1>6 DEF Rank

LEMMA CountStep ==
    ASSUME ReadsInductive, Count
    PROVE  ReadsInductive'
<1>1. /\ pc = "ready" /\ pc' = "counted" /\ total' = Cardinality(Matching) /\ quiet' = TRUE
      /\ first' = IF offset = 0 THEN Matching ELSE first
      /\ UNCHANGED <<tables, view, offset, active, shown, repeated, joined, left>>
  BY DEF Count
<1>2. /\ UNCHANGED <<clock, profiles, rows, uncommitted>>
      /\ Visible' = Visible /\ Matching' = Matching
      /\ \A r : Rank(r)' = Rank(r)
      /\ offset # 0 => first' = first /\ Ties' = Ties
  BY <1>1, SameTables
<1>3. Matching \in SUBSET Visible /\ Matching \in SUBSET Requests /\ (\A r : Rank(r) \in Nat)
  BY VisibleRows DEF ReadsInductive
<1>4. Begun' /\ (offset = 0 <=> ~Begun)
  BY <1>1 DEF Begun, ReadsInductive, TypeOK
<1>5. TypeOK'
  BY <1>1, <1>2, <1>3, FiniteRequests DEF ReadsInductive, TypeOK
<1>6. OwnersHaveProfiles' /\ Places' /\ Recorded' /\ FreshTotal'
  BY <1>1, <1>2, <1>4
  DEF ReadsInductive, OwnersHaveProfiles, Places, Recorded, FreshTotal
<1>7. NotSkipped'
  BY <1>1, <1>2, <1>3 DEF ReadsInductive, NotSkipped
<1>8. NotRepeated' /\ FewMissed'
  <2>1. CASE offset = 0
    <3>1. shown = {} /\ left = {} /\ ~repeated
      BY <1>4, <2>1 DEF ReadsInductive, Places
    <3>2. Missed' = {}
      BY <1>1, <1>2, <1>3, <2>1 DEF Missed
    <3> QED
      BY <1>1, <3>1, <3>2, FS_EmptySet DEF NotRepeated, FewMissed
  <2>2. CASE offset # 0
    <3>1. Missed' = Missed
      BY <1>1, <1>2, <2>2 DEF Missed
    <3> QED
      BY <1>1, <1>2, <2>2, <3>1 DEF ReadsInductive, NotRepeated, FewMissed, LeavesForGood
  <2> QED
    BY <2>1, <2>2
<1>9. Figures'
  BY <1>1, <1>2, <1>4 DEF ReadsInductive, Places, Figures
<1> QED
  BY <1>5, <1>6, <1>7, <1>8, <1>9 DEF ReadsInductive

LEMMA ListPageStep ==
    ASSUME ReadsInductive, ListPage
    PROVE  ReadsInductive'
<1>1. /\ pc = "counted" /\ view.kind = "list"
      /\ UNCHANGED <<tables, view, total, active, first, joined, left, quiet>>
  BY DEF ListPage
<1>2. PICK page \in Pages :
        /\ shown' = shown \cup page
        /\ repeated' = (repeated \/ page \cap shown # {})
        /\ pc' = IF Last(page) THEN "done" ELSE "ready"
        /\ offset' = IF Last(page) THEN offset ELSE offset + view.limit
  BY DEF ListPage
<1>3. PICK before \in Newest(Matching, offset) : page \in Newest(Matching \ before, view.limit)
  BY <1>2 DEF Pages
<1>4. /\ UNCHANGED <<clock, profiles, rows, uncommitted>>
      /\ Visible' = Visible /\ Matching' = Matching /\ Ties' = Ties
      /\ \A r : Rank(r)' = Rank(r)
  BY <1>1, SameTables
<1>5. Matching \in SUBSET Visible /\ Matching \in SUBSET Requests /\ (\A r : Rank(r) \in Nat)
  BY VisibleRows DEF ReadsInductive
<1>6. offset \in Nat /\ view.limit \in Nat /\ view.limit > 0 /\ view.kind # "dashboard"
  BY <1>1, ViewsAssumption DEF ReadsInductive, TypeOK
<1>7. page \in SUBSET Matching
  <2>1. Matching \ before \in SUBSET Requests
    BY <1>5
  <2> QED
    BY <1>3, <1>6, <2>1, NewestRows
<1>8. ~Ties => /\ \A r \in page : offset <= Rank(r) /\ Rank(r) < offset + view.limit
               /\ \A r \in Matching \ page :
                    Rank(r) >= offset =>
                        Rank(r) >= offset + view.limit /\ Cardinality(page) = view.limit
  <2>1. ~Ties => Apart
    BY <1>1, MatchingApart DEF Begun
  <2> QED
    BY <1>3, <1>6, <2>1, PageRanks DEF ReadsInductive
<1>9. offset' \in Nat /\ offset' >= offset /\ (pc' = "ready" => offset' = offset + view.limit)
  BY <1>2, <1>6
<1>10. Begun /\ Begun'
  BY <1>1, <1>2, <1>6, <1>9 DEF Begun
<1>11. TypeOK'
  BY <1>1, <1>2, <1>4, <1>5, <1>7, <1>9 DEF ReadsInductive, TypeOK
<1>12. OwnersHaveProfiles' /\ Places' /\ Recorded' /\ FreshTotal' /\ Figures'
  BY <1>1, <1>2, <1>4, <1>6, <1>10
  DEF ReadsInductive, OwnersHaveProfiles, Places, Recorded, FreshTotal, Figures
\* A row behind the page keeps a client from stopping, if its total is fresh.
<1>13. ASSUME ~Ties, NEW r \in Matching \ page, Rank(r) >= offset
       PROVE  /\ Rank(r) >= offset + view.limit
              /\ pc' = "done" => view.stop = "total" /\ ~quiet
  <2>1. Rank(r) >= offset + view.limit /\ Cardinality(page) = view.limit
    BY <1>8, <1>13
  <2>2. Rank(r) < Cardinality(Matching)
    <3>1. Newer(r) \subseteq Matching \ {r}
      BY <1>13, VisibleRows DEF ReadsInductive, Newer
    <3>2. /\ Matching \ {r} \in SUBSET Requests
          /\ Cardinality(Matching \ {r}) = Cardinality(Matching) - 1
      BY <1>5, <1>13, FiniteRequests, FS_RemoveElement
    <3>3. Rank(r) <= Cardinality(Matching \ {r})
      BY <3>1, <3>2, FewerRequests DEF Rank
    <3> QED
      BY <1>5, <3>2, <3>3, FiniteRequests
  <2>3. ASSUME Last(page) PROVE view.stop = "total" /\ ~quiet
    <3>1. view.stop = "total" /\ offset + view.limit >= total
      BY <1>6, <2>1, <2>3 DEF Last
    <3>2. quiet => total = Cardinality(Matching)
      BY <1>1 DEF ReadsInductive, FreshTotal
    <3>3. Cardinality(Matching) \in Nat
      BY <1>5, FiniteRequests
    <3> QED
      BY <1>5, <1>6, <2>1, <2>2, <3>1, <3>2, <3>3
  <2> QED
    BY <1>2, <2>1, <2>3
<1>14. NotSkipped'
  <2> SUFFICES ASSUME left = {}, ~Ties, NEW r \in first, r \notin shown, r \notin page
               PROVE  IF pc' = "done" THEN view.stop = "total" /\ ~quiet
                                      ELSE Rank(r) >= offset'
    BY <1>1, <1>2, <1>4 DEF NotSkipped
  <2>1. r \in Matching /\ Rank(r) >= offset
    BY <1>1, <1>10 DEF ReadsInductive, Recorded, NotSkipped
  <2> QED
    BY <1>2, <1>9, <1>13, <2>1
<1>15. FewMissed'
  <2> SUFFICES ASSUME LeavesForGood, ~Ties
               PROVE  /\ pc' # "done" => Cardinality(Missed') <= Cardinality(left)
                      /\ pc' = "done" /\ (view.stop = "total" => quiet) =>
                            Cardinality(first \ (shown' \cup left)) <= Cardinality(left)
    BY <1>1, <1>4 DEF ReadsInductive, FewMissed, LeavesForGood
  <2>1. /\ Missed \in SUBSET Requests /\ left \in SUBSET Requests
        /\ Cardinality(Missed) <= Cardinality(left)
    BY <1>1, <1>5 DEF ReadsInductive, FewMissed, TypeOK, Missed, Visible
  <2>2. ASSUME NEW S \in SUBSET Missed PROVE Cardinality(S) <= Cardinality(left)
    BY <2>1, FewerRequests, FiniteRequests
  <2>3. ASSUME pc' # "done" PROVE Missed' \in SUBSET Missed
    <3>1. ASSUME NEW r \in Missed' PROVE r \in Missed
      <4>1. /\ r \in first \ shown /\ r \in Matching \ page
            /\ Rank(r) < offset + view.limit
        BY <1>1, <1>2, <1>4, <2>3 DEF Missed
      <4>2. Rank(r) < offset
        BY <1>5, <1>6, <1>13, <4>1
      <4> QED
        BY <4>1, <4>2 DEF Missed
    <3> QED
      BY <3>1
  <2>4. ASSUME pc' = "done", view.stop = "total" => quiet
        PROVE  first \ (shown' \cup left) \in SUBSET Missed
    <3>1. ASSUME NEW r \in first \ (shown' \cup left) PROVE r \in Missed
      <4>1. r \in first \ shown /\ r \in Matching \ page
        BY <1>2, <1>10 DEF ReadsInductive, Recorded
      <4>2. Rank(r) < offset
        BY <1>5, <1>6, <1>13, <2>4, <4>1
      <4> QED
        BY <4>1, <4>2 DEF Missed
    <3> QED
      BY <3>1
  <2> QED
    BY <2>2, <2>3, <2>4
<1>16. NotRepeated'
  <2> SUFFICES ASSUME joined = {}, ~Ties
               PROVE  /\ ~repeated'
                      /\ pc' # "done" => \A r \in shown' : Rank(r) < offset'
    BY <1>1, <1>4 DEF NotRepeated
  <2>1. ~repeated /\ \A r \in shown : Rank(r) < offset
    BY <1>1 DEF ReadsInductive, NotRepeated
  <2>2. page \cap shown = {}
    BY <1>5, <1>6, <1>8, <2>1
  <2>3. ASSUME pc' # "done", NEW r \in shown'
        PROVE  Rank(r) < offset'
    <3>1. offset' = offset + view.limit
      BY <1>2, <2>3
    <3> QED
      BY <1>2, <1>5, <1>6, <1>8, <2>1, <3>1
  <2> QED
    BY <1>2, <2>1, <2>2, <2>3
<1> QED
  BY <1>11, <1>12, <1>14, <1>15, <1>16 DEF ReadsInductive

LEMMA FindActiveEventStep ==
    ASSUME ReadsInductive, FindActiveEvent
    PROVE  ReadsInductive'
<1>1. /\ pc = "counted" /\ view.kind = "dashboard"
      /\ active' \in IF Attending = {} THEN {Nil} ELSE Soonest
      /\ pc' = IF active' # Nil /\ view.user \notin profiles THEN "failed" ELSE "active"
      /\ UNCHANGED <<tables, view, offset, total, shown, first, repeated, joined, left, quiet>>
  BY DEF FindActiveEvent
<1>2. /\ UNCHANGED <<clock, profiles, rows, uncommitted>>
      /\ Visible' = Visible /\ Matching' = Matching /\ Attending' = Attending
      /\ Soonest' = Soonest /\ Ties' = Ties
  BY <1>1, SameTables
<1>3. active' = Nil \/ active' \in Attending
  BY <1>1 DEF Soonest
<1>4. active' # Nil => active' \in Visible /\ view.user \in profiles
  BY <1>3 DEF ReadsInductive, OwnersHaveProfiles, Attending, Visible
<1>5. pc' = "active"
  BY <1>1, <1>4
<1>6. TypeOK'
  BY <1>1, <1>2, <1>4, <1>5 DEF ReadsInductive, TypeOK
<1>7. Begun /\ Begun'
  BY <1>1, <1>5 DEF Begun
<1>8. /\ OwnersHaveProfiles' /\ Places' /\ Recorded' /\ NotSkipped' /\ FewMissed'
      /\ NotRepeated' /\ FreshTotal' /\ Figures'
  BY <1>1, <1>2, <1>5, <1>7
  DEF ReadsInductive, OwnersHaveProfiles, Places, Recorded, NotSkipped, FewMissed, NotRepeated,
      FreshTotal, Figures
<1> QED
  BY <1>6, <1>8 DEF ReadsInductive

LEMMA RecentRequestsStep ==
    ASSUME ReadsInductive, RecentRequests
    PROVE  ReadsInductive'
<1>1. /\ pc = "active" /\ pc' = "done" /\ shown' \in Newest(Mine, RecentRequestsLimit)
      /\ UNCHANGED <<tables, view, offset, total, active, first, repeated, joined, left, quiet>>
  BY DEF RecentRequests, Mine
<1>2. /\ UNCHANGED <<clock, profiles, rows, uncommitted>>
      /\ Visible' = Visible /\ Matching' = Matching /\ Attending' = Attending
      /\ Soonest' = Soonest /\ Ties' = Ties
      /\ Newest(Mine, RecentRequestsLimit)' = Newest(Mine, RecentRequestsLimit)
  BY <1>1, SameTables
<1>3. view.kind = "dashboard" /\ view.kind # "list"
  BY <1>1, ViewsAssumption DEF ReadsInductive, TypeOK, Places
<1>4. shown' \subseteq Visible
  BY <1>1 DEF Newest, Mine
<1>5. TypeOK'
  BY <1>1, <1>2, <1>4 DEF ReadsInductive, TypeOK
<1>6. Begun /\ Begun'
  BY <1>1 DEF Begun
<1>7. /\ OwnersHaveProfiles' /\ Places' /\ Recorded' /\ NotSkipped' /\ FewMissed'
      /\ NotRepeated' /\ FreshTotal'
  BY <1>1, <1>2, <1>3, <1>6
  DEF ReadsInductive, OwnersHaveProfiles, Places, Recorded, NotSkipped, FewMissed, NotRepeated,
      FreshTotal
<1>8. Figures'
  BY <1>1, <1>2, <1>3 DEF ReadsInductive, Figures
<1> QED
  BY <1>5, <1>7, <1>8 DEF ReadsInductive

LEMMA AgainStep ==
    ASSUME ReadsInductive, Again
    PROVE  ReadsInductive'
<1>1. /\ pc' = "ready" /\ offset' = 0 /\ total' = 0 /\ active' = Nil
      /\ shown' = {} /\ first' = {} /\ joined' = {} /\ left' = {}
      /\ quiet' = TRUE /\ repeated' = FALSE
      /\ UNCHANGED <<tables, view>>
  BY DEF Again
<1>2. UNCHANGED <<clock, profiles, rows, uncommitted>> /\ Visible' = Visible
  BY <1>1, SameTables
<1>3. 0 \in 0..Cardinality(Requests) /\ ~Begun'
  BY <1>1, FiniteRequests DEF Begun
<1>4. TypeOK'
  BY <1>1, <1>2, <1>3 DEF ReadsInductive, TypeOK
<1>5. FewMissed'
  <2>1. Missed' = {} /\ left' = {} /\ pc' # "done"
    BY <1>1 DEF Missed
  <2> QED
    BY <2>1, FS_EmptySet DEF FewMissed
<1> QED
  BY <1>1, <1>2, <1>3, <1>4, <1>5
  DEF ReadsInductive, OwnersHaveProfiles, Places, Recorded, NotSkipped, NotRepeated,
      FreshTotal, Figures

LEMMA ReadsStep ==
    ASSUME ReadsInductive, [Next]_vars
    PROVE  ReadsInductive'
<1>1. ASSUME UNCHANGED vars PROVE ReadsInductive'
  <2>1. /\ UNCHANGED <<tables, view>>
        /\ UNCHANGED <<pc, offset, total, active, shown, first, repeated, joined, left, quiet>>
    BY <1>1 DEF vars, answer
  <2>2. /\ UNCHANGED <<clock, profiles, rows, uncommitted>>
        /\ Visible' = Visible /\ Matching' = Matching /\ Attending' = Attending
        /\ Soonest' = Soonest /\ Ties' = Ties /\ (\A r : Rank(r)' = Rank(r))
        /\ Newest(Mine, RecentRequestsLimit)' = Newest(Mine, RecentRequestsLimit)
    BY <2>1, SameTables
  <2>3. TypeOK' /\ Begun' = Begun
    BY <2>1, <2>2 DEF ReadsInductive, TypeOK, Begun
  <2>4. FewMissed'
    BY <2>1, <2>2 DEF ReadsInductive, FewMissed, LeavesForGood, Missed
  <2> QED
    BY <2>1, <2>2, <2>3, <2>4
    DEF ReadsInductive, OwnersHaveProfiles, Places, Recorded, NotSkipped, NotRepeated,
        FreshTotal, Figures
<1>2. Writer /\ pc # "done" => ReadsInductive'
  BY WriterStep
<1> QED
  BY <1>1, <1>2, AgainStep, CountStep, ListPageStep, FindActiveEventStep, RecentRequestsStep
  DEF Next, Reader

LEMMA ReadsInit == Init => ReadsInductive
<1> SUFFICES ASSUME Init PROVE ReadsInductive
  OBVIOUS
<1> DEFINE seed == [status |-> "confirmed", event |-> SeedEvent,
                    attendee |-> SeedAttendee, created_at |-> 0]
<1>1. seed \in Row /\ seed.attendee = SeedAttendee
  BY ReadsAssumption DEF Row, Statuses
<1>2. /\ rows = [r \in Requests |-> IF r = Seeded THEN seed ELSE Nil]
      /\ uncommitted = {} /\ clock = 1 /\ profiles = {SeedAttendee} /\ view \in Views
      /\ pc = "ready" /\ offset = 0 /\ total = 0 /\ active = Nil
      /\ shown = {} /\ first = {} /\ joined = {} /\ left = {}
      /\ quiet = TRUE /\ repeated = FALSE
  BY DEF Init
<1> HIDE DEF seed
<1>3. 0 \in 0..Cardinality(Requests) /\ ~Begun
  BY <1>2, FiniteRequests DEF Begun
<1>4. TypeOK
  <2>1. rows \in [Requests -> Row \cup {Nil}]
    BY <1>1, <1>2
  <2>2. clock \in 0..MaxTime /\ profiles \subseteq Attendees
    BY <1>2, ReadsAssumption
  <2> QED
    BY <1>2, <1>3, <2>1, <2>2 DEF TypeOK
<1>5. FewMissed
  <2>1. Missed = {} /\ left = {} /\ pc # "done"
    BY <1>2 DEF Missed
  <2> QED
    BY <2>1, FS_EmptySet DEF FewMissed
<1> QED
  BY <1>1, <1>2, <1>3, <1>4, <1>5
  DEF ReadsInductive, OwnersHaveProfiles, Places, Recorded, NotSkipped, NotRepeated,
      FreshTotal, Figures

-----------------------------------------------------------------------------
(* The theorems.                                                           *)

\* The invariant of the readers is inductive, whatever is written meanwhile.
THEOREM ReadsSafe == Spec => []ReadsInductive
BY ReadsInit, ReadsStep, PTL DEF Spec

\* Tables and answers keep their types, and an answer shows committed rows
\* only (list_requests, get_attendee_dashboard at READ COMMITTED).
THEOREM ReadsTypes == Spec => []TypeOK
<1>1. ReadsInductive => TypeOK
  BY DEF ReadsInductive
<1> QED
  BY <1>1, ReadsSafe, PTL

\* For any number of requests and any page size, a client that reads the list
\* to the end misses at most one request for each that left its filter, ties and
\* a stale total apart, and sees one twice only if another came to match
\* (list_requests: ORDER BY created_at, OFFSET, LIMIT).
THEOREM PagesAreExplained == Spec => []PagesExplained
<1>1. ReadsInductive => PagesExplained
  BY DEF ReadsInductive, NotSkipped, FewMissed, NotRepeated, PagesExplained
<1> QED
  BY <1>1, ReadsSafe, PTL

\* The dashboard's pending count and the recent requests below it differ by
\* exactly what happened in between, for any number of requests and any number
\* shown (get_attendee_dashboard).
THEOREM FiguresMatch == Spec => []FiguresAddUp
<1>1. ReadsInductive => FiguresAddUp
  <2> SUFFICES ASSUME ReadsInductive, view.kind = "dashboard", pc = "done"
               PROVE  /\ Pending \cap left = {}
                      /\ Cardinality(Pending) <= total + Cardinality(joined)
                      /\ Cardinality(shown) < RecentRequestsLimit =>
                            total <= Cardinality(Pending) + Cardinality(left)
    BY DEF FiguresAddUp
  <2>1. view.role = "attendee" /\ view.status = "pending"
    BY ViewsAssumption DEF ReadsInductive, TypeOK
  <2>2. /\ total = Cardinality(first) /\ shown \in Newest(Mine, RecentRequestsLimit)
        /\ \A r \in left : rows[r].status # "pending"
    BY DEF ReadsInductive, Figures
  <2>3. first \subseteq Matching \cup left /\ Matching \subseteq first \cup joined
    BY DEF ReadsInductive, Recorded, Begun
  <2>4. Matching = {r \in Mine : rows[r].status = "pending"}
    BY <2>1, NilAssumption DEF Matching, Mine, Statuses
  <2>5. /\ Mine \in SUBSET Requests /\ Matching \in SUBSET Requests
        /\ first \in SUBSET Requests /\ joined \in SUBSET Requests /\ left \in SUBSET Requests
    BY VisibleRows DEF ReadsInductive, TypeOK
  <2>6. /\ shown \in SUBSET Mine
        /\ shown = Mine \/ Cardinality(shown) = RecentRequestsLimit
    BY <2>2, <2>5, NewestRows, ReadsAssumption
  <2>7. Pending \in SUBSET Matching /\ Pending \in SUBSET Requests
    BY <2>4, <2>5, <2>6 DEF Pending
  <2>8. Cardinality(Pending) <= total + Cardinality(joined)
    <3>1. Cardinality(Pending) <= Cardinality(first \cup joined)
      <4>1. first \cup joined \in SUBSET Requests /\ Pending \in SUBSET (first \cup joined)
        BY <2>3, <2>5, <2>7
      <4> QED
        BY <4>1, FewerRequests
    <3>2. Cardinality(first \cup joined) <= Cardinality(first) + Cardinality(joined)
      BY <2>5, UnionBound
    <3>3. first \cup joined \in SUBSET Requests
      BY <2>5
    <3>4. /\ Cardinality(Pending) \in Nat /\ Cardinality(first \cup joined) \in Nat
          /\ Cardinality(first) \in Nat /\ Cardinality(joined) \in Nat
      BY <2>5, <2>7, <3>3, FiniteRequests
    <3> QED
      BY <2>2, <3>1, <3>2, <3>4
  <2>9. ASSUME Cardinality(shown) < RecentRequestsLimit
        PROVE  total <= Cardinality(Pending) + Cardinality(left)
    <3>1. shown = Mine
      BY <2>6, <2>9, ReadsAssumption
    <3>2. Pending = Matching
      BY <2>4, <3>1 DEF Pending
    <3>3. Pending \cup left \in SUBSET Requests /\ first \in SUBSET (Pending \cup left)
      BY <2>3, <2>5, <3>2
    <3>4. Cardinality(first) <= Cardinality(Pending \cup left)
      BY <3>3, FewerRequests
    <3>5. Cardinality(Pending \cup left) <= Cardinality(Pending) + Cardinality(left)
      BY <2>5, <2>7, UnionBound
    <3>6. /\ Cardinality(Pending) \in Nat /\ Cardinality(Pending \cup left) \in Nat
          /\ Cardinality(first) \in Nat /\ Cardinality(left) \in Nat
      BY <2>5, <2>7, <3>3, FiniteRequests
    <3> QED
      BY <2>2, <3>4, <3>5, <3>6
  <2> QED
    BY <2>2, <2>8, <2>9 DEF Pending
<1> QED
  BY <1>1, ReadsSafe, PTL

\* While nobody writes, the dashboard's parts fit together: the active event is
\* the soonest of those shown, and its request is among them if there is room.
THEOREM QuietDashboards == Spec => []QuietDashboardIsOnePicture
<1>1. ReadsInductive => QuietDashboardIsOnePicture
  <2> SUFFICES ASSUME ReadsInductive, view.kind = "dashboard", pc = "done", quiet
               PROVE  QuietDashboardIsOnePicture
    BY DEF QuietDashboardIsOnePicture
  <2>1. /\ shown \in Newest(Mine, RecentRequestsLimit)
        /\ active \in IF Attending = {} THEN {Nil} ELSE Soonest
    BY DEF ReadsInductive, Figures
  <2>2. /\ Mine \in SUBSET Requests /\ Mine \in SUBSET Visible
        /\ Attending \subseteq Mine /\ Nil \notin Attending /\ Soonest \subseteq Attending
    BY VisibleRows, NilAssumption DEF ReadsInductive, Attending, Mine, Soonest
  <2>3. /\ shown \in SUBSET Mine
        /\ shown = Mine \/ Cardinality(shown) = RecentRequestsLimit
    BY <2>1, <2>2, NewestRows, ReadsAssumption
  <2>4. active # Nil => \/ active \in shown /\ rows[active].status = "confirmed"
                        \/ active \notin shown /\ Cardinality(shown) = RecentRequestsLimit
    BY <2>1, <2>2, <2>3 DEF Attending
  <2>5. ASSUME NEW r \in shown, rows[r].status = "confirmed",
               Event[rows[r].event].status = "upcoming"
        PROVE  /\ active # Nil
               /\ Event[rows[active].event].starts_at <= Event[rows[r].event].starts_at
    <3>1. r \in Attending
      BY <2>2, <2>3, <2>5 DEF Attending, Mine
    <3>2. active \in Soonest /\ active \in Attending
      BY <2>1, <2>2, <3>1
    <3>3. rows[r].event \in Events /\ rows[active].event \in Events
      BY <2>2, <3>1, <3>2, VisibleRows DEF ReadsInductive, Row
    <3>4. Event[rows[r].event].starts_at \in Int /\ Event[rows[active].event].starts_at \in Int
      BY <3>3, ReadsAssumption
    <3> QED
      BY <2>2, <3>1, <3>2, <3>4 DEF Soonest
  <2> QED
    BY <2>4, <2>5 DEF QuietDashboardIsOnePicture
<1> QED
  BY <1>1, ReadsSafe, PTL

\* The dashboard always answers: its active event belongs to a request, whose
\* attendee has a profile to match (get_attendee_dashboard, calculate_match).
THEOREM DashboardsAnswer == Spec => []DashboardAnswers
<1>1. ReadsInductive => DashboardAnswers
  BY DEF ReadsInductive, Places, DashboardAnswers
<1> QED
  BY <1>1, ReadsSafe, PTL
=============================================================================
