---------------------------- MODULE PlatformProofs ----------------------------
(***************************************************************************)
(* Theorems about what surrounds the handlers: the thread and connection   *)
(* pools every call goes through (ConnectionPool), for any number of       *)
(* calls, threads and connections, and start.sh (Startup), for any number  *)
(* of instances and of kills.                                              *)
(*                                                                         *)
(* The pools.  The invariant says where every call is: on a thread, once   *)
(* in the queue, closing, or not there at all.  A standstill then needs as *)
(* many calls in flight as both pools have places; and whoever is turned   *)
(* away meets a pool whose connections are all in use by others.           *)
(*                                                                         *)
(* The start.  Two transactions order everything: one upgrade moves the    *)
(* schema to its head, one seed puts all demo rows in.  Before the seed    *)
(* commits, an instance that seeds has inserted exactly the groups before  *)
(* its own, and holds their keys; the first table alone keeps every other  *)
(* instance from getting past it.  After, nobody finds anything missing,   *)
(* save who looked before.  So each of the two transactions can stop an    *)
(* instance once.                                                          *)
(***************************************************************************)
EXTENDS ConnectionPool, Startup, FiniteSetTheorems, TLAPS

-----------------------------------------------------------------------------
(* The pools.                                                              *)

Queued == {"open", "authenticate", "work"}
OnThread == Queued \cup {"reread"}

\* Nobody is in the queue twice, and nobody in it is on a thread.
QueueOnce ==
    /\ \A i \in 1..Len(queue) : stage[queue[i]] \in Queued /\ queue[i] \notin running
    /\ \A i, j \in 1..Len(queue) : queue[i] = queue[j] => i = j

\* A call in flight that is not closing is on a thread or in the queue.
SomewhereElse ==
    /\ \A c \in running : stage[c] \in OnThread
    /\ \A c \in Calls : \/ stage[c] \in {"idle", "close"}
                        \/ c \in running
                        \/ \E i \in 1..Len(queue) : queue[i] = c

\* A connection belongs to a call in flight.
HeldInFlight == \A c \in connected : stage[c] # "idle"

\* Only some calls commit, and answers that are committed have been given.
AnswerGiven ==
    \A c \in committed :
        /\ Kind[c] \in {"answer", "publish", "register"}
        /\ Kind[c] = "answer" => stage[c] = "close" /\ reply[c] = "ok"

PoolInductive == PoolTypeOK /\ QueueOnce /\ SomewhereElse /\ HeldInFlight /\ AnswerGiven

-----------------------------------------------------------------------------
LEMMA FiniteCalls ==
    ASSUME NEW S \in SUBSET Calls
    PROVE  IsFiniteSet(S) /\ Cardinality(S) \in Nat
BY FS_Subset, FS_CardinalityType, PoolAssumption

LEMMA AppendQueue ==
    ASSUME NEW q \in Seq(Calls), NEW c \in Calls
    PROVE  /\ Append(q, c) \in Seq(Calls)
           /\ Len(q) \in Nat /\ Len(Append(q, c)) = Len(q) + 1
           /\ \A i \in 1..Len(q) : Append(q, c)[i] = q[i]
           /\ Append(q, c)[Len(q) + 1] = c
OBVIOUS

LEMMA TailQueue ==
    ASSUME NEW q \in Seq(Calls), q # <<>>
    PROVE  /\ Head(q) \in Calls /\ Head(q) = q[1]
           /\ Tail(q) \in Seq(Calls)
           /\ Len(q) \in Nat /\ Len(q) > 0 /\ Len(Tail(q)) = Len(q) - 1
           /\ \A i \in 1..Len(Tail(q)) : i + 1 \in 1..Len(q) /\ Tail(q)[i] = q[i + 1]
OBVIOUS

\* A call joins the queue, off a thread or from outside.
LEMMA Joins ==
    ASSUME PoolInductive, NEW c \in Calls, NEW s \in Queued,
           \A i \in 1..Len(queue) : queue[i] # c,
           stage' = [stage EXCEPT ![c] = s],
           running' = running \ {c}, queue' = Append(queue, c)
    PROVE  QueueOnce' /\ SomewhereElse'
<1>1. /\ queue \in Seq(Calls) /\ stage \in [Calls -> Stages] /\ running \subseteq Calls
      /\ \A i \in 1..Len(queue) : queue[i] \in Calls
  BY DEF PoolInductive, PoolTypeOK, InFlight
<1>2. /\ Len(queue) \in Nat /\ Len(queue') = Len(queue) + 1
      /\ \A i \in 1..Len(queue) : queue'[i] = queue[i]
      /\ queue'[Len(queue) + 1] = c
  BY <1>1, AppendQueue
<1>3. stage'[c] = s /\ \A d \in Calls : d # c => stage'[d] = stage[d]
  BY <1>1
<1>4. \A i \in 1..Len(queue') : i \in 1..Len(queue) \/ i = Len(queue) + 1
  BY <1>2
<1>5. QueueOnce'
  <2>1. \A i \in 1..Len(queue') : stage'[queue'[i]] \in Queued /\ queue'[i] \notin running'
    BY <1>1, <1>2, <1>3, <1>4 DEF PoolInductive, QueueOnce
  <2>2. \A i, j \in 1..Len(queue') : queue'[i] = queue'[j] => i = j
    BY <1>2, <1>4 DEF PoolInductive, QueueOnce
  <2> QED BY <2>1, <2>2 DEF QueueOnce
<1>6. SomewhereElse'
  <2>1. \A d \in running' : stage'[d] \in OnThread
    BY <1>1, <1>3 DEF PoolInductive, SomewhereElse
  <2>2. ASSUME NEW d \in Calls
        PROVE  \/ stage'[d] \in {"idle", "close"} \/ d \in running'
               \/ \E i \in 1..Len(queue') : queue'[i] = d
    <3>1. CASE d = c
      <4>1. Len(queue) + 1 \in 1..Len(queue')
        BY <1>2
      <4> QED BY <1>2, <3>1, <4>1
    <3>2. CASE d # c
      <4>1. 1..Len(queue) \subseteq 1..Len(queue')
        BY <1>2
      <4> QED BY <1>2, <1>3, <3>2, <4>1 DEF PoolInductive, SomewhereElse
    <3> QED BY <3>1, <3>2
  <2> QED BY <2>1, <2>2 DEF SomewhereElse
<1> QED BY <1>5, <1>6

\* A call that is not in the queue moves on without it.
LEMMA Moves ==
    ASSUME PoolInductive, NEW c \in Calls, NEW s \in Stages,
           \A i \in 1..Len(queue) : queue[i] # c,
           stage' = [stage EXCEPT ![c] = s], UNCHANGED queue,
           \/ s \in {"idle", "close"} /\ running' = running \ {c}
           \/ s \in OnThread /\ c \in running /\ running' = running
    PROVE  QueueOnce' /\ SomewhereElse'
<1>1. /\ queue \in Seq(Calls) /\ stage \in [Calls -> Stages] /\ running \subseteq Calls
      /\ \A i \in 1..Len(queue) : queue[i] \in Calls
  BY DEF PoolInductive, PoolTypeOK, InFlight
<1>2. stage'[c] = s /\ \A d \in Calls : d # c => stage'[d] = stage[d]
  BY <1>1
<1>3. QueueOnce'
  BY <1>1, <1>2 DEF PoolInductive, QueueOnce
<1>4. SomewhereElse'
  BY <1>1, <1>2 DEF PoolInductive, SomewhereElse
<1> QED BY <1>3, <1>4

LEMMA RunnerNotQueued ==
    ASSUME PoolInductive, NEW c \in Calls, c \in running \/ stage[c] \in {"idle", "close"}
    PROVE  \A i \in 1..Len(queue) : queue[i] # c
BY DEF PoolInductive, QueueOnce, Queued

-----------------------------------------------------------------------------
LEMMA GetThreadStep ==
    ASSUME PoolInductive, GetThread
    PROVE  PoolInductive'
<1> DEFINE c == Head(queue)
<1>1. /\ c \in Calls /\ c = queue[1] /\ 1 \in 1..Len(queue)
      /\ queue' \in Seq(Calls) /\ Len(queue) \in Nat /\ Len(queue') = Len(queue) - 1
      /\ \A i \in 1..Len(queue') : i + 1 \in 1..Len(queue) /\ queue'[i] = queue[i + 1]
  BY TailQueue DEF GetThread, PoolInductive, PoolTypeOK
<1>2. stage[c] \in Queued /\ c \notin running
  BY <1>1 DEF PoolInductive, QueueOnce
<1>3. running' = running \cup {c} /\ UNCHANGED <<stage, connected, committed, reply>>
  BY DEF GetThread
<1> HIDE DEF c
<1>4. Cardinality(running') <= Threads
  <2>1. running \in SUBSET Calls
    BY DEF PoolInductive, PoolTypeOK, InFlight
  <2>2. Cardinality(running') = Cardinality(running) + 1
    BY <1>2, <1>3, <2>1, FiniteCalls, FS_AddElement
  <2>3. Cardinality(running) \in Nat /\ Cardinality(running) < Threads
    BY <2>1, FiniteCalls DEF GetThread
  <2> QED BY <2>2, <2>3, PoolAssumption
<1>5. PoolTypeOK'
  BY <1>1, <1>2, <1>3, <1>4 DEF PoolInductive, PoolTypeOK, InFlight, Queued
<1>6. QueueOnce'
  <2>1. \A i \in 1..Len(queue') : queue'[i] # c
    BY <1>1 DEF PoolInductive, QueueOnce
  <2>2. \A i \in 1..Len(queue') : stage'[queue'[i]] \in Queued /\ queue'[i] \notin running'
    BY <1>1, <1>3, <2>1 DEF PoolInductive, QueueOnce
  <2>3. ASSUME NEW i \in 1..Len(queue'), NEW j \in 1..Len(queue'), queue'[i] = queue'[j]
        PROVE  i = j
    <3>1. i + 1 = j + 1
      BY <1>1, <2>3 DEF PoolInductive, QueueOnce
    <3> QED BY <1>1, <3>1
  <2> QED BY <2>2, <2>3 DEF QueueOnce
<1>7. SomewhereElse'
  <2>1. \A d \in running' : stage'[d] \in OnThread
    BY <1>2, <1>3 DEF PoolInductive, SomewhereElse, OnThread
  <2>2. ASSUME NEW d \in Calls, NEW i \in 1..Len(queue), queue[i] = d, d # c
        PROVE  \E j \in 1..Len(queue') : queue'[j] = d
    <3>1. i # 1
      BY <1>1, <2>2
    <3>2. i - 1 \in 1..Len(queue') /\ (i - 1) + 1 = i
      BY <1>1, <3>1
    <3>3. queue'[i - 1] = queue[(i - 1) + 1]
      BY <1>1, <3>2
    <3> QED BY <2>2, <3>2, <3>3
  <2> QED BY <1>3, <2>1, <2>2 DEF PoolInductive, SomewhereElse
<1> QED BY <1>3, <1>5, <1>6, <1>7 DEF PoolInductive, HeldInFlight, AnswerGiven

\* Giving back a thread or a connection keeps within the limits.
LEMMA Shrinks ==
    ASSUME PoolTypeOK, NEW R, NEW S, R \subseteq running, S \subseteq connected
    PROVE  Cardinality(R) <= Threads /\ Cardinality(S) <= Connections
<1>1. running \in SUBSET Calls /\ connected \in SUBSET Calls
  BY DEF PoolTypeOK, InFlight
<1>2. Cardinality(R) <= Cardinality(running) /\ Cardinality(S) <= Cardinality(connected)
  BY <1>1, FiniteCalls, FS_Subset
<1>3. /\ Cardinality(R) \in Nat /\ Cardinality(S) \in Nat
      /\ Cardinality(running) \in Nat /\ Cardinality(connected) \in Nat
  <2>1. R \in SUBSET Calls /\ S \in SUBSET Calls
    BY <1>1
  <2> QED BY <1>1, <2>1, FiniteCalls
<1>4. Threads \in Nat /\ Connections \in Nat
  BY PoolAssumption DEF Connections
<1> QED BY <1>2, <1>3, <1>4 DEF PoolTypeOK

LEMMA ArriveStep ==
    ASSUME PoolInductive, NEW c \in Calls, Arrive(c)
    PROVE  PoolInductive'
<1> DEFINE s == IF Kind[c] = "health" THEN "work" ELSE "open"
<1>1. /\ stage[c] = "idle" /\ stage' = [stage EXCEPT ![c] = s] /\ queue' = Append(queue, c)
      /\ UNCHANGED <<running, connected, committed, reply>> /\ s \in Queued
  BY DEF Arrive, Goto, Queued
<1> HIDE DEF s
<1>2. c \notin running
  BY <1>1 DEF PoolInductive, SomewhereElse, OnThread, Queued
<1>3. running' = running \ {c}
  BY <1>1, <1>2
<1>4. QueueOnce' /\ SomewhereElse'
  <2>1. \A i \in 1..Len(queue) : queue[i] # c
    BY <1>1, RunnerNotQueued
  <2> QED BY <1>1, <1>3, <2>1, Joins
<1>5. queue' \in Seq(Calls)
  BY <1>1, AppendQueue DEF PoolInductive, PoolTypeOK
<1>6. stage' \in [Calls -> Stages] /\ \A d \in Calls : d # c => stage'[d] = stage[d]
  BY <1>1 DEF PoolInductive, PoolTypeOK, Queued, Stages
<1>7. stage'[c] = s
  BY <1>1 DEF PoolInductive, PoolTypeOK
<1>8. PoolTypeOK'
  BY <1>1, <1>2, <1>5, <1>6 DEF PoolInductive, PoolTypeOK, InFlight
<1>9. HeldInFlight' /\ AnswerGiven'
  BY <1>1, <1>6, <1>7 DEF PoolInductive, PoolTypeOK, HeldInFlight, AnswerGiven, Queued
<1> QED BY <1>4, <1>8, <1>9 DEF PoolInductive

\* Open and Authenticate: from its thread to the queue for the next one.
LEMMA NextThreadStep ==
    ASSUME PoolInductive, NEW c \in running, stage[c] # "close", NEW s \in Queued,
           NextThread(c, s), UNCHANGED <<connected, committed, reply>>
    PROVE  PoolInductive'
<1>1. /\ stage' = [stage EXCEPT ![c] = s] /\ running' = running \ {c}
      /\ queue' = Append(queue, c) /\ c \in Calls
  BY DEF NextThread, Goto, PoolInductive, PoolTypeOK, InFlight
<1>2. QueueOnce' /\ SomewhereElse'
  <2>1. \A i \in 1..Len(queue) : queue[i] # c
    BY <1>1, RunnerNotQueued
  <2> QED BY <1>1, <2>1, Joins
<1>3. queue' \in Seq(Calls)
  BY <1>1, AppendQueue DEF PoolInductive, PoolTypeOK
<1>4. /\ stage' \in [Calls -> Stages] /\ stage'[c] = s
      /\ \A d \in Calls : d # c => stage'[d] = stage[d]
  BY <1>1 DEF PoolInductive, PoolTypeOK, Queued, Stages
<1>5. Cardinality(running') <= Threads
  BY <1>1, Shrinks DEF PoolInductive
<1>6. PoolTypeOK'
  BY <1>1, <1>3, <1>4, <1>5 DEF PoolInductive, PoolTypeOK, InFlight
<1>7. HeldInFlight' /\ AnswerGiven'
  BY <1>4 DEF PoolInductive, PoolTypeOK, HeldInFlight, AnswerGiven, Queued
<1> QED BY <1>2, <1>6, <1>7 DEF PoolInductive

\* The answer is sent: every way a call can end its work.
LEMMA ReplyStep ==
    ASSUME PoolInductive, NEW c \in running, stage[c] # "close", NEW outcome \in Replies,
           Reply(c, outcome), connected' \subseteq connected,
           \/ committed' = committed
           \/ /\ committed' = committed \cup {c} /\ outcome = "ok"
              /\ Kind[c] \in {"answer", "publish", "register"}
    PROVE  PoolInductive'
<1>1. /\ stage' = [stage EXCEPT ![c] = "close"] /\ running' = running \ {c}
      /\ reply' = [reply EXCEPT ![c] = outcome] /\ UNCHANGED queue /\ c \in Calls
  BY DEF Reply, Goto, PoolInductive, PoolTypeOK, InFlight
<1>2. QueueOnce' /\ SomewhereElse'
  <2>1. \A i \in 1..Len(queue) : queue[i] # c
    BY <1>1, RunnerNotQueued
  <2>2. "close" \in Stages
    BY DEF Stages
  <2> QED BY <1>1, <2>1, <2>2, Moves
<1>3. /\ stage' \in [Calls -> Stages] /\ stage'[c] = "close"
      /\ \A d \in Calls : d # c => stage'[d] = stage[d]
  BY <1>1 DEF PoolInductive, PoolTypeOK, Stages
<1>4. /\ reply' \in [Calls -> Replies] /\ reply'[c] = outcome
      /\ \A d \in Calls : d # c => reply'[d] = reply[d]
  BY <1>1 DEF PoolInductive, PoolTypeOK
<1>5. Cardinality(running') <= Threads /\ Cardinality(connected') <= Connections
  BY <1>1, Shrinks DEF PoolInductive
<1>6. PoolTypeOK'
  BY <1>1, <1>3, <1>4, <1>5 DEF PoolInductive, PoolTypeOK, InFlight
<1>7. HeldInFlight'
  BY <1>3 DEF PoolInductive, PoolTypeOK, HeldInFlight
<1>8. AnswerGiven'
  BY <1>1, <1>3, <1>4 DEF PoolInductive, PoolTypeOK, AnswerGiven
<1> QED BY <1>2, <1>6, <1>7, <1>8 DEF PoolInductive

LEMMA CheckOutStep ==
    ASSUME PoolInductive, NEW c \in Calls, CheckOut(c)
    PROVE  PoolInductive'
<1>1. /\ c \in running /\ c \notin connected /\ connected' = connected \cup {c}
      /\ Cardinality(connected) < Connections
      /\ UNCHANGED <<stage, queue, running, committed, reply>>
  BY DEF CheckOut, Waiting
<1>2. Cardinality(connected') <= Connections
  <2>1. connected \in SUBSET Calls
    BY DEF PoolInductive, PoolTypeOK
  <2>2. IsFiniteSet(connected) /\ Cardinality(connected) \in Nat
    BY <2>1, FiniteCalls
  <2>3. Cardinality(connected') = Cardinality(connected) + 1
    BY <1>1, <2>2, FS_AddElement
  <2>4. Connections \in Nat
    BY PoolAssumption DEF Connections
  <2> QED BY <1>1, <2>2, <2>3, <2>4
<1>3. PoolTypeOK'
  BY <1>1, <1>2 DEF PoolInductive, PoolTypeOK, InFlight
<1>4. HeldInFlight'
  BY <1>1 DEF PoolInductive, PoolTypeOK, InFlight, HeldInFlight
<1> QED BY <1>1, <1>3, <1>4 DEF PoolInductive, QueueOnce, SomewhereElse, AnswerGiven

LEMMA CommitStep ==
    ASSUME PoolInductive, NEW c \in Calls, Commit(c)
    PROVE  PoolInductive'
<1>1. /\ c \in running /\ stage[c] = "work"
      /\ committed' = committed \cup {c} /\ connected' = connected \ {c}
      /\ Kind[c] \in {"answer", "publish", "register"}
  BY DEF Commit
<1>2. CASE Kind[c] = "answer"
  <2>1. Reply(c, "ok")
    BY <1>2 DEF Commit
  <2> QED BY <1>1, <2>1, ReplyStep DEF Replies
<1>3. CASE Kind[c] # "answer"
  <2>1. stage' = [stage EXCEPT ![c] = "reread"] /\ UNCHANGED <<queue, running, reply>>
    BY <1>3 DEF Commit, Goto
  <2>2. QueueOnce' /\ SomewhereElse'
    <3>1. \A i \in 1..Len(queue) : queue[i] # c
      BY <1>1, RunnerNotQueued
    <3>2. "reread" \in Stages /\ "reread" \in OnThread
      BY DEF Stages, OnThread
    <3> QED BY <1>1, <2>1, <3>1, <3>2, Moves
  <2>3. /\ stage' \in [Calls -> Stages] /\ stage'[c] = "reread"
        /\ \A d \in Calls : d # c => stage'[d] = stage[d]
    BY <2>1 DEF PoolInductive, PoolTypeOK, Stages
  <2>4. Cardinality(connected') <= Connections
    BY <1>1, Shrinks DEF PoolInductive
  <2>5. PoolTypeOK'
    BY <1>1, <2>1, <2>3, <2>4 DEF PoolInductive, PoolTypeOK, InFlight
  <2>6. HeldInFlight' /\ AnswerGiven'
    BY <1>1, <1>3, <2>1, <2>3 DEF PoolInductive, PoolTypeOK, HeldInFlight, AnswerGiven
  <2> QED BY <2>2, <2>5, <2>6 DEF PoolInductive
<1> QED BY <1>2, <1>3

LEMMA CloseStep ==
    ASSUME PoolInductive, NEW c \in Calls, Close(c)
    PROVE  PoolInductive'
<1>1. /\ stage[c] = "close" /\ stage' = [stage EXCEPT ![c] = "idle"]
      /\ connected' = connected \ {c} /\ committed' = committed \ {c}
      /\ reply' = [reply EXCEPT ![c] = "none"] /\ UNCHANGED <<queue, running>>
  BY DEF Close, Goto
<1>2. c \notin running /\ running' = running \ {c}
  BY <1>1 DEF PoolInductive, SomewhereElse, OnThread, Queued
<1>3. QueueOnce' /\ SomewhereElse'
  <2>1. \A i \in 1..Len(queue) : queue[i] # c
    BY <1>1, RunnerNotQueued
  <2>2. "idle" \in Stages
    BY DEF Stages
  <2> QED BY <1>1, <1>2, <2>1, <2>2, Moves
<1>4. /\ stage' \in [Calls -> Stages]
      /\ \A d \in Calls : d # c => stage'[d] = stage[d] /\ reply'[d] = reply[d]
  BY <1>1 DEF PoolInductive, PoolTypeOK, Stages
<1>5. reply' \in [Calls -> Replies]
  BY <1>1 DEF PoolInductive, PoolTypeOK, Replies
<1>6. Cardinality(connected') <= Connections
  BY <1>1, Shrinks DEF PoolInductive
<1>7. PoolTypeOK'
  BY <1>1, <1>2, <1>4, <1>5, <1>6 DEF PoolInductive, PoolTypeOK, InFlight
<1>8. HeldInFlight' /\ AnswerGiven'
  BY <1>1, <1>4 DEF PoolInductive, PoolTypeOK, HeldInFlight, AnswerGiven
<1> QED BY <1>3, <1>7, <1>8 DEF PoolInductive

LEMMA PoolSteps ==
    ASSUME PoolInductive, [PoolNext]_poolVars
    PROVE  PoolInductive'
<1>1. ASSUME GetThread PROVE PoolInductive'
  BY <1>1, GetThreadStep
<1>2. ASSUME NEW c \in Calls, Arrive(c) PROVE PoolInductive'
  BY <1>2, ArriveStep
<1>3. ASSUME NEW c \in Calls, Open(c) PROVE PoolInductive'
  <2>1. /\ c \in running /\ stage[c] # "close" /\ UNCHANGED <<connected, committed, reply>>
        /\ \E s \in Queued : NextThread(c, s)
    BY <1>3 DEF Open, Queued
  <2> QED BY <2>1, NextThreadStep
<1>4. ASSUME NEW c \in Calls, CheckOut(c) PROVE PoolInductive'
  BY <1>4, CheckOutStep
<1>5. ASSUME NEW c \in Calls, Authenticate(c) PROVE PoolInductive'
  <2>1. c \in running /\ stage[c] # "close" /\ UNCHANGED <<connected, committed>>
    BY <1>5 DEF Authenticate
  <2>2. \/ NextThread(c, "work") /\ UNCHANGED reply
        \/ Reply(c, "refused")
    BY <1>5 DEF Authenticate
  <2>3. "work" \in Queued /\ "refused" \in Replies
    BY DEF Queued, Replies
  <2> QED BY <2>1, <2>2, <2>3, NextThreadStep, ReplyStep
<1>6. ASSUME NEW c \in Calls, Timeout(c) \/ RejectToken(c) \/ Read(c) \/ Refuse(c)
      PROVE  PoolInductive'
  <2>1. c \in running /\ stage[c] # "close" /\ UNCHANGED <<connected, committed>>
    BY <1>6 DEF Timeout, RejectToken, Read, Refuse, Waiting
  <2>2. \E outcome \in Replies : Reply(c, outcome)
    BY <1>6 DEF Timeout, RejectToken, Read, Refuse, Replies
  <2> QED BY <2>1, <2>2, ReplyStep
<1>7. ASSUME NEW c \in Calls, Commit(c) PROVE PoolInductive'
  BY <1>7, CommitStep
<1>8. ASSUME NEW c \in Calls, Close(c) PROVE PoolInductive'
  BY <1>8, CloseStep
<1>9. ASSUME UNCHANGED poolVars PROVE PoolInductive'
  BY <1>9 DEF poolVars, PoolInductive, PoolTypeOK, InFlight, QueueOnce, SomewhereElse, HeldInFlight,
              AnswerGiven
<1> QED BY <1>1, <1>2, <1>3, <1>4, <1>5, <1>6, <1>7, <1>8, <1>9 DEF PoolNext, GoOn

LEMMA PoolStarts == PoolInit => PoolInductive
<1> SUFFICES ASSUME PoolInit PROVE PoolInductive
  OBVIOUS
<1>1. Threads \in Nat /\ Connections \in Nat
  BY PoolAssumption DEF Connections
<1>2. PoolTypeOK
  BY <1>1, FS_EmptySet DEF PoolInit, PoolTypeOK, InFlight, Stages, Replies
<1> QED BY <1>2 DEF PoolInit, PoolInductive, QueueOnce, SomewhereElse, HeldInFlight, AnswerGiven

-----------------------------------------------------------------------------
(* The theorems.                                                           *)

\* Every call is where the invariant says, whatever arrives and times out.
THEOREM PoolSafe == PoolSpec => []PoolInductive
BY PoolStarts, PoolSteps, PTL DEF PoolSpec

\* The limits of both pools are kept, for any limits.
THEOREM PoolTypes == PoolSpec => []PoolTypeOK
<1>1. PoolInductive => PoolTypeOK
  BY DEF PoolInductive
<1> QED BY <1>1, PoolSafe, PTL

\* Only the pool's timeout turns a call away.
LEMMA OnlyTimeouts ==
    ASSUME PoolNext, NEW c \in Calls, PoolTypeOK,
           reply[c] # "unavailable", reply'[c] = "unavailable"
    PROVE  Timeout(c)
<1>1. PICK d \in Calls : GetThread \/ Arrive(d) \/ GoOn(d)
  BY DEF PoolNext
<1>2. reply \in [Calls -> Replies] /\ ~UNCHANGED reply
  BY DEF PoolTypeOK
<1>3. ASSUME NEW outcome \in {"ok", "refused"}, Reply(d, outcome) PROVE FALSE
  BY <1>2, <1>3 DEF Reply
<1>4. ~GetThread /\ ~Arrive(d) /\ ~Open(d) /\ ~CheckOut(d)
  BY <1>2 DEF GetThread, Arrive, Open, CheckOut
<1>5. ~RejectToken(d) /\ ~Authenticate(d) /\ ~Read(d) /\ ~Refuse(d)
  BY <1>2, <1>3 DEF RejectToken, Authenticate, Read, Refuse
<1>6. ~Commit(d)
  BY <1>2, <1>3 DEF Commit
<1>7. ~Close(d)
  BY <1>2 DEF Close
<1>8. Timeout(d)
  BY <1>1, <1>4, <1>5, <1>6, <1>7 DEF GoOn
<1> QED BY <1>2, <1>8 DEF Timeout, Reply

\* Whoever is turned away meets as many other calls in flight as there are
\* connections, and has at most lost what it would have read after its commit
\* (get_session, and the handlers that refresh).
THEOREM TurnedAwayByOthers == PoolSpec => TurnedAwayUnderLoad
<1> DEFINE Justified ==
        \A c \in Calls :
            reply[c] # "unavailable" /\ reply'[c] = "unavailable" =>
                /\ Cardinality(InFlight \ {c}) >= Connections
                /\ c \in committed => Kind[c] \in {"publish", "register"}
<1>1. PoolInductive /\ [PoolNext]_poolVars => [Justified]_poolVars
  <2> SUFFICES ASSUME PoolInductive, PoolNext, NEW c \in Calls,
                      reply[c] # "unavailable", reply'[c] = "unavailable"
               PROVE  /\ Cardinality(InFlight \ {c}) >= Connections
                      /\ c \in committed => Kind[c] \in {"publish", "register"}
    OBVIOUS
  <2>1. Waiting(c) /\ Cardinality(connected) >= Connections
    BY OnlyTimeouts DEF PoolInductive, Timeout
  <2>2. Cardinality(connected) <= Cardinality(InFlight \ {c})
    <3>1. connected \subseteq InFlight \ {c} /\ (InFlight \ {c}) \in SUBSET Calls
      BY <2>1 DEF Waiting, PoolInductive, PoolTypeOK, HeldInFlight, InFlight
    <3> QED BY <3>1, FiniteCalls, FS_Subset
  <2>3. /\ Cardinality(connected) \in Nat /\ Cardinality(InFlight \ {c}) \in Nat
        /\ Connections \in Nat
    <3>1. connected \in SUBSET Calls /\ (InFlight \ {c}) \in SUBSET Calls
      BY DEF PoolInductive, PoolTypeOK, InFlight
    <3> QED BY <3>1, FiniteCalls, PoolAssumption DEF Connections
  <2>4. c \in committed => Kind[c] \in {"publish", "register"}
    BY <2>1 DEF Waiting, PoolInductive, AnswerGiven
  <2> QED BY <2>1, <2>2, <2>3, <2>4
<1> QED BY <1>1, PoolSafe, PTL DEF PoolSpec, TurnedAwayUnderLoad

\* In a standstill every thread waits for a connection and every connection
\* for a thread, so the calls in flight fill both pools.
LEMMA StandstillFills ==
    ASSUME PoolInductive, Standstill
    PROVE  Cardinality(InFlight) >= Threads + Connections /\ connected \cap running = {}
<1>1. running \in SUBSET Calls /\ connected \in SUBSET Calls /\ InFlight \in SUBSET Calls
  BY DEF PoolInductive, PoolTypeOK, InFlight
<1>2. connected \cap running = {}
  BY DEF Standstill, Waiting
<1>3. \A c \in InFlight : c \in running \/ queue # <<>>
  <2>1. ASSUME NEW c \in InFlight, c \notin running PROVE queue # <<>>
    <3>1. stage[c] \notin {"idle", "close"} /\ c \in Calls
      BY <2>1 DEF Standstill, InFlight
    <3>2. PICK i \in 1..Len(queue) : queue[i] = c
      BY <2>1, <3>1 DEF PoolInductive, SomewhereElse
    <3>3. Len(<<>>) = 0
      OBVIOUS
    <3> QED BY <3>2, <3>3
  <2> QED BY <2>1
<1>4. /\ Cardinality(running) \in Nat /\ Cardinality(connected) \in Nat
      /\ IsFiniteSet(running) /\ IsFiniteSet(connected) /\ IsFiniteSet(InFlight)
      /\ Cardinality({}) = 0
  BY <1>1, FiniteCalls, FS_EmptySet
<1>5. Threads \in Nat /\ Threads > 0 /\ Connections \in Nat /\ Connections > 0
  BY PoolAssumption DEF Connections
<1>6. running # {}
  <2> SUFFICES ASSUME running = {} PROVE FALSE
    OBVIOUS
  <2>1. queue # <<>>
    BY <1>3 DEF Standstill
  <2> QED BY <1>4, <1>5, <2>1 DEF Standstill
<1>7. Cardinality(connected) >= Connections
  BY <1>6 DEF Standstill
<1>8. PICK c \in connected : TRUE
  BY <1>4, <1>5, <1>7
<1>9. c \in InFlight /\ c \notin running
  BY <1>2, <1>8 DEF PoolInductive, PoolTypeOK, HeldInFlight, InFlight
<1>10. Cardinality(running) >= Threads
  BY <1>3, <1>9 DEF Standstill
<1>11. (running \cup connected) \in SUBSET InFlight
  BY DEF PoolInductive, PoolTypeOK, HeldInFlight, InFlight
<1>12. Cardinality(running \cup connected) = Cardinality(running) + Cardinality(connected)
  <2>1. running \cap connected = {}
    BY <1>2
  <2>2. Cardinality(running \cup connected)
            = Cardinality(running) + Cardinality(connected) - Cardinality(running \cap connected)
    BY <1>4, FS_Union
  <2>3. Cardinality(running \cap connected) = 0
    BY <1>4, <2>1, ZenonT(30)
  <2> QED BY <1>4, <2>2, <2>3
<1>13. Cardinality(running \cup connected) <= Cardinality(InFlight)
  BY <1>4, <1>11, FS_Subset
<1>14. Cardinality(InFlight) \in Nat
  BY <1>1, FiniteCalls
<1> QED BY <1>2, <1>4, <1>5, <1>7, <1>10, <1>12, <1>13, <1>14

\* Threads and connections block each other only under an overload of at
\* least as many calls as both pools have places.
THEOREM StandstillTakesLoad == PoolSpec => []StandstillNeedsLoad
<1>1. PoolInductive => StandstillNeedsLoad
  BY StandstillFills DEF StandstillNeedsLoad
<1> QED BY <1>1, PoolSafe, PTL

-----------------------------------------------------------------------------
(* The start.                                                              *)

\* What has been flushed when group k is looked at.
Before(k) == UNION {Groups[j] : j \in 1..k - 1}

Upgrades(i) ==
    /\ pc[i] \in {"look", "insert"} => schema = LastRevision /\ seed_demo_data
    /\ pc[i] = "serve" => schema = LastRevision /\ (seed_demo_data => Seeded = Tables)
    /\ pc[i] = "upgrade" => seen[i] < LastRevision /\ schema \in {seen[i], LastRevision}
    /\ pc[i] = "upgrading" => seen[i] < LastRevision /\ schema = seen[i]

Seeds(i) ==
    /\ pc[i] \notin {"look", "insert"} => pending[i] = {} /\ group[i] = 1
    /\ Seeded = {} /\ pc[i] \in {"look", "insert"} => pending[i] = Before(group[i])
    /\ Seeded = {} /\ pc[i] = "insert" => missing[i] = Groups[group[i]]
    /\ Seeded # {} => pending[i] = {}

Stops(i) ==
    /\ schema # LastRevision => stopped[i] = 0
    /\ pc[i] = "upgrade" => stopped[i] = 0
    /\ Seeded = {} => stopped[i] <= 1
    /\ pc[i] = "insert" /\ missing[i] # {} => stopped[i] <= 1
    /\ stopped[i] <= 2

Local(i) == Upgrades(i) /\ Seeds(i) /\ Stops(i)

OneUpgrade == \A i, j \in Instances : pc[i] = "upgrading" /\ pc[j] = "upgrading" => i = j

KeysLocked == \A i, j \in Instances : i # j => pending[i] \cap pending[j] = {}

StartInv ==
    /\ TypeOK
    /\ Seeded \in {{}, Tables}
    /\ OneUpgrade
    /\ KeysLocked
    /\ \A i \in Instances : Local(i)

-----------------------------------------------------------------------------
(* The fixtures.                                                           *)

LEMMA ThreeRevisions == LastRevision = 3
BY DEF LastRevision

LEMMA SevenGroups ==
    /\ Len(Groups) = 7 /\ DOMAIN Groups = 1..7
    /\ Groups[1] = {"users"}
    /\ Groups[2] = {"need_profiles"}
    /\ Groups[3] = {"organizers"}
    /\ Groups[4] = {"venues"}
    /\ Groups[5] = {"events"}
    /\ Groups[6] = {"accessibility_claims"}
    /\ Groups[7] = {"accessibility_requests"}
BY DEF Groups

LEMMA SevenTables ==
    Tables = {"users", "need_profiles", "organizers", "venues", "events",
              "accessibility_claims", "accessibility_requests"}
BY SevenGroups DEF Tables

LEMMA GroupsBefore ==
    /\ Before(1) = {}
    /\ \A k \in 1..7 : Before(k + 1) = Before(k) \cup Groups[k]
<1>1. Before(1) = {}
  BY DEF Before
<1>2. ASSUME NEW k \in 1..7 PROVE Before(k + 1) = Before(k) \cup Groups[k]
  <2>1. 1..(k + 1) - 1 = (1..k - 1) \cup {k}
    OBVIOUS
  <2> QED
    BY <2>1 DEF Before
<1> QED
  BY <1>1, <1>2

LEMMA TablesBefore ==
    /\ Before(2) = {"users"}
    /\ Before(3) = {"users", "need_profiles"}
    /\ Before(4) = {"users", "need_profiles", "organizers"}
    /\ Before(5) = {"users", "need_profiles", "organizers", "venues"}
    /\ Before(6) = {"users", "need_profiles", "organizers", "venues", "events"}
    /\ Before(7) = {"users", "need_profiles", "organizers", "venues", "events",
                    "accessibility_claims"}
<1>1. Before(2) = {"users"}
  BY GroupsBefore, SevenGroups
<1>2. Before(3) = {"users", "need_profiles"}
  BY <1>1, GroupsBefore, SevenGroups
<1>3. Before(4) = {"users", "need_profiles", "organizers"}
  BY <1>2, GroupsBefore, SevenGroups
<1>4. Before(5) = {"users", "need_profiles", "organizers", "venues"}
  BY <1>3, GroupsBefore, SevenGroups
<1>5. Before(6) = {"users", "need_profiles", "organizers", "venues", "events"}
  BY <1>4, GroupsBefore, SevenGroups
<1>6. Before(7) = {"users", "need_profiles", "organizers", "venues", "events",
                   "accessibility_claims"}
  BY <1>5, GroupsBefore, SevenGroups
<1> QED
  BY <1>1, <1>2, <1>3, <1>4, <1>5, <1>6

\* Every table has its place in the order, and all places make up the fixtures.
LEMMA GroupStep ==
    ASSUME NEW k \in 1..7
    PROVE  /\ Groups[k] \subseteq Tables /\ Groups[k] # {}
           /\ Before(k) \subseteq Tables
           /\ Groups[k] \cap Before(k) = {}
           /\ Before(k + 1) = Before(k) \cup Groups[k]
           /\ k = 7 => Before(k) \cup Groups[k] = Tables
           /\ k = 1 => Before(k) = {}
           /\ k # 1 => "users" \in Before(k)
<1>1. k = 1 \/ k = 2 \/ k = 3 \/ k = 4 \/ k = 5 \/ k = 6 \/ k = 7
  OBVIOUS
<1>2. CASE k = 1
  BY <1>2, SevenGroups, SevenTables, GroupsBefore
<1>3. CASE k = 2
  BY <1>3, SevenGroups, SevenTables, TablesBefore, GroupsBefore
<1>4. CASE k = 3
  BY <1>4, SevenGroups, SevenTables, TablesBefore, GroupsBefore
<1>5. CASE k = 4
  BY <1>5, SevenGroups, SevenTables, TablesBefore, GroupsBefore
<1>6. CASE k = 5
  BY <1>6, SevenGroups, SevenTables, TablesBefore, GroupsBefore
<1>7. CASE k = 6
  BY <1>7, SevenGroups, SevenTables, TablesBefore, GroupsBefore
<1>8. CASE k = 7
  BY <1>8, SevenGroups, SevenTables, TablesBefore, GroupsBefore
<1> QED
  BY <1>1, <1>2, <1>3, <1>4, <1>5, <1>6, <1>7, <1>8

-----------------------------------------------------------------------------
LEMMA InitSInv == Init => StartInv
<1> SUFFICES ASSUME Init PROVE StartInv
  OBVIOUS
<1> USE StartupAssumption, ThreeRevisions
<1>1. rows \in [Tables -> {"none", "seeded", "changed"}]
  BY DEF Init
<1>2. TypeOK
  BY <1>1, SevenGroups DEF Init, TypeOK, Programs, StopsCounted
<1>3. Seeded \in {{}, Tables}
  BY DEF Init, Seeded
<1>4. OneUpgrade /\ KeysLocked
  BY DEF Init, OneUpgrade, KeysLocked
<1>5. \A i \in Instances : Local(i)
  BY DEF Init, Local, Upgrades, Seeds, Stops
<1> QED
  BY <1>2, <1>3, <1>4, <1>5 DEF StartInv

\* A step of one instance that changes neither schema nor rows.
Others(i) ==
    \A j \in Instances \ {i} :
        /\ pc'[j] = pc[j] /\ seen'[j] = seen[j] /\ group'[j] = group[j]
        /\ missing'[j] = missing[j] /\ pending'[j] = pending[j]
        /\ stopped'[j] = stopped[j]

LEMMA LocalStep ==
    ASSUME StartInv, TypeOK', NEW i \in Instances, Others(i),
           UNCHANGED <<seed_demo_data, schema, rows>>,
           Local(i)',
           pc'[i] = "upgrading" => \A j \in Instances \ {i} : pc[j] # "upgrading",
           \A j \in Instances \ {i} : pending'[i] \cap pending[j] = {}
    PROVE  StartInv'
<1>1. Seeded' = Seeded
  BY DEF Seeded
<1>2. \A j \in Instances \ {i} : Local(j)'
  BY <1>1 DEF StartInv, Others, Local, Upgrades, Seeds, Stops
<1>3. OneUpgrade'
  BY DEF StartInv, OneUpgrade, Others
<1>4. KeysLocked'
  BY DEF StartInv, KeysLocked, Others
<1> QED
  BY <1>1, <1>2, <1>3, <1>4 DEF StartInv

\* Whatever ends an instance rolls its transaction back.
LEMMA LeaveKeeps ==
    ASSUME StartInv, NEW i \in Instances, Leave(i),
           UNCHANGED <<seed_demo_data, schema, rows, seen>>,
           kills' \in 0..KillLimit,
           stopped' \in [Instances -> 0..StopsCounted],
           \A j \in Instances \ {i} : stopped'[j] = stopped[j],
           Stops(i)'
    PROVE  StartInv'
<1>1. /\ pc'[i] = "down" /\ pending'[i] = {} /\ missing'[i] = {} /\ group'[i] = 1
      /\ Others(i)
  BY SevenGroups DEF Leave, Enter, Others, StartInv, TypeOK
<1>2. TypeOK'
  <2>1. pc' \in [Instances -> Programs]
    BY DEF Leave, Enter, StartInv, TypeOK, Programs
  <2>2. group' \in [Instances -> DOMAIN Groups]
    BY SevenGroups DEF Leave, StartInv, TypeOK
  <2>3. missing' \in [Instances -> SUBSET Tables] /\ pending' \in [Instances -> SUBSET Tables]
    BY DEF Leave, StartInv, TypeOK
  <2> QED
    BY <2>1, <2>2, <2>3 DEF StartInv, TypeOK
<1>3. Local(i)'
  BY <1>1 DEF Local, Upgrades, Seeds
<1>4. \A j \in Instances \ {i} : pending'[i] \cap pending[j] = {}
  BY <1>1
<1>5. pc'[i] # "upgrading"
  BY <1>1
<1> QED
  BY <1>1, <1>2, <1>3, <1>4, <1>5, LocalStep

LEMMA StopKeeps ==
    ASSUME StartInv, NEW i \in Instances, Stop(i), stopped[i] <= 1,
           schema = LastRevision, Seeded = {} => stopped[i] = 0,
           UNCHANGED <<settings, schema, rows, seen>>
    PROVE  StartInv'
<1>1. /\ Leave(i)
      /\ stopped' = [stopped EXCEPT ![i] = IF @ < StopsCounted THEN @ + 1 ELSE @]
  BY DEF Stop
<1>2. stopped[i] \in 0..StopsCounted
  BY DEF StartInv, TypeOK
<1>3. /\ stopped'[i] = stopped[i] + 1
      /\ stopped' \in [Instances -> 0..StopsCounted]
      /\ \A j \in Instances \ {i} : stopped'[j] = stopped[j]
  BY <1>1, <1>2 DEF StartInv, TypeOK, StopsCounted
<1>4. Seeded' = Seeded /\ kills' \in 0..KillLimit
  BY DEF Seeded, settings, StartInv, TypeOK
<1>5. pc'[i] = "down"
  BY <1>1 DEF Leave, Enter, StartInv, TypeOK
<1>6. Stops(i)'
  BY <1>2, <1>3, <1>4, <1>5 DEF Stops
<1> QED
  BY <1>1, <1>3, <1>4, <1>6, LeaveKeeps DEF settings

LEMMA KillKeeps ==
    ASSUME StartInv, NEW i \in Instances, Kill(i)
    PROVE  StartInv'
<1>1. Leave(i) /\ UNCHANGED <<seed_demo_data, schema, rows, seen, stopped>>
  BY DEF Kill
<1>2. kills' \in 0..KillLimit
  BY StartupAssumption DEF Kill, StartInv, TypeOK
<1>3. Seeded' = Seeded /\ pc'[i] = "down"
  BY <1>1 DEF Seeded, Leave, Enter, StartInv, TypeOK
<1>4. Stops(i)'
  BY <1>1, <1>3 DEF Stops, StartInv, Local
<1>5. stopped' \in [Instances -> 0..StopsCounted]
  BY <1>1 DEF StartInv, TypeOK
<1> QED
  BY <1>1, <1>2, <1>4, <1>5, LeaveKeeps

-----------------------------------------------------------------------------
(* alembic upgrade head.                                                   *)

LEMMA RestartKeeps ==
    ASSUME StartInv, NEW i \in Instances, Restart(i)
    PROVE  StartInv'
<1>1. TypeOK'
  BY DEF Restart, Enter, settings, seeding, StartInv, TypeOK, Programs
<1>2. Others(i) /\ pc'[i] = "start" /\ Seeded' = Seeded
  BY DEF Restart, Enter, seeding, Others, StartInv, TypeOK, Seeded
<1>3. Local(i)'
  BY <1>2 DEF Restart, seeding, StartInv, Local, Upgrades, Seeds, Stops
<1>4. \A j \in Instances \ {i} : pending'[i] \cap pending[j] = {}
  BY DEF Restart, seeding, StartInv, KeysLocked
<1> QED
  BY <1>1, <1>2, <1>3, <1>4, LocalStep DEF Restart, settings

LEMMA ReadRevisionKeeps ==
    ASSUME StartInv, NEW i \in Instances, ReadRevision(i)
    PROVE  StartInv'
<1> USE ThreeRevisions
<1>1. schema \in 0..3
  BY DEF StartInv, TypeOK
<1>2. AfterUpgrade \in {"look", "serve"}
  BY DEF AfterUpgrade
<1>3. TypeOK'
  BY <1>1, <1>2 DEF ReadRevision, Enter, settings, seeding, StartInv, TypeOK, Programs
<1>4. /\ Others(i) /\ Seeded' = Seeded /\ seen'[i] = schema
      /\ pc'[i] = IF schema = LastRevision THEN AfterUpgrade ELSE "upgrade"
  BY DEF ReadRevision, Enter, seeding, Others, StartInv, TypeOK, Seeded
<1>5. pending[i] = {} /\ group[i] = 1 /\ UNCHANGED <<pending, group, missing, schema, stopped>>
  BY DEF ReadRevision, seeding, StartInv, Local, Seeds
<1>6. Seeded \in {{}, Tables} /\ UNCHANGED seed_demo_data
  BY DEF ReadRevision, settings, StartInv
<1>7. Upgrades(i)'
  <2>1. CASE schema = LastRevision
    BY <1>1, <1>4, <1>5, <1>6, <2>1 DEF AfterUpgrade, Upgrades
  <2>2. CASE schema # LastRevision
    BY <1>1, <1>4, <1>5, <2>2 DEF Upgrades
  <2> QED
    BY <2>1, <2>2
<1>8. Seeds(i)'
  BY <1>2, <1>4, <1>5, GroupsBefore DEF Seeds
<1>9. Stops(i)'
  BY <1>2, <1>4, <1>5 DEF StartInv, Local, Stops
<1>10. \A j \in Instances \ {i} : pending'[i] \cap pending[j] = {}
  BY <1>5
<1> QED
  BY <1>2, <1>3, <1>4, <1>7, <1>8, <1>9, <1>10, LocalStep
     DEF ReadRevision, settings, Local

LEMMA BeginUpgradeKeeps ==
    ASSUME StartInv, NEW i \in Instances, BeginUpgrade(i)
    PROVE  StartInv'
<1> USE ThreeRevisions
<1>0. /\ seen[i] < LastRevision /\ schema \in {seen[i], LastRevision} /\ stopped[i] = 0
      /\ pending[i] = {} /\ group[i] = 1
  BY DEF BeginUpgrade, StartInv, Local, Upgrades, Seeds, Stops
<1>1. CASE schema # seen[i] /\ Stop(i)
  BY <1>0, <1>1, StopKeeps DEF BeginUpgrade
<1>2. CASE /\ schema = seen[i]
           /\ Enter(i, "upgrading")
           /\ UNCHANGED <<seeding, stopped>>
  <2>1. TypeOK'
    BY <1>2 DEF BeginUpgrade, Enter, settings, seeding, StartInv, TypeOK, Programs
  <2>2. Others(i) /\ pc'[i] = "upgrading" /\ Seeded' = Seeded
    BY <1>2 DEF BeginUpgrade, Enter, seeding, Others, StartInv, TypeOK, Seeded
  <2>3. UNCHANGED <<schema, seen, pending, group, missing, stopped>>
    BY <1>2 DEF BeginUpgrade, seeding
  <2>4. Upgrades(i)' /\ Seeds(i)'
    BY <1>0, <1>2, <2>2, <2>3 DEF Upgrades, Seeds
  <2>5. Stops(i)'
    BY <1>0, <2>2, <2>3 DEF Stops
  <2>6. \A j \in Instances \ {i} : pending'[i] \cap pending[j] = {}
    BY <1>0, <2>3
  <2>7. \A j \in Instances : pc[j] # "upgrading"
    BY DEF BeginUpgrade
  <2> QED
    BY <2>1, <2>2, <2>4, <2>5, <2>6, <2>7, LocalStep DEF BeginUpgrade, settings, Local
<1> QED
  BY <1>1, <1>2 DEF BeginUpgrade

\* Who upgrades has the schema to itself: the others have not begun, or will
\* find it done.
LEMMA CommitUpgradeKeeps ==
    ASSUME StartInv, NEW i \in Instances, CommitUpgrade(i)
    PROVE  StartInv'
<1> USE ThreeRevisions
<1>0. /\ schema = seen[i] /\ seen[i] < LastRevision
      /\ \A j \in Instances : pc[j] = "upgrading" => j = i
  BY DEF CommitUpgrade, StartInv, OneUpgrade, Local, Upgrades
<1>1. AfterUpgrade \in {"look", "serve"} /\ (AfterUpgrade = "look" <=> seed_demo_data)
  BY DEF AfterUpgrade, StartInv, TypeOK
<1>2. /\ schema' = LastRevision /\ Seeded' = Seeded
      /\ UNCHANGED <<seed_demo_data, seen, group, missing, pending, stopped>>
      /\ pc' = [pc EXCEPT ![i] = AfterUpgrade]
  BY DEF CommitUpgrade, Enter, settings, seeding, Seeded
<1>3. \A j \in Instances : pc'[j] = IF j = i THEN AfterUpgrade ELSE pc[j]
  BY <1>2 DEF StartInv, TypeOK
<1>4. TypeOK'
  BY <1>1, <1>2 DEF CommitUpgrade, settings, StartInv, TypeOK, Programs
<1>5. OneUpgrade' /\ KeysLocked'
  BY <1>1, <1>2, <1>3 DEF StartInv, OneUpgrade, KeysLocked
<1>6. ASSUME NEW j \in Instances PROVE Upgrades(j)'
  BY <1>0, <1>1, <1>2, <1>3 DEF StartInv, Local, Upgrades
<1>7. ASSUME NEW j \in Instances PROVE Seeds(j)'
  <2>1. CASE j = i
    <3>1. pending[i] = {} /\ group[i] = 1
      BY DEF CommitUpgrade, StartInv, Local, Seeds
    <3> QED
      BY <1>1, <1>2, <1>3, <2>1, <3>1, GroupsBefore DEF Seeds
  <2>2. CASE j # i
    BY <1>2, <1>3, <2>2 DEF StartInv, Local, Seeds
  <2> QED
    BY <2>1, <2>2
<1>8. ASSUME NEW j \in Instances PROVE Stops(j)'
  <2>1. stopped[j] = 0
    BY <1>0 DEF StartInv, Local, Stops
  <2> QED
    BY <1>2, <2>1 DEF Stops
<1> QED
  BY <1>2, <1>4, <1>5, <1>6, <1>7, <1>8 DEF StartInv, Local

-----------------------------------------------------------------------------
(* python -m app.cli seed.                                                 *)

LEMMA SeedState ==
    ASSUME StartInv, NEW i \in Instances, pc[i] \in {"look", "insert"}
    PROVE  /\ group[i] \in 1..7 /\ schema = LastRevision /\ seed_demo_data
           /\ Seeded = {} => /\ pending[i] = Before(group[i])
                             /\ pc[i] = "insert" => missing[i] = Groups[group[i]]
           /\ Seeded # {} => Seeded = Tables /\ pending[i] = {}
           /\ missing[i] \subseteq Tables
BY SevenGroups DEF StartInv, TypeOK, Local, Upgrades, Seeds

LEMMA LookKeeps ==
    ASSUME StartInv, NEW i \in Instances, Look(i)
    PROVE  StartInv'
<1>0. pc[i] = "look"
  BY DEF Look
<1> DEFINE absent == {t \in Groups[group[i]] : Absent(i, t)}
<1>1. /\ Others(i) /\ Seeded' = Seeded /\ missing'[i] = absent
      /\ UNCHANGED <<schema, seed_demo_data, seen, pending, stopped>>
      /\ \/ absent = {} /\ group[i] < 7 /\ pc'[i] = "look" /\ group'[i] = group[i] + 1
         \/ pc'[i] = "insert" /\ group'[i] = group[i]
  BY SevenGroups DEF Look, Enter, Others, settings, StartInv, TypeOK, Seeded
<1>2. group[i] \in 1..7 /\ Groups[group[i]] \subseteq Tables /\ Groups[group[i]] # {}
  BY <1>0, SeedState, GroupStep
<1>3. TypeOK'
  <2>1. group' \in [Instances -> DOMAIN Groups]
    BY <1>2, SevenGroups DEF Look, StartInv, TypeOK
  <2>2. missing' \in [Instances -> SUBSET Tables]
    BY <1>2 DEF Look, StartInv, TypeOK
  <2>3. pc' \in [Instances -> Programs]
    BY DEF Look, Enter, StartInv, TypeOK, Programs
  <2> QED
    BY <2>1, <2>2, <2>3 DEF Look, settings, StartInv, TypeOK
<1>5. Seeded = {} => absent = Groups[group[i]]
  <2>1. Seeded = {} => \A t \in Groups[group[i]] : rows[t] = "none" /\ t \notin pending[i]
    BY <1>0, <1>2, SeedState, GroupStep DEF Seeded
  <2> QED
    BY <2>1 DEF Absent
<1>6. Seeded # {} => absent = {}
  <2>1. Seeded # {} => \A t \in Groups[group[i]] : rows[t] # "none"
    BY <1>0, <1>2, SeedState DEF Seeded
  <2> QED
    BY <2>1 DEF Absent
<1> HIDE DEF absent
<1>7. Upgrades(i)' /\ Seeds(i)'
  BY <1>0, <1>1, <1>2, <1>5, SeedState DEF Upgrades, Seeds
<1>8. Stops(i)'
  BY <1>0, <1>1, <1>6, SeedState DEF StartInv, Local, Stops
<1>9. \A j \in Instances \ {i} : pending'[i] \cap pending[j] = {}
  BY <1>1 DEF StartInv, KeysLocked
<1> QED
  BY <1>1, <1>3, <1>7, <1>8, <1>9, LocalStep DEF Look, settings, Local

\* Somebody else's seed is found only by an instance that looked before it
\* was committed, and only once.
LEMMA StopsAtInsert ==
    ASSUME StartInv, NEW i \in Instances, pc[i] = "insert",
           \E t \in missing[i] : rows[t] # "none"
    PROVE  schema = LastRevision /\ stopped[i] <= 1 /\ Seeded # {}
<1>1. schema = LastRevision /\ missing[i] \subseteq Tables
  BY SeedState
<1>2. stopped[i] <= 1
  BY DEF StartInv, Local, Stops
<1> QED
  BY <1>1, <1>2 DEF Seeded

\* Otherwise what is missing is the whole group, or the seed has been
\* committed and nothing is.
LEMMA GoesOnAtInsert ==
    ASSUME StartInv, NEW i \in Instances, pc[i] = "insert",
           \A t \in missing[i] : rows[t] = "none"
    PROVE  \/ Seeded = {} /\ missing[i] = Groups[group[i]]
           \/ Seeded = Tables /\ missing[i] = {}
<1>1. missing[i] \subseteq Tables
  BY SeedState
<1>2. Seeded # {} => Seeded = Tables /\ \A t \in Tables : rows[t] # "none"
  BY SeedState DEF Seeded
<1> QED
  BY <1>1, <1>2, SeedState

LEMMA InsertKeeps ==
    ASSUME StartInv, NEW i \in Instances, Insert(i)
    PROVE  StartInv'
<1>0. /\ pc[i] = "insert" /\ group[i] \in 1..7 /\ group[i] < 7
      /\ missing[i] \subseteq Tables
      /\ UNCHANGED <<seed_demo_data, schema, rows, seen>>
      /\ Seeded' = Seeded
  BY SeedState, SevenGroups DEF Insert, settings, Seeded
<1>1. CASE \E t \in missing[i] : rows[t] # "none"
  BY <1>0, <1>1, StopsAtInsert, StopKeeps DEF Insert
<1>2. CASE \A t \in missing[i] : rows[t] = "none"
  <2>1. /\ pending' = [pending EXCEPT ![i] = @ \cup missing[i]]
        /\ group' = [group EXCEPT ![i] = @ + 1]
        /\ pc' = [pc EXCEPT ![i] = "look"]
        /\ UNCHANGED <<missing, stopped, kills>>
    BY <1>2 DEF Insert, Enter, settings
  <2>2. /\ pending'[i] = pending[i] \cup missing[i] /\ group'[i] = group[i] + 1
        /\ pc'[i] = "look" /\ Others(i)
    BY <1>0, <2>1 DEF Others, StartInv, TypeOK
  <2>3. TypeOK'
    <3>1. group' \in [Instances -> DOMAIN Groups]
      BY <1>0, <2>1, SevenGroups DEF StartInv, TypeOK
    <3>2. pending' \in [Instances -> SUBSET Tables]
      BY <1>0, <2>1 DEF StartInv, TypeOK
    <3> QED
      BY <1>0, <2>1, <3>1, <3>2 DEF StartInv, TypeOK, Programs
  <2>4. Upgrades(i)'
    BY <1>0, <2>2, SeedState DEF Upgrades
  <2>5. Seeds(i)'
    <3>1. Seeded = {} => pending'[i] = Before(group[i] + 1)
      BY <1>0, <1>2, <2>2, SeedState, GroupStep
    <3>2. Seeded # {} => pending'[i] = {}
      BY <1>0, <1>2, <2>2, SeedState, GoesOnAtInsert
    <3> QED
      BY <1>0, <2>2, <3>1, <3>2 DEF Seeds
  <2>6. Stops(i)'
    BY <1>0, <2>1, <2>2 DEF StartInv, Local, Stops
  <2>7. \A j \in Instances \ {i} : pending'[i] \cap pending[j] = {}
    BY <2>2 DEF Insert, Unlocked, StartInv, KeysLocked
  <2> QED
    BY <1>0, <2>2, <2>3, <2>4, <2>5, <2>6, <2>7, LocalStep DEF Local
<1> QED
  BY <1>1, <1>2

\* The keys of the first group are one instance's: while it has them nobody
\* else has inserted anything.
LEMMA OnlySeeder ==
    ASSUME StartInv, Seeded = {}, NEW i \in Instances, pc[i] = "insert", group[i] = 7,
           NEW j \in Instances, j # i
    PROVE  pending[j] = {}
<1>1. "users" \in pending[i]
  BY SeedState, GroupStep
<1>2. pending[j] # {} => pc[j] \in {"look", "insert"} /\ group[j] # 1
  <2>1. pc[j] \in {"look", "insert"} /\ group[j] = 1 => pending[j] = {}
    BY SeedState, GroupsBefore
  <2> QED
    BY <2>1 DEF StartInv, Local, Seeds
<1>3. pending[j] # {} => "users" \in pending[j]
  BY <1>2, SeedState, GroupStep
<1> QED
  BY <1>1, <1>3 DEF StartInv, KeysLocked

LEMMA CommitSeedKeeps ==
    ASSUME StartInv, NEW i \in Instances, CommitSeed(i)
    PROVE  StartInv'
<1>0. /\ pc[i] = "insert" /\ group[i] = 7 /\ schema = LastRevision
      /\ UNCHANGED <<seed_demo_data, kills, schema, seen>>
  BY SeedState, SevenGroups DEF CommitSeed, settings
<1>1. CASE \E t \in missing[i] : rows[t] # "none"
  <2>1. Stop(i) /\ UNCHANGED rows
    BY <1>1 DEF CommitSeed
  <2> QED
    BY <1>0, <1>1, <2>1, StopsAtInsert, StopKeeps DEF settings
<1>2. CASE \A t \in missing[i] : rows[t] = "none"
  <2>1. /\ rows' = [t \in Tables |->
                    IF t \in missing[i] \cup pending[i] THEN "seeded" ELSE rows[t]]
        /\ pending' = [pending EXCEPT ![i] = {}]
        /\ missing' = [missing EXCEPT ![i] = {}]
        /\ group' = [group EXCEPT ![i] = 1]
        /\ pc' = [pc EXCEPT ![i] = "serve"]
        /\ UNCHANGED stopped
    BY <1>2 DEF CommitSeed, Enter
  <2>2. /\ pc'[i] = "serve" /\ pending'[i] = {} /\ missing'[i] = {} /\ group'[i] = 1
        /\ Others(i)
    BY <1>0, <2>1, SevenGroups DEF Others, StartInv, TypeOK
  <2>3. TypeOK'
    <3>1. rows' \in [Tables -> {"none", "seeded", "changed"}]
      BY <2>1 DEF StartInv, TypeOK
    <3>2. group' \in [Instances -> DOMAIN Groups]
      BY <2>1, SevenGroups DEF StartInv, TypeOK
    <3>3. missing' \in [Instances -> SUBSET Tables] /\ pending' \in [Instances -> SUBSET Tables]
      BY <2>1 DEF StartInv, TypeOK
    <3>4. pc' \in [Instances -> Programs]
      BY <2>1 DEF StartInv, TypeOK, Programs
    <3> QED
      BY <1>0, <2>1, <3>1, <3>2, <3>3, <3>4 DEF StartInv, TypeOK
  <2>4. Seeded' = Tables
    <3>1. CASE Seeded = {} /\ missing[i] = Groups[group[i]]
      <4>1. missing[i] \cup pending[i] = Tables
        BY <1>0, <3>1, SeedState, GroupStep
      <4> QED
        BY <2>1, <4>1 DEF Seeded
    <3>2. CASE Seeded = Tables /\ missing[i] = {}
      <4>1. \A t \in Tables : rows[t] # "none"
        BY <3>2 DEF Seeded
      <4> QED
        BY <2>1, <4>1 DEF Seeded
    <3> QED
      BY <1>0, <1>2, <3>1, <3>2, GoesOnAtInsert
  <2>5. Tables # {}
    BY SevenTables
  <2>6. \A j \in Instances : pending'[j] = {}
    <3>1. \A j \in Instances \ {i} : pending[j] = {}
      BY <1>0, OnlySeeder DEF StartInv, Local, Seeds
    <3> QED
      BY <2>2, <3>1 DEF Others
  <2>7. ASSUME NEW j \in Instances PROVE Local(j)'
    <3>1. Upgrades(j)'
      BY <1>0, <2>2, <2>4 DEF StartInv, Local, Upgrades, Others
    <3>2. Seeds(j)'
      BY <2>2, <2>4, <2>5, <2>6 DEF StartInv, Local, Seeds, Others
    <3>3. Stops(j)'
      BY <1>0, <2>1, <2>2, <2>4, <2>5 DEF StartInv, Local, Stops, Others
    <3> QED
      BY <3>1, <3>2, <3>3 DEF Local
  <2>8. OneUpgrade' /\ KeysLocked'
    BY <2>2, <2>6 DEF StartInv, OneUpgrade, KeysLocked, Others
  <2> QED
    BY <2>3, <2>4, <2>7, <2>8 DEF StartInv
<1> QED
  BY <1>1, <1>2

\* People change rows, and leave them where they are.
LEMMA UseKeeps ==
    ASSUME StartInv, NEW i \in Instances, NEW t \in Changeable, Use(i, t)
    PROVE  StartInv'
<1>1. t \in Tables
  BY SevenTables DEF Changeable
<1>2. Seeded' = Seeded
  BY <1>1 DEF Use, Seeded, StartInv, TypeOK
<1>3. TypeOK'
  BY <1>1 DEF Use, settings, seeding, StartInv, TypeOK
<1>4. /\ UNCHANGED <<seed_demo_data, schema, pc, seen, group, missing, pending, stopped>>
  BY DEF Use, settings, seeding
<1>5. \A j \in Instances : Local(j)'
  BY <1>2, <1>4 DEF StartInv, Local, Upgrades, Seeds, Stops
<1> QED
  BY <1>2, <1>3, <1>4, <1>5 DEF StartInv, OneUpgrade, KeysLocked

LEMMA StepSInv == StartInv /\ [Next]_vars => StartInv'
<1> SUFFICES ASSUME StartInv, [Next]_vars PROVE StartInv'
  OBVIOUS
<1>1. CASE UNCHANGED vars
  <2>1. Seeded' = Seeded
    BY <1>1 DEF vars, Seeded
  <2>2. \A i \in Instances : Local(i)'
    BY <1>1, <2>1 DEF vars, StartInv, Local, Upgrades, Seeds, Stops
  <2> QED
    BY <1>1, <2>1, <2>2 DEF vars, StartInv, TypeOK, OneUpgrade, KeysLocked
<1> QED
  BY <1>1, RestartKeeps, KillKeeps, ReadRevisionKeeps, BeginUpgradeKeeps,
     CommitUpgradeKeeps, LookKeeps, InsertKeeps, CommitSeedKeeps, UseKeeps
     DEF Next, Step

\* The invariant of the start is inductive.
THEOREM StartInductive == Spec => []StartInv
BY InitSInv, StepSInv, PTL DEF Spec

\* Schema, rows and every instance's program keep their types.
THEOREM StartTypes == Spec => []TypeOK
<1>1. StartInv => TypeOK
  BY DEF StartInv
<1> QED
  BY <1>1, StartInductive, PTL

\* The demo rows are there all together or not at all, and nobody serves
\* before the schema is at its head and the rows that are wanted are in
\* (start.sh, seed_demo_data).
THEOREM ServersAreWhole == Spec => []ServesOnlyWhole
<1>1. StartInv => ServesOnlyWhole
  BY DEF StartInv, ServesOnlyWhole, Local, Upgrades
<1> QED
  BY <1>1, StartInductive, PTL

\* Who waits for another's seed has inserted nothing: the other holds the keys
\* of the first table, without which nobody gets further (seed_demo_data).
THEOREM WaitersAreFree == Spec => []WaitersHoldNothing
<1>1. StartInv => WaitersHoldNothing
  <2> SUFFICES ASSUME StartInv, NEW i \in Instances, pc[i] = "insert",
                      NEW t \in missing[i], NEW j \in Instances, j # i, t \in pending[j],
                      pending[i] # {}
               PROVE  FALSE
    BY DEF WaitersHoldNothing, Unlocked
  <2>1. Seeded = {}
    BY DEF StartInv, Local, Seeds
  <2>2. ASSUME NEW k \in Instances, pending[k] # {} PROVE "users" \in pending[k]
    <3>1. pc[k] \in {"look", "insert"}
      BY <2>2 DEF StartInv, Local, Seeds
    <3> QED
      BY <2>1, <2>2, <3>1, SeedState, GroupStep
  <2> QED
    BY <2>2 DEF StartInv, KeysLocked
<1> QED
  BY <1>1, StartInductive, PTL

\* Other instances stop one at most twice, whatever their number: once by
\* their upgrade and once by their seed (start.sh).
THEOREM StopsAreFew == Spec => []StoppedAtMostTwice
<1>1. StartInv => StoppedAtMostTwice
  BY DEF StartInv, StoppedAtMostTwice, Local, Stops
<1> QED
  BY <1>1, StartInductive, PTL

\* A start never overwrites what people have changed (seed_demo_data).
THEOREM StartsKeepChanges == Spec => NeverOverwrites
<1> DEFINE Kept == \A t \in Tables : rows[t] = "changed" => rows'[t] = "changed"
<1>1. StartInv /\ [Next]_vars => [Kept]_vars
  <2> SUFFICES ASSUME StartInv, Next, NEW t \in Tables, rows[t] = "changed"
               PROVE  rows'[t] = "changed"
    OBVIOUS
  <2>1. ASSUME NEW i \in Instances, CommitSeed(i) PROVE rows'[t] = "changed"
    <3>1. CASE UNCHANGED rows
      BY <3>1
    <3>2. CASE /\ \A s \in missing[i] : rows[s] = "none"
               /\ rows' = [s \in Tables |->
                    IF s \in missing[i] \cup pending[i] THEN "seeded" ELSE rows[s]]
      <4>1. Seeded # {}
        BY DEF Seeded
      <4>2. missing[i] = {} /\ pending[i] = {}
        BY <2>1, <3>2, <4>1, GoesOnAtInsert, SeedState DEF CommitSeed
      <4> QED
        BY <3>2, <4>2
    <3> QED
      BY <2>1, <3>1, <3>2 DEF CommitSeed
  <2>2. ASSUME NEW i \in Instances, NEW s \in Changeable, Use(i, s)
        PROVE  rows'[t] = "changed"
    BY <2>2 DEF Use, StartInv, TypeOK
  <2> QED
    BY <2>1, <2>2 DEF Next, Step, Restart, Kill, ReadRevision, BeginUpgrade,
                      CommitUpgrade, Look, Insert
<1> QED
  BY <1>1, StartInductive, PTL DEF Spec, NeverOverwrites
=============================================================================
