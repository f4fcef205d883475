---------------------------- MODULE ConnectionPool ----------------------------
(***************************************************************************)
(* The two pools every call goes through.  FastAPI runs a synchronous      *)
(* dependency or endpoint on one of a limited number of threads, and a     *)
(* call comes back to that queue for each of them: get_session, then       *)
(* get_current_user, then the endpoint.  The engine hands out at most      *)
(* db_pool_size + db_max_overflow connections; a session takes one with    *)
(* its first query and keeps it until it commits or is closed, so a call   *)
(* that waits for its next thread keeps the connection of its token check. *)
(*                                                                         *)
(* Threads, queue and pool belong to libraries; which call needs what, and *)
(* when it gives it back, is the code's.                                   *)
(***************************************************************************)
EXTENDS Integers, Sequences, FiniteSets

CONSTANTS
    Calls,          \* requests a server may be working on at the same time
    Kind,           \* per call: what it calls
    Threads,        \* the server's limit of threads
    db_pool_size,
    db_max_overflow

\* "read": a GET.  "answer": create, respond and confirm, which read nothing
\* after their commit.  "publish": the writers that read again after it (event,
\* media, needs, verification).  "login" and "register" have no token to check,
\* "health" has no session.
Kinds == {"read", "answer", "publish", "login", "register", "health"}

ASSUME PoolAssumption ==
    /\ IsFiniteSet(Calls)
    /\ Kind \in [Calls -> Kinds]
    /\ Threads \in Nat \ {0}
    /\ db_pool_size \in 1..20 /\ db_max_overflow \in 0..20

VARIABLES
    stage,          \* per call, what it does or waits to do
    queue,          \* calls waiting for a thread, first come first served
    running,        \* calls on a thread
    connected,      \* calls that hold a connection
    committed,      \* calls in flight that have committed their writes
    reply           \* per call in flight, what it has answered

poolVars == <<stage, queue, running, connected, committed, reply>>

Stages == {"idle", "open", "authenticate", "work", "reread", "close"}

\* "refused": an APIError; "unavailable": no connection in time, a 500 (a 503
\* from /healthz).
Replies == {"none", "ok", "refused", "unavailable"}

Connections == db_pool_size + db_max_overflow

Goto(c, s) == stage' = [stage EXCEPT ![c] = s]

\* Off the thread, and to the end of the queue for the next one.
NextThread(c, s) ==
    /\ Goto(c, s)
    /\ running' = running \ {c}
    /\ queue' = Append(queue, c)

\* The answer is sent; the session is closed after it.
Reply(c, outcome) ==
    /\ Goto(c, "close")
    /\ running' = running \ {c}
    /\ reply' = [reply EXCEPT ![c] = outcome]
    /\ UNCHANGED queue

-----------------------------------------------------------------------------
PoolInit ==
    /\ stage = [c \in Calls |-> "idle"]
    /\ queue = <<>>
    /\ running = {} /\ connected = {} /\ committed = {}
    /\ reply = [c \in Calls |-> "none"]

Arrive(c) ==
    /\ stage[c] = "idle"
    /\ Goto(c, IF Kind[c] = "health" THEN "work" ELSE "open")
    /\ queue' = Append(queue, c)
    /\ UNCHANGED <<running, connected, committed, reply>>

GetThread ==
    /\ queue # <<>>
    /\ Cardinality(running) < Threads
    /\ running' = running \cup {Head(queue)}
    /\ queue' = Tail(queue)
    /\ UNCHANGED <<stage, connected, committed, reply>>

\* get_session: a session without a connection.
Open(c) ==
    /\ c \in running /\ stage[c] = "open"
    /\ NextThread(c, IF Kind[c] \in {"login", "register"} THEN "work" ELSE "authenticate")
    /\ UNCHANGED <<connected, committed, reply>>

\* The first query of a session, or the first after its commit.
Waiting(c) ==
    /\ c \in running /\ c \notin connected
    /\ stage[c] \in {"authenticate", "work", "reread"}

CheckOut(c) ==
    /\ Waiting(c)
    /\ Cardinality(connected) < Connections
    /\ connected' = connected \cup {c}
    /\ UNCHANGED <<stage, queue, running, committed, reply>>

\* Faulty on purpose: a caller waits for a connection as long as it takes.
Timeout_Never(c) == Waiting(c) /\ UNCHANGED poolVars

\* No connection came free within pool_timeout.
Timeout(c) ==
    /\ Waiting(c)
    /\ Cardinality(connected) >= Connections
    /\ Reply(c, "unavailable")
    /\ UNCHANGED <<connected, committed>>

\* Without a token, or with one that is not valid, no query is made.
RejectToken(c) ==
    /\ Waiting(c) /\ stage[c] = "authenticate"
    /\ Reply(c, "refused")
    /\ UNCHANGED <<connected, committed>>

Authenticate(c) ==
    /\ c \in running \cap connected /\ stage[c] = "authenticate"
    /\ \/ NextThread(c, "work") /\ UNCHANGED reply
       \/ Reply(c, "refused")
    /\ UNCHANGED <<connected, committed>>

Read(c) ==
    /\ c \in running \cap connected
    /\ \/ stage[c] = "work" /\ Kind[c] \in {"read", "login", "health"}
       \/ stage[c] = "reread"
    /\ Reply(c, "ok")
    /\ UNCHANGED <<connected, committed>>

\* A commit gives the connection back; an upload keeps it until then, while
\* the storage service answers (at most 30 seconds).
Commit(c) ==
    /\ c \in running \cap connected
    /\ stage[c] = "work" /\ Kind[c] \in {"answer", "publish", "register"}
    /\ committed' = committed \cup {c}
    /\ connected' = connected \ {c}
    /\ IF Kind[c] = "answer"
       THEN Reply(c, "ok")
       ELSE Goto(c, "reread") /\ UNCHANGED <<queue, running, reply>>

\* An APIError of the endpoint: the session is rolled back when it is closed.
Refuse(c) ==
    /\ c \in running \cap connected
    /\ stage[c] = "work" /\ Kind[c] # "health"
    /\ Reply(c, "refused")
    /\ UNCHANGED <<connected, committed>>

\* Faulty on purpose: a session that ends in an error is not closed.
Close_UnlessRefused(c) ==
    /\ stage[c] = "close"
    /\ Goto(c, "idle")
    /\ connected' = IF reply[c] = "refused" THEN connected ELSE connected \ {c}
    /\ committed' = committed \ {c}
    /\ reply' = [reply EXCEPT ![c] = "none"]
    /\ UNCHANGED <<queue, running>>

\* The end of get_session, on a thread outside the limit.
Close(c) ==
    /\ stage[c] = "close"
    /\ Goto(c, "idle")
    /\ connected' = connected \ {c}
    /\ committed' = committed \ {c}
    /\ reply' = [reply EXCEPT ![c] = "none"]
    /\ UNCHANGED <<queue, running>>

GoOn(c) ==
    \/ Open(c) \/ CheckOut(c) \/ Timeout(c) \/ RejectToken(c) \/ Authenticate(c)
    \/ Read(c) \/ Commit(c) \/ Refuse(c) \/ Close(c)

PoolNext == GetThread \/ \E c \in Calls : Arrive(c) \/ GoOn(c)

PoolSpec == PoolInit /\ [][PoolNext]_poolVars

\* A call on a thread goes on: queries, the storage service and the wait for a
\* connection all end in time.  A thread that is free is given to the first.
PoolFairness == WF_poolVars(GetThread) /\ \A c \in Calls : WF_poolVars(GoOn(c))

FairPoolSpec == PoolSpec /\ PoolFairness

-----------------------------------------------------------------------------
InFlight == {c \in Calls : stage[c] # "idle"}

PoolTypeOK ==
    /\ stage \in [Calls -> Stages]
    /\ queue \in Seq(Calls)
    /\ running \subseteq InFlight
    /\ connected \subseteq Calls
    /\ committed \subseteq Calls
    /\ reply \in [Calls -> Replies]
    /\ Cardinality(running) <= Threads /\ Cardinality(connected) <= Connections

\* Nothing moves but the clock of those who wait for a connection.
Standstill ==
    /\ InFlight # {}
    /\ \A c \in InFlight : stage[c] # "close"
    /\ \A c \in running : Waiting(c) /\ Cardinality(connected) >= Connections
    /\ queue # <<>> => Cardinality(running) >= Threads

\* Threads that wait for connections and connections that wait for threads can
\* block each other (get_current_user keeps its connection into the queue), but
\* only when at least as many calls are in flight as both pools have places.
StandstillNeedsLoad ==
    Standstill =>
        /\ Cardinality(InFlight) >= Threads + Connections
        /\ connected \cap running = {}

\* A call is turned away for want of a connection only while as many other
\* calls are in flight as there are connections (every session is closed, so
\* none is lost to a call that has ended).  If it has been carried out by then,
\* it is one of those that read again after their commit: event, media, needs,
\* verification, register.  A request, an answer or a confirmation that fails so
\* can be repeated as it is.
TurnedAwayUnderLoad ==
    [][\A c \in Calls :
        reply[c] # "unavailable" /\ reply'[c] = "unavailable" =>
            /\ Cardinality(InFlight \ {c}) >= Connections
            /\ c \in committed => Kind[c] \in {"publish", "register"}]_poolVars

\* Every call is answered and gives back what it took, overload or not: a
\* standstill is broken by the pool's timeout.
Answered == \A c \in Calls : stage[c] # "idle" ~> stage[c] = "idle"
=============================================================================
