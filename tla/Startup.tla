------------------------------- MODULE Startup -------------------------------
(***************************************************************************)
(* start.sh on several instances at once, over one database: alembic       *)
(* upgrades the schema, then seed.py inserts the demo rows that are        *)
(* missing, then uvicorn serves.  `set -e` ends an instance at its first   *)
(* error, the platform starts it again, and it may be killed anywhere.     *)
(*                                                                         *)
(* Each of the two programs is one transaction.  DDL and the INSERT of a   *)
(* key wait for whoever holds the table or the key, and fail if it         *)
(* commits.                                                                *)
(***************************************************************************)
EXTENDS Integers, Sequences, FiniteSets

CONSTANTS
    Instances,
    KillLimit       \* bound: how often the platform kills an instance

ASSUME StartupAssumption == IsFiniteSet(Instances) /\ KillLimit \in Nat

\* Revisions 0001, 0002 and 0003.
LastRevision == 3

\* The tables the demo rows go to, in the order of seed_demo_data.  Sessions
\* autoflush: a query sends the rows added before it, so every session.get
\* first inserts the table before its own, and a flush never holds two tables.
\* The demo rows of one table stand or fall together.
Groups == <<
    {"users"}, {"need_profiles"}, {"organizers"}, {"venues"}, {"events"},
    {"accessibility_claims"}, {"accessibility_requests"} >>

Tables == UNION {Groups[k] : k \in DOMAIN Groups}

\* Demo rows that the API changes once somebody serves.
Changeable == {"need_profiles", "accessibility_requests"}

VARIABLES
    seed_demo_data, \* the setting SEED_DEMO_DATA
    schema,         \* table alembic_version: revisions applied, 0..3
    rows,           \* per table, its demo rows: none, seeded or changed
    pc,             \* per instance, the program it runs
    seen,           \* per instance, the revision alembic found
    group,          \* per instance, how far its seed has come in Groups
    missing,        \* per instance, rows found missing and not yet inserted
    pending,        \* per instance, rows inserted and not committed
    kills,          \* kills so far
    stopped         \* history: per instance, how often an error ended it

vars == <<seed_demo_data, schema, rows, pc, seen, group, missing, pending, kills, stopped>>

settings == <<seed_demo_data, kills>>
seeding == <<group, missing, pending>>

Programs == {"down", "start", "upgrade", "upgrading", "look", "insert", "serve"}

Enter(i, p) == pc' = [pc EXCEPT ![i] = p]

\* The process ends and with it its transaction.
Leave(i) ==
    /\ Enter(i, "down")
    /\ pending' = [pending EXCEPT ![i] = {}]
    /\ missing' = [missing EXCEPT ![i] = {}]
    /\ group' = [group EXCEPT ![i] = 1]

\* Bound: stops are counted up to this.
StopsCounted == 3

\* `set -e`: an error ends the instance.
Stop(i) ==
    /\ Leave(i)
    /\ stopped' = [stopped EXCEPT ![i] = IF @ < StopsCounted THEN @ + 1 ELSE @]

-----------------------------------------------------------------------------
\* A database that is empty, or that an earlier release has left: its schema,
\* and demo rows if it was told to seed them.
Init ==
    /\ seed_demo_data \in BOOLEAN
    /\ \/ schema = 0 /\ rows = [t \in Tables |-> "none"]
       \/ /\ schema \in 1..LastRevision
          /\ \E present \in {"none", "seeded", "changed"} :
                rows = [t \in Tables |-> IF present = "changed" /\ t \notin Changeable
                                         THEN "seeded" ELSE present]
    /\ pc = [i \in Instances |-> "down"]
    /\ seen = [i \in Instances |-> 0]
    /\ group = [i \in Instances |-> 1]
    /\ missing = [i \in Instances |-> {}]
    /\ pending = [i \in Instances |-> {}]
    /\ kills = 0
    /\ stopped = [i \in Instances |-> 0]

\* The platform starts an instance, or starts it again.
Restart(i) ==
    /\ pc[i] = "down"
    /\ Enter(i, "start")
    /\ UNCHANGED <<settings, schema, rows, seen, seeding, stopped>>

Kill(i) ==
    /\ pc[i] # "down" /\ kills < KillLimit
    /\ kills' = kills + 1
    /\ Leave(i)
    /\ UNCHANGED <<seed_demo_data, schema, rows, seen, stopped>>

(* alembic upgrade head.                                                   *)

AfterUpgrade == IF seed_demo_data THEN "look" ELSE "serve"

ReadRevision(i) ==
    /\ pc[i] = "start"
    /\ seen' = [seen EXCEPT ![i] = schema]
    /\ Enter(i, IF schema = LastRevision THEN AfterUpgrade ELSE "upgrade")
    /\ UNCHANGED <<settings, schema, rows, seeding, stopped>>

\* The first CREATE or ALTER waits for a transaction that does the same, and
\* fails when it finds it done.
BeginUpgrade(i) ==
    /\ pc[i] = "upgrade"
    /\ \A j \in Instances : pc[j] # "upgrading"
    /\ \/ /\ schema = seen[i]
          /\ Enter(i, "upgrading")
          /\ UNCHANGED <<seeding, stopped>>
       \/ schema # seen[i] /\ Stop(i)
    /\ UNCHANGED <<settings, schema, rows, seen>>

\* Faulty on purpose: every revision has a transaction of its own.
CommitUpgrade_OneRevision(i) ==
    /\ pc[i] = "upgrading"
    /\ schema' = schema + 1
    /\ seen' = [seen EXCEPT ![i] = schema + 1]
    /\ Enter(i, IF schema + 1 = LastRevision THEN AfterUpgrade ELSE "upgrade")
    /\ UNCHANGED <<settings, rows, seeding, stopped>>

\* All missing revisions, in one transaction.
CommitUpgrade(i) ==
    /\ pc[i] = "upgrading"
    /\ schema' = LastRevision
    /\ Enter(i, AfterUpgrade)
    /\ UNCHANGED <<settings, rows, seen, seeding, stopped>>

(* python -m app.cli seed.                                                 *)

\* Faulty on purpose: fixtures are inserted without looking for them.
Absent_Always(i, t) == TRUE

\* session.get(...) is None
Absent(i, t) == rows[t] = "none" /\ t \notin pending[i]

\* Faulty on purpose: fixtures are looked for in no fixed order.
Look_AnyOrder(i) ==
    /\ pc[i] = "look"
    /\ \E t \in Tables : missing' = [missing EXCEPT ![i] = {s \in {t} : Absent(i, s)}]
    /\ Enter(i, "insert")
    /\ UNCHANGED <<settings, schema, rows, seen, group, pending, stopped>>

\* A table that has its rows is passed over; the last one is followed by the
\* commit in any case.
Look(i) ==
    /\ pc[i] = "look"
    /\ LET absent == {t \in Groups[group[i]] : Absent(i, t)} IN
       /\ missing' = [missing EXCEPT ![i] = absent]
       /\ IF absent = {} /\ group[i] < Len(Groups)
          THEN group' = [group EXCEPT ![i] = @ + 1] /\ UNCHANGED pc
          ELSE Enter(i, "insert") /\ UNCHANGED group
    /\ UNCHANGED <<settings, schema, rows, seen, pending, stopped>>

\* Somebody else's uncommitted row of the same key is waited for.
Unlocked(i, t) == \A j \in Instances \ {i} : t \notin pending[j]

\* Faulty on purpose: every table is committed, not just flushed.
Insert_Commits(i) ==
    /\ pc[i] = "insert" /\ group[i] < Len(Groups)
    /\ \A t \in missing[i] : Unlocked(i, t)
    /\ IF \E t \in missing[i] : rows[t] # "none"
       THEN Stop(i) /\ UNCHANGED rows
       ELSE /\ rows' = [t \in Tables |-> IF t \in missing[i] THEN "seeded" ELSE rows[t]]
            /\ group' = [group EXCEPT ![i] = @ + 1]
            /\ Enter(i, "look")
            /\ UNCHANGED <<missing, pending, stopped>>
    /\ UNCHANGED <<settings, schema, seen>>

\* Faulty on purpose: the last table is flushed like the others.
Insert_LastToo(i) ==
    /\ pc[i] = "insert"
    /\ \A t \in missing[i] : Unlocked(i, t)
    /\ IF \E t \in missing[i] : rows[t] # "none"
       THEN Stop(i)
       ELSE /\ pending' = [pending EXCEPT ![i] = @ \cup missing[i]]
            /\ group' = [group EXCEPT ![i] = @ + 1]
            /\ Enter(i, "look")
            /\ UNCHANGED <<missing, stopped>>
    /\ UNCHANGED <<settings, schema, rows, seen>>

\* The autoflush of the next session.get, or session.flush().
Insert(i) ==
    /\ pc[i] = "insert" /\ group[i] < Len(Groups)
    /\ \A t \in missing[i] : Unlocked(i, t)
    /\ IF \E t \in missing[i] : rows[t] # "none"
       THEN Stop(i)
       ELSE /\ pending' = [pending EXCEPT ![i] = @ \cup missing[i]]
            /\ group' = [group EXCEPT ![i] = @ + 1]
            /\ Enter(i, "look")
            /\ UNCHANGED <<missing, stopped>>
    /\ UNCHANGED <<settings, schema, rows, seen>>

\* Faulty on purpose: the fixtures are merged over what is there.
CommitSeed_Merges(i) ==
    /\ pc[i] = "insert" /\ group[i] = Len(Groups)
    /\ \A t \in missing[i] : Unlocked(i, t)
    /\ rows' = [t \in Tables |-> "seeded"]
    /\ pending' = [pending EXCEPT ![i] = {}]
    /\ missing' = [missing EXCEPT ![i] = {}]
    /\ group' = [group EXCEPT ![i] = 1]
    /\ Enter(i, "serve")
    /\ UNCHANGED <<settings, schema, seen, stopped>>

\* session.commit() flushes the last table first; then uvicorn starts.
CommitSeed(i) ==
    /\ pc[i] = "insert" /\ group[i] = Len(Groups)
    /\ \A t \in missing[i] : Unlocked(i, t)
    /\ IF \E t \in missing[i] : rows[t] # "none"
       THEN Stop(i) /\ UNCHANGED rows
       ELSE /\ rows' = [t \in Tables |->
                    IF t \in missing[i] \cup pending[i] THEN "seeded" ELSE rows[t]]
            /\ pending' = [pending EXCEPT ![i] = {}]
            /\ missing' = [missing EXCEPT ![i] = {}]
            /\ group' = [group EXCEPT ![i] = 1]
            /\ Enter(i, "serve")
            /\ UNCHANGED stopped
    /\ UNCHANGED <<settings, schema, seen>>

(* A server that runs: people use the demo accounts.                       *)
Use(i, t) ==
    /\ pc[i] = "serve"
    /\ rows[t] = "seeded"
    /\ rows' = [rows EXCEPT ![t] = "changed"]
    /\ UNCHANGED <<settings, schema, pc, seen, seeding, stopped>>

Step(i) ==
    \/ ReadRevision(i) \/ BeginUpgrade(i) \/ CommitUpgrade(i)
    \/ Look(i) \/ Insert(i) \/ CommitSeed(i)

Next ==
    \E i \in Instances :
        Restart(i) \/ Kill(i) \/ Step(i) \/ \E t \in Changeable : Use(i, t)

Spec == Init /\ [][Next]_vars

\* The platform starts an instance that is down, and a program goes on unless
\* it waits for another's transaction.
Fairness == \A i \in Instances : WF_vars(Restart(i)) /\ WF_vars(Step(i))

FairSpec == Spec /\ Fairness

-----------------------------------------------------------------------------
Seeded == {t \in Tables : rows[t] # "none"}

TypeOK ==
    /\ seed_demo_data \in BOOLEAN
    /\ schema \in 0..LastRevision
    /\ rows \in [Tables -> {"none", "seeded", "changed"}]
    /\ pc \in [Instances -> Programs]
    /\ seen \in [Instances -> 0..LastRevision]
    /\ group \in [Instances -> DOMAIN Groups]
    /\ missing \in [Instances -> SUBSET Tables]
    /\ pending \in [Instances -> SUBSET Tables]
    /\ kills \in 0..KillLimit
    /\ stopped \in [Instances -> 0..StopsCounted]

\* The demo rows are there all together or not at all, however instances
\* overlap and die (one transaction in seed_demo_data), and nobody serves
\* before the schema is at its head and, if wanted, the rows are in: a running
\* server never answers DEMO_DATA_MISSING.
ServesOnlyWhole ==
    /\ Seeded \in {{}, Tables}
    /\ \A i \in Instances : pc[i] = "serve" =>
          schema = LastRevision /\ (seed_demo_data => Seeded = Tables)

\* A seed that waits for another's keys holds none itself: all seeds take the
\* tables in one order (seed_demo_data), so the first table decides who goes on,
\* and no two of them ever wait for each other.
WaitersHoldNothing ==
    \A i \in Instances :
        pc[i] = "insert" /\ (\E t \in missing[i] : ~Unlocked(i, t)) => pending[i] = {}

\* "never overwrite a running demo's state" (seed_demo_data): what people have
\* changed stays as they left it, through every later start.
NeverOverwrites ==
    [][\A t \in Tables : rows[t] = "changed" => rows'[t] = "changed"]_vars

\* Instances that start together get in each other's way only so often: each
\* is stopped at most once by another's upgrade and once by another's seed, for
\* then it finds the work done (start.sh has no lock and no retry of its own).
StoppedAtMostTwice == \A i \in Instances : stopped[i] <= 2

\* Once the platform stops killing them all instances serve, whoever was
\* stopped or made to wait by another's transaction.
AllServe == \A i \in Instances : <>[](pc[i] = "serve")
=============================================================================
