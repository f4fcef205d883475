----------------------------- MODULE NeedProfile -----------------------------
(***************************************************************************)
(* One attendee's row of need_profiles under concurrent PUT /api/me/needs. *)
(* upsert_need_profile reads the row, assigns all seven columns, and       *)
(* commits; the unit of work then INSERTs the row if there was none, and   *)
(* otherwise UPDATEs the columns whose value differs from the one read,    *)
(* and only those.  (updated_at is left out.)                              *)
(***************************************************************************)
EXTENDS Integers, FiniteSets

CONSTANTS
    Columns,    \* the seven values of a profile
    Values,     \* what a column may hold
    Workers,    \* threads that hold a database session
    Nil         \* no row

Profiles == [Columns -> Values]

ASSUME ProfileAssumption ==
    /\ Columns # {}
    /\ Nil \notin Values \cup Profiles

VARIABLES
    row,        \* the attendee's row, or Nil
    call,       \* per worker, the row as it read it and the profile it puts
    reply       \* per worker, how its last call ended

vars == <<row, call, reply>>

Idle == [pc |-> "idle", read |-> Nil, put |-> Nil]

Calls == {Idle} \cup
    [pc : {"commit", "refresh"}, read : Profiles \cup {Nil}, put : Profiles]

\* "conflict" is an IntegrityError that no handler catches (a 500).
Replies == {"none", "ok", "conflict", "lost"}

Return(w, outcome) ==
    /\ call' = [call EXCEPT ![w] = Idle]
    /\ reply' = [reply EXCEPT ![w] = outcome]

\* Faulty on purpose: a column that is put as Falsy is taken for one that was
\* left out ("if payload.x: profile.x = payload.x").
Updated_TruthyOnly(now, read, put) ==
    LET Falsy == CHOOSE v \in Values : TRUE
    IN  [c \in Columns |-> IF put[c] = Falsy \/ put[c] = read[c] THEN now[c] ELSE put[c]]

\* The row after UPDATE ... SET of the columns that were changed in the session.
Updated(now, read, put) ==
    [c \in Columns |-> IF put[c] = read[c] THEN now[c] ELSE put[c]]

-----------------------------------------------------------------------------
Init ==
    /\ row = Nil
    /\ call = [w \in Workers |-> Idle]
    /\ reply = [w \in Workers |-> "none"]

PutLoad(w, p) ==
    /\ call[w] = Idle
    /\ call' = [call EXCEPT ![w] = [pc |-> "commit", read |-> row, put |-> p]]
    /\ reply' = [reply EXCEPT ![w] = "none"]
    /\ UNCHANGED row

\* The first PUT of an attendee inserts; the primary key fails whoever is second.
PutInsert(w) ==
    /\ call[w].pc = "commit"
    /\ call[w].read = Nil
    /\ \/ /\ row = Nil
          /\ row' = call[w].put
          /\ call' = [call EXCEPT ![w].pc = "refresh"]
          /\ UNCHANGED reply
       \/ row # Nil /\ Return(w, "conflict") /\ UNCHANGED row

PutUpdate(w) ==
    /\ call[w].pc = "commit"
    /\ call[w].read # Nil
    /\ row' = Updated(row, call[w].read, call[w].put)
    /\ call' = [call EXCEPT ![w].pc = "refresh"]
    /\ UNCHANGED reply

\* The committed row is read again for the answer.
PutRefresh(w) ==
    /\ call[w].pc = "refresh"
    /\ Return(w, "ok")
    /\ UNCHANGED row

\* The process or the connection fails: before the commit nothing was
\* written, after it the client does not learn that it was.
Fail(w) ==
    /\ call[w] # Idle
    /\ Return(w, "lost")
    /\ UNCHANGED row

Next ==
    \E w \in Workers :
        \/ \E p \in Profiles : PutLoad(w, p)
        \/ PutInsert(w) \/ PutUpdate(w) \/ PutRefresh(w) \/ Fail(w)

Spec == Init /\ [][Next]_vars

-----------------------------------------------------------------------------
TypeOK ==
    /\ row \in Profiles \cup {Nil}
    /\ call \in [Workers -> Calls]
    /\ reply \in [Workers -> Replies]

Ended(outcome) == IF outcome \in {"none", "ok"} THEN outcome ELSE "failed"

NoCall == [kind |-> "none", value |-> Nil]

\* A call as one column sees it: a value the session found there already was
\* written, in effect, when the row was read.
InColumn(c, k) ==
    [kind  |-> IF k.pc = "refresh" \/ (k.read # Nil /\ k.read[c] = k.put[c])
               THEN "written" ELSE "writing",
     value |-> k.put[c]]

Column(c) == INSTANCE AtomicRegister WITH
    value <- IF row = Nil THEN Nil ELSE row[c],
    status <- [w \in Workers |-> IF call[w] = Idle THEN NoCall ELSE InColumn(c, call[w])],
    outcome <- [w \in Workers |-> Ended(reply[w])]

\* However PUTs overlap and fail, each column on its own is an atomic
\* register: no update of a column is lost, torn or invented, and a call that
\* succeeds has put its value there (upsert_need_profile).
ColumnsAreAtomic ==
    /\ \A c \in Columns : Column(c)!Init
    /\ [][\A c \in Columns : Column(c)!Next \/ UNCHANGED Column(c)!vars]_vars

\* The same for the row as a whole.
InRow(k) ==
    [kind  |-> IF k.pc = "refresh" \/ k.read = k.put THEN "written" ELSE "writing",
     value |-> k.put]

Whole == INSTANCE AtomicRegister WITH
    Values <- Profiles,
    value <- row,
    status <- [w \in Workers |-> IF call[w] = Idle THEN NoCall ELSE InRow(call[w])],
    outcome <- [w \in Workers |-> Ended(reply[w])]

\* "Atomically replaces all seven profile values" (the docstring of
\* upsert_need_profile): the profile as a whole is an atomic register.  True
\* of one worker; two can leave a mix of two profiles that nobody put.
ReplacesAtomically == Whole!Spec
=============================================================================
