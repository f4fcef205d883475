---------------------------- MODULE AtomicRegister ----------------------------
(***************************************************************************)
(* A register that concurrent calls replace: each call that ends well has  *)
(* put its value there at one moment between its begin and its end, and a  *)
(* call that fails has done so at most once.  This is what "atomically     *)
(* replaces" says of PUT /api/me/needs (upsert_need_profile).              *)
(***************************************************************************)
CONSTANTS
    Workers,    \* the threads that run calls
    Values,     \* what a call may write
    Nil         \* nothing written yet

VARIABLES
    value,      \* the register
    status,     \* per worker: no call, a value still to write, or written
    outcome     \* per worker, how its last call ended

vars == <<value, status, outcome>>

NoCall == [kind |-> "none", value |-> Nil]
Writing(v) == [kind |-> "writing", value |-> v]
Written(v) == [kind |-> "written", value |-> v]

Init ==
    /\ value = Nil
    /\ status = [w \in Workers |-> NoCall]
    /\ outcome = [w \in Workers |-> "none"]

\* A call may take effect as it begins, when its value is there already.
Begin(w, v) ==
    /\ status[w] = NoCall
    /\ \/ status' = [status EXCEPT ![w] = Writing(v)]
       \/ value = v /\ status' = [status EXCEPT ![w] = Written(v)]
    /\ outcome' = [outcome EXCEPT ![w] = "none"]
    /\ UNCHANGED value

Write(w) ==
    /\ status[w].kind = "writing"
    /\ value' = status[w].value
    /\ status' = [status EXCEPT ![w] = Written(status[w].value)]
    /\ UNCHANGED outcome

Succeed(w) ==
    /\ status[w].kind = "written"
    /\ status' = [status EXCEPT ![w] = NoCall]
    /\ outcome' = [outcome EXCEPT ![w] = "ok"]
    /\ UNCHANGED value

FailCall(w) ==
    /\ status[w] # NoCall
    /\ status' = [status EXCEPT ![w] = NoCall]
    /\ outcome' = [outcome EXCEPT ![w] = "failed"]
    /\ UNCHANGED value

Next ==
    \E w \in Workers :
        \/ \E v \in Values : Begin(w, v)
        \/ Write(w) \/ Succeed(w) \/ FailCall(w)

Spec == Init /\ [][Next]_vars
=============================================================================
