-------------------------- MODULE NeedProfileProofs --------------------------
(***************************************************************************)
(* Proofs about concurrent PUTs of one need profile, for every set of      *)
(* columns, values and workers.                                            *)
(***************************************************************************)
EXTENDS NeedProfile, TLAPS

\* No handler deletes a row: one that a call has read is still there.
ReadRowExists ==
    \A w \in Workers : call[w].read # Nil => row # Nil

IInv == TypeOK /\ ReadRowExists

-----------------------------------------------------------------------------
(* The inductive invariant.                                                *)

LEMMA ProfileInductive ==
    ASSUME IInv, [Next]_vars
    PROVE  IInv'
<1> USE DEF IInv, TypeOK, ReadRowExists, Calls, Idle, Replies
<1>1. ASSUME NEW w \in Workers, NEW p \in Profiles, PutLoad(w, p)
      PROVE  IInv'
  BY <1>1 DEF PutLoad
<1>2. ASSUME NEW w \in Workers, PutInsert(w)
      PROVE  IInv'
  <2>1. call[w].put \in Profiles /\ call[w].put # Nil
    BY <1>2, ProfileAssumption DEF PutInsert
  <2>2. CASE row = Nil /\ row' = call[w].put /\ reply' = reply
             /\ call' = [call EXCEPT ![w].pc = "refresh"]
    BY <1>2, <2>1, <2>2 DEF PutInsert
  <2>3. CASE row' = row /\ Return(w, "conflict")
    BY <2>3 DEF Return
  <2> QED BY <1>2, <2>2, <2>3 DEF PutInsert
<1>3. ASSUME NEW w \in Workers, PutUpdate(w)
      PROVE  IInv'
  <2>1. call[w].read \in Profiles /\ call[w].put \in Profiles /\ row \in Profiles
    BY <1>3 DEF PutUpdate
  <2>2. row' \in Profiles /\ row' # Nil
    BY <1>3, <2>1, ProfileAssumption DEF PutUpdate, Updated, Profiles
  <2> QED BY <1>3, <2>1, <2>2 DEF PutUpdate
<1>4. ASSUME NEW w \in Workers, PutRefresh(w)
      PROVE  IInv'
  BY <1>4 DEF PutRefresh, Return
<1>5. ASSUME NEW w \in Workers, Fail(w)
      PROVE  IInv'
  BY <1>5 DEF Fail, Return
<1>6. CASE UNCHANGED vars
  BY <1>6 DEF vars
<1> QED BY <1>1, <1>2, <1>3, <1>4, <1>5, <1>6 DEF Next

LEMMA ProfileInit == Init => IInv
BY DEF Init, IInv, TypeOK, ReadRowExists, Calls, Idle, Replies

\* Whatever calls overlap or fail, the tables and the calls are well typed.
THEOREM ProfileTypeCorrect == Spec => []TypeOK
<1>1. IInv => TypeOK
  BY DEF IInv
<1> QED BY <1>1, ProfileInit, ProfileInductive, PTL DEF Spec

-----------------------------------------------------------------------------
(* Each column is an atomic register.                                      *)

\* The register's view of the calls, hidden from the provers where they need
\* only know that it is a function of each worker's own call.
Seen(c, k) == IF k = Idle THEN NoCall ELSE InColumn(c, k)

LEMMA SeenCalls ==
    ASSUME NEW c \in Columns
    PROVE  /\ Seen(c, Idle) = NoCall
           /\ \A k : k # Idle => Seen(c, k) = InColumn(c, k)
           /\ \A k : k.pc # "idle" => k # Idle
BY DEF Seen, Idle

LEMMA ColumnInit == ASSUME Init, NEW c \in Columns PROVE Column(c)!Init
BY SeenCalls DEF Init, Column!Init, Column!NoCall, NoCall, Ended

LEMMA ColumnStep ==
    ASSUME IInv, [Next]_vars, NEW c \in Columns
    PROVE  Column(c)!Next \/ UNCHANGED Column(c)!vars
<1> DEFINE status == [w \in Workers |-> Seen(c, call[w])]
           outcome == [w \in Workers |-> Ended(reply[w])]
           value == IF row = Nil THEN Nil ELSE row[c]
<1> USE DEF IInv, TypeOK
<1>e. Ended("none") = "none" /\ Ended("ok") = "ok"
      /\ Ended("conflict") = "failed" /\ Ended("lost") = "failed"
  BY DEF Ended
<1>s. ASSUME NEW w \in Workers, NEW k, call' = [call EXCEPT ![w] = k]
      PROVE  status' = [status EXCEPT ![w] = Seen(c, k)]
  BY <1>s
<1>o. ASSUME NEW w \in Workers, NEW r, reply' = [reply EXCEPT ![w] = r]
      PROVE  outcome' = [outcome EXCEPT ![w] = Ended(r)]
  BY <1>o
<1>1. ASSUME NEW w \in Workers, NEW p \in Profiles, PutLoad(w, p)
      PROVE  Column(c)!Begin(w, p[c])
  <2> DEFINE k == [pc |-> "commit", read |-> row, put |-> p]
  <2>1. status[w] = NoCall
    BY <1>1 DEF PutLoad, Seen
  <2>2. status' = [status EXCEPT ![w] = Seen(c, k)] /\ Seen(c, k) = InColumn(c, k)
    BY <1>1, <1>s DEF PutLoad, Seen, Idle
  <2>3. outcome' = [outcome EXCEPT ![w] = "none"]
    BY <1>1, <1>o, <1>e DEF PutLoad
  <2>4. InColumn(c, k) = [kind |-> IF row # Nil /\ row[c] = p[c] THEN "written" ELSE "writing",
                          value |-> p[c]]
    BY DEF InColumn
  <2>5. value' = value
    BY <1>1 DEF PutLoad
  <2> QED
    BY <2>1, <2>2, <2>3, <2>4, <2>5 DEF Column!Begin, Column!NoCall, NoCall, Column!Writing,
       Column!Written, Seen
<1>2. ASSUME NEW w \in Workers, PutInsert(w)
      PROVE  Column(c)!Write(w) \/ Column(c)!FailCall(w)
  <2> DEFINE k == [call[w] EXCEPT !.pc = "refresh"]
  <2>0. call[w] \in [pc : {"commit", "refresh"}, read : Profiles \cup {Nil}, put : Profiles]
        /\ call[w] # Idle
    BY <1>2 DEF PutInsert, Calls, Idle
  <2>1. status[w] = InColumn(c, call[w]) /\ InColumn(c, call[w]) # NoCall
    BY <2>0 DEF Seen, InColumn, NoCall
  <2>2. CASE row = Nil /\ row' = call[w].put /\ reply' = reply
             /\ call' = [call EXCEPT ![w] = k]
    <3>1. InColumn(c, call[w]) = [kind |-> "writing", value |-> call[w].put[c]]
      BY <1>2 DEF PutInsert, InColumn
    <3>2. status' = [status EXCEPT ![w] = Seen(c, k)]
      BY <2>2, <1>s
    <3>3. Seen(c, k) = [kind |-> "written", value |-> call[w].put[c]]
      BY <2>0 DEF Seen, InColumn, Idle
    <3>4. value' = call[w].put[c]
      BY <2>0, <2>2, ProfileAssumption
    <3>5. outcome' = outcome
      BY <2>2
    <3> QED
      <4>1. status[w].kind = "writing" /\ status[w].value = call[w].put[c]
        BY <2>1, <3>1
      <4>2. status' = [status EXCEPT ![w] = Column(c)!Written(status[w].value)]
        BY <3>2, <3>3, <4>1 DEF Column!Written
      <4>3. value' = status[w].value
        BY <3>4, <4>1
      <4> QED BY <3>5, <4>1, <4>2, <4>3 DEF Column!Write, Seen
  <2>3. CASE row' = row /\ Return(w, "conflict")
    <3>1. status' = [status EXCEPT ![w] = NoCall]
      BY <2>3, <1>s, SeenCalls DEF Return
    <3>2. outcome' = [outcome EXCEPT ![w] = "failed"]
      BY <2>3, <1>o, <1>e DEF Return
    <3> QED
      BY <2>1, <2>3, <3>1, <3>2 DEF Column!FailCall, Column!NoCall, NoCall, Seen
  <2> QED BY <1>2, <2>2, <2>3 DEF PutInsert
<1>3. ASSUME NEW w \in Workers, PutUpdate(w)
      PROVE  Column(c)!Write(w) \/ UNCHANGED Column(c)!vars
  <2> DEFINE k == [call[w] EXCEPT !.pc = "refresh"]
  <2>0. /\ call[w] \in [pc : {"commit", "refresh"}, read : Profiles, put : Profiles]
        /\ call[w] # Idle /\ row \in Profiles
    BY <1>3 DEF PutUpdate, Calls, Idle, ReadRowExists
  <2>1. status[w] = InColumn(c, call[w])
    BY <2>0 DEF Seen
  <2>2. status' = [status EXCEPT ![w] = Seen(c, k)]
    BY <1>3, <1>s DEF PutUpdate
  <2>3. Seen(c, k) = [kind |-> "written", value |-> call[w].put[c]]
    BY <2>0 DEF Seen, InColumn, Idle
  <2>4. outcome' = outcome
    BY <1>3 DEF PutUpdate
  <2>5. row' \in [Columns -> Values] /\ row' # Nil
    BY <1>3, <2>0, ProfileAssumption DEF PutUpdate, Updated, Profiles
  <2>6. value' = IF call[w].put[c] = call[w].read[c] THEN value ELSE call[w].put[c]
    BY <1>3, <2>0, <2>5, ProfileAssumption DEF PutUpdate, Updated
  <2>7. CASE call[w].read[c] = call[w].put[c]
    <3>1. InColumn(c, call[w]) = [kind |-> "written", value |-> call[w].put[c]]
      BY <1>3, <2>7 DEF PutUpdate, InColumn
    <3>2. status' = status
      BY <2>1, <2>2, <2>3, <3>1
    <3> QED BY <2>4, <2>6, <2>7, <3>2 DEF Column!vars, Seen
  <2>8. CASE call[w].read[c] # call[w].put[c]
    <3>1. InColumn(c, call[w]) = [kind |-> "writing", value |-> call[w].put[c]]
      BY <1>3, <2>8 DEF PutUpdate, InColumn
    <3> QED
      <4>1. status[w].kind = "writing" /\ status[w].value = call[w].put[c]
        BY <2>1, <3>1
      <4>2. status' = [status EXCEPT ![w] = Column(c)!Written(status[w].value)]
        BY <2>2, <2>3, <4>1 DEF Column!Written
      <4>3. value' = status[w].value
        BY <2>6, <2>8, <4>1
      <4> QED BY <2>4, <4>1, <4>2, <4>3 DEF Column!Write, Seen
  <2> QED BY <2>7, <2>8
<1>4. ASSUME NEW w \in Workers, PutRefresh(w)
      PROVE  Column(c)!Succeed(w)
  <2>1. status[w].kind = "written"
    BY <1>4 DEF PutRefresh, Seen, InColumn, Idle
  <2>2. status' = [status EXCEPT ![w] = NoCall]
    BY <1>4, <1>s, SeenCalls DEF PutRefresh, Return
  <2>3. outcome' = [outcome EXCEPT ![w] = "ok"]
    BY <1>4, <1>o, <1>e DEF PutRefresh, Return
  <2> QED
    BY <1>4, <2>1, <2>2, <2>3 DEF PutRefresh, Column!Succeed, Column!NoCall, NoCall, Seen
<1>5. ASSUME NEW w \in Workers, Fail(w)
      PROVE  Column(c)!FailCall(w)
  <2>1. status[w] # NoCall
    BY <1>5 DEF Fail, Seen, InColumn, NoCall
  <2>2. status' = [status EXCEPT ![w] = NoCall]
    BY <1>5, <1>s, SeenCalls DEF Fail, Return
  <2>3. outcome' = [outcome EXCEPT ![w] = "failed"]
    BY <1>5, <1>o, <1>e DEF Fail, Return
  <2> QED
    BY <1>5, <2>1, <2>2, <2>3 DEF Fail, Column!FailCall, Column!NoCall, NoCall, Seen
<1>6. CASE UNCHANGED vars
  BY <1>6 DEF vars, Column!vars
<1>7. ASSUME NEW p \in Profiles PROVE p[c] \in Values
  BY DEF Profiles
<1> QED BY <1>1, <1>2, <1>3, <1>4, <1>5, <1>6, <1>7 DEF Next, Column!Next

\* However PUTs overlap and fail, every column on its own is an atomic register.
THEOREM ColumnsAreAtomicRegisters == Spec => ColumnsAreAtomic
<1>1. Init => \A c \in Columns : Column(c)!Init
  BY ColumnInit
<1>2. IInv /\ [Next]_vars
        => [\A c \in Columns : Column(c)!Next \/ UNCHANGED Column(c)!vars]_vars
  BY ColumnStep
<1> QED BY <1>1, <1>2, ProfileInit, ProfileInductive, PTL DEF Spec, ColumnsAreAtomic

-----------------------------------------------------------------------------
(* With one worker the whole profile is an atomic register.                *)

OneWorker == \E w \in Workers : Workers = {w}

\* Nobody commits between the read and the commit of the only worker.
ReadIsCurrent ==
    \A w \in Workers : call[w].pc = "commit" => call[w].read = row

LEMMA SerialInductive ==
    ASSUME OneWorker, IInv, ReadIsCurrent, [Next]_vars
    PROVE  ReadIsCurrent'
<1> USE DEF IInv, TypeOK, ReadIsCurrent, OneWorker, Idle, Calls
<1>1. ASSUME NEW w \in Workers, NEW p \in Profiles, PutLoad(w, p)
      PROVE  ReadIsCurrent'
  BY <1>1 DEF PutLoad
<1>2. ASSUME NEW w \in Workers, PutInsert(w) \/ PutUpdate(w)
      PROVE  ReadIsCurrent'
  <2>1. call'[w].pc # "commit"
    BY <1>2 DEF PutInsert, PutUpdate, Return
  <2> QED BY <2>1
<1>3. ASSUME NEW w \in Workers, PutRefresh(w) \/ Fail(w)
      PROVE  ReadIsCurrent'
  BY <1>3 DEF PutRefresh, Fail, Return
<1>4. CASE UNCHANGED vars
  BY <1>4 DEF vars
<1> QED BY <1>1, <1>2, <1>3, <1>4 DEF Next

SeenRow(k) == IF k = Idle THEN NoCall ELSE InRow(k)

LEMMA WholeInit == Init => Whole!Init
BY DEF Init, Whole!Init, Whole!NoCall, NoCall, Ended

LEMMA WholeStep ==
    ASSUME OneWorker, IInv, ReadIsCurrent, [Next]_vars
    PROVE  Whole!Next \/ UNCHANGED Whole!vars
<1> DEFINE status == [w \in Workers |-> SeenRow(call[w])]
           outcome == [w \in Workers |-> Ended(reply[w])]
<1> USE DEF IInv, TypeOK
<1>e. /\ Ended("none") = "none" /\ Ended("ok") = "ok"
      /\ Ended("conflict") = "failed" /\ Ended("lost") = "failed"
      /\ SeenRow(Idle) = NoCall
  BY DEF Ended, SeenRow
<1>s. ASSUME NEW w \in Workers, NEW k, call' = [call EXCEPT ![w] = k]
      PROVE  status' = [status EXCEPT ![w] = SeenRow(k)]
  BY <1>s
<1>o. ASSUME NEW w \in Workers, NEW r, reply' = [reply EXCEPT ![w] = r]
      PROVE  outcome' = [outcome EXCEPT ![w] = Ended(r)]
  BY <1>o
<1>1. ASSUME NEW w \in Workers, NEW p \in Profiles, PutLoad(w, p)
      PROVE  Whole!Begin(w, p)
  <2> DEFINE k == [pc |-> "commit", read |-> row, put |-> p]
  <2>1. status[w] = NoCall
    BY <1>1 DEF PutLoad, SeenRow
  <2>2. status' = [status EXCEPT ![w] = SeenRow(k)]
    BY <1>1, <1>s DEF PutLoad
  <2>3. SeenRow(k) = [kind |-> IF row = p THEN "written" ELSE "writing", value |-> p]
    BY DEF SeenRow, InRow, Idle
  <2>4. outcome' = [outcome EXCEPT ![w] = "none"]
    BY <1>1, <1>o, <1>e DEF PutLoad
  <2> QED
    BY <1>1, <2>1, <2>2, <2>3, <2>4 DEF PutLoad, Whole!Begin, Whole!NoCall, NoCall,
       Whole!Writing, Whole!Written, SeenRow
<1>2. ASSUME NEW w \in Workers, PutInsert(w) \/ PutUpdate(w)
      PROVE  Whole!Write(w) \/ UNCHANGED Whole!vars
  <2> DEFINE k == [call[w] EXCEPT !.pc = "refresh"]
  <2>0. /\ call[w] \in [pc : {"commit", "refresh"}, read : Profiles \cup {Nil}, put : Profiles]
        /\ call[w].pc = "commit" /\ call[w].read = row /\ call[w] # Idle
    BY <1>2 DEF PutInsert, PutUpdate, ReadIsCurrent, Calls, Idle
  <2>1. row' = call[w].put /\ reply' = reply /\ call' = [call EXCEPT ![w] = k]
    <3>1. CASE row = Nil
      BY <1>2, <2>0, <3>1 DEF PutInsert, PutUpdate
    <3>2. CASE row # Nil
      <4>1. Updated(row, row, call[w].put) = call[w].put
        BY <2>0, <3>2 DEF Updated, Profiles
      <4> QED BY <1>2, <2>0, <3>2, <4>1 DEF PutInsert, PutUpdate
    <3> QED BY <3>1, <3>2
  <2>2. status' = [status EXCEPT ![w] = SeenRow(k)]
    BY <2>1, <1>s
  <2>3. SeenRow(k) = [kind |-> "written", value |-> call[w].put]
    BY <2>0 DEF SeenRow, InRow, Idle
  <2>4. status[w] = [kind |-> IF row = call[w].put THEN "written" ELSE "writing",
                     value |-> call[w].put]
    BY <2>0 DEF SeenRow, InRow
  <2>5. outcome' = outcome
    BY <2>1
  <2>6. CASE row = call[w].put
    <3>1. status' = status
      BY <2>2, <2>3, <2>4, <2>6
    <3> QED BY <2>1, <2>5, <2>6, <3>1 DEF Whole!vars, SeenRow
  <2>7. CASE row # call[w].put
    <3>1. status[w].kind = "writing" /\ status[w].value = call[w].put
      BY <2>4, <2>7
    <3>2. status' = [status EXCEPT ![w] = Whole!Written(status[w].value)]
      BY <2>2, <2>3, <3>1 DEF Whole!Written
    <3> QED BY <2>1, <2>5, <3>1, <3>2 DEF Whole!Write, SeenRow
  <2> QED BY <2>6, <2>7
<1>3. ASSUME NEW w \in Workers, PutRefresh(w)
      PROVE  Whole!Succeed(w)
  <2>1. status[w].kind = "written"
    BY <1>3 DEF PutRefresh, SeenRow, InRow, Idle
  <2>2. status' = [status EXCEPT ![w] = NoCall]
    BY <1>3, <1>s, <1>e DEF PutRefresh, Return
  <2>3. outcome' = [outcome EXCEPT ![w] = "ok"]
    BY <1>3, <1>o, <1>e DEF PutRefresh, Return
  <2> QED
    BY <1>3, <2>1, <2>2, <2>3 DEF PutRefresh, Whole!Succeed, Whole!NoCall, NoCall, SeenRow
<1>4. ASSUME NEW w \in Workers, Fail(w)
      PROVE  Whole!FailCall(w)
  <2>1. status[w] # NoCall
    BY <1>4 DEF Fail, SeenRow, InRow, NoCall
  <2>2. status' = [status EXCEPT ![w] = NoCall]
    BY <1>4, <1>s, <1>e DEF Fail, Return
  <2>3. outcome' = [outcome EXCEPT ![w] = "failed"]
    BY <1>4, <1>o, <1>e DEF Fail, Return
  <2> QED
    BY <1>4, <2>1, <2>2, <2>3 DEF Fail, Whole!FailCall, Whole!NoCall, NoCall, SeenRow
<1>5. CASE UNCHANGED vars
  BY <1>5 DEF vars, Whole!vars
<1> QED BY <1>1, <1>2, <1>3, <1>4, <1>5 DEF Next, Whole!Next

\* Without overlap, a PUT replaces all the values of the profile at once.
THEOREM SerialReplacesAtomically ==
    ASSUME OneWorker PROVE Spec => ReplacesAtomically
<1>1. Init => ReadIsCurrent
  BY DEF Init, ReadIsCurrent, Idle
<1>2. IInv /\ ReadIsCurrent /\ [Next]_vars => IInv' /\ ReadIsCurrent'
  BY ProfileInductive, SerialInductive
<1>3. IInv /\ ReadIsCurrent /\ [Next]_vars => [Whole!Next]_(Whole!vars)
  BY WholeStep
<1> QED
  BY <1>1, <1>2, <1>3, ProfileInit, WholeInit, PTL DEF Spec, ReplacesAtomically, Whole!Spec

=============================================================================
