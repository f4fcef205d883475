------------------------ MODULE RequestServiceProofs ------------------------
(***************************************************************************)
(* Theorems about RequestService that hold for any number of users,        *)
(* events, requests and workers: what every interleaving keeps, how many   *)
(* active requests there can be, what the atomic contract promises, and    *)
(* that the service with one worker implements it.                         *)
(*                                                                         *)
(* The argument.  A handler commits on what it loaded, so the proof has to *)
(* say what is still true of the row when the commit comes: that is        *)
(* InFlight.  It rests on two facts about the tables: rows of completed    *)
(* events are only the seeded one (ApiRows, SeedRow), and no row ever goes *)
(* back to "pending" (from RowsCoherent and InFlight together).            *)
(***************************************************************************)
EXTENDS RequestService, FiniteSetTheorems, TLAPS

\* Requests made through the API are for events still called upcoming, and
\* are therefore never verified.
ApiRows ==
    \A r \in Requests \ {PastRequest} :
        requests[r].status # "none" =>
            /\ requests[r].event \in Events
            /\ events[requests[r].event].status = "upcoming"
            /\ requests[r].status # "verified"

\* The seeded request stays what seed.py made it, apart from being verified.
SeedRow ==
    /\ requests[PastRequest].status \in {"confirmed", "verified"}
    /\ requests[PastRequest].event = PastEvent
    /\ requests[PastRequest].decision # Nil
    /\ requests[PastRequest].confirmed_at
    /\ events[PastEvent].status = "completed"
    /\ events[PastEvent].ends_at = -1

\* What a call in flight may rely on, though its row may have changed since.
CreateOK(c) ==
    c.pc \in {"create_check", "create_commit"} =>
        /\ c.user \in Attendees
        /\ c.event \in Events
        /\ c.needs \in Needs
        /\ events[c.event].status = "upcoming"

RespondOK(c) ==
    c.pc = "respond_commit" =>
        /\ c.request \in Requests \ {PastRequest}
        /\ c.answer \in Decisions
        /\ requests[c.request].status \notin {"none", "verified"}

ConfirmOK(c) ==
    c.pc = "confirm_commit" =>
        /\ c.request \in Requests \ {PastRequest}
        /\ requests[c.request].status \in {"responded", "confirmed", "closed"}
        /\ requests[c.request].decision # Nil

VerifyOK(c) ==
    /\ c.pc = "verify_check" =>
            c.request \in Requests /\ requests[c.request].status # "none"
    /\ c.pc = "verify_commit" => c.request = PastRequest

InFlight ==
    \A w \in Workers : /\ CreateOK(call[w])
                       /\ RespondOK(call[w])
                       /\ ConfirmOK(call[w])
                       /\ VerifyOK(call[w])

IInv ==
    /\ TypeOK
    /\ ApiRows
    /\ SeedRow
    /\ VerifiedIffVerification
    /\ RowsCoherent
    /\ InFlight

-----------------------------------------------------------------------------
LEMMA InitIInv == Init => IInv
<1> SUFFICES ASSUME Init PROVE IInv
  OBVIOUS
<1> USE ConstantsAssumption
<1>1. TypeOK
  <2>1. events \in [Events -> EventRow \cup {NoEvent}]
    BY SMT DEF Init, SeedEvents, NoEvent, EventRow
  <2>2. requests \in [Requests -> RequestRow \cup {NoRequest}]
    BY SMT DEF Init, SeedRequests, NoRequest, RequestRow, Decisions, Statuses
  <2>3. profiles \in [Attendees -> Needs \cup {Nil}]
    BY DEF Init, SeedProfiles
  <2>4. call \in [Workers -> CallState] /\ reply \in [Workers -> Replies]
    BY DEF Init, Idle, CallState, Steps, Replies
  <2> QED
    BY <2>1, <2>2, <2>3, <2>4 DEF Init, TypeOK
<1>2. ApiRows
  BY DEF Init, ApiRows, SeedRequests, NoRequest
<1>3. SeedRow
  BY SMT DEF Init, SeedRow, SeedRequests, SeedEvents, Decisions
<1>4. VerifiedIffVerification
  BY DEF Init, VerifiedIffVerification, SeedRequests, NoRequest
<1>5. RowsCoherent
  BY SMT DEF Init, RowsCoherent, SeedRequests, NoRequest, Decisions
<1>6. InFlight
  BY DEF Init, InFlight, CreateOK, RespondOK, ConfirmOK, VerifyOK, Idle
<1> QED
  BY <1>1, <1>2, <1>3, <1>4, <1>5, <1>6 DEF IInv

-----------------------------------------------------------------------------
(* The three ways a step can touch the calls.                              *)

\* Ending a call, with any outcome, keeps the calls well formed.
LEMMA ReturnTypes ==
    ASSUME TypeOK, NEW w \in Workers, NEW outcome \in Replies, Return(w, outcome)
    PROVE  /\ call' \in [Workers -> CallState]
           /\ reply' \in [Workers -> Replies]
           /\ call' = [call EXCEPT ![w] = Idle]
<1>1. Idle \in CallState
  BY DEF Idle, CallState, Steps
<1> QED
  BY <1>1 DEF TypeOK, Return

\* A step that leaves the tables alone keeps IInv if the calls stay right.
LEMMA TablesUnchanged ==
    ASSUME IInv, UNCHANGED <<now, tables>>,
           call' \in [Workers -> CallState], reply' \in [Workers -> Replies],
           NEW w \in Workers, \A v \in Workers \ {w} : call'[v] = call[v],
           CreateOK(call'[w]), RespondOK(call'[w]), ConfirmOK(call'[w]), VerifyOK(call'[w])
    PROVE  IInv'
<1>1. TypeOK'
  BY DEF IInv, TypeOK, tables
<1>2. ApiRows' /\ SeedRow' /\ VerifiedIffVerification' /\ RowsCoherent'
  BY DEF IInv, tables, ApiRows, SeedRow, VerifiedIffVerification, RowsCoherent
<1>3. InFlight'
  <2> SUFFICES ASSUME NEW v \in Workers
               PROVE  /\ CreateOK(call[v])' /\ RespondOK(call[v])'
                      /\ ConfirmOK(call[v])' /\ VerifyOK(call[v])'
    BY DEF InFlight
  <2>1. CASE v = w
    BY <2>1 DEF tables, CreateOK, RespondOK, ConfirmOK, VerifyOK
  <2>2. CASE v # w
    BY <2>2 DEF IInv, InFlight, tables, CreateOK, RespondOK, ConfirmOK, VerifyOK
  <2> QED
    BY <2>1, <2>2
<1> QED
  BY <1>1, <1>2, <1>3 DEF IInv

\* In particular, so does ending a call without a commit.
LEMMA ReturnUnchanged ==
    ASSUME IInv, UNCHANGED <<now, tables>>,
           NEW w \in Workers, NEW outcome \in Replies, Return(w, outcome)
    PROVE  IInv'
<1>1. /\ call' \in [Workers -> CallState]
      /\ reply' \in [Workers -> Replies]
      /\ call' = [call EXCEPT ![w] = Idle]
  BY ReturnTypes DEF IInv
<1>2. call'[w] = Idle /\ \A v \in Workers \ {w} : call'[v] = call[v]
  BY <1>1 DEF IInv, TypeOK
<1>3. /\ CreateOK(call'[w]) /\ RespondOK(call'[w])
      /\ ConfirmOK(call'[w]) /\ VerifyOK(call'[w])
  BY <1>2 DEF CreateOK, RespondOK, ConfirmOK, VerifyOK, Idle
<1> QED
  BY <1>1, <1>2, <1>3, TablesUnchanged

\* A commit that writes one request row, and leaves that row such that the
\* other calls in flight may still rely on it.
LEMMA RowWritten ==
    ASSUME IInv, UNCHANGED <<now, events, profiles>>,
           NEW w \in Workers, NEW r \in Requests, NEW row \in RequestRow,
           Committed(w), requests' = [requests EXCEPT ![r] = row],
           row.status # "none",
           requests[r].status = "verified" => row.status = "verified",
           row.status = "verified" => requests[r].status \in {"confirmed", "verified"},
           row.status = "verified" => r = PastRequest,
           requests[r].status \in {"responded", "confirmed", "closed"}
                => row.status # "pending",
           requests[r].status # "none" /\ requests[r].decision # Nil
                => row.decision # Nil
    PROVE  /\ call' \in [Workers -> CallState]
           /\ reply' \in [Workers -> Replies]
           /\ requests' \in [Requests -> RequestRow \cup {NoRequest}]
           /\ InFlight'
<1>1. /\ call' \in [Workers -> CallState]
      /\ reply' \in [Workers -> Replies]
      /\ call' = [call EXCEPT ![w] = Idle]
  <2>1. PICK outcome \in {"ok", "lost"} : Return(w, outcome)
    BY DEF Committed
  <2>2. outcome \in Replies
    BY DEF Replies
  <2> QED
    BY <2>1, <2>2, ReturnTypes DEF IInv
<1>2. requests' \in [Requests -> RequestRow \cup {NoRequest}]
  BY DEF IInv, TypeOK
<1>3. ASSUME NEW v \in Workers
      PROVE  /\ CreateOK(call[v])' /\ RespondOK(call[v])'
             /\ ConfirmOK(call[v])' /\ VerifyOK(call[v])'
  <2>1. CASE v = w
    <3>1. call'[v] = Idle
      BY <1>1, <2>1 DEF IInv, TypeOK
    <3> QED
      BY <3>1 DEF CreateOK, RespondOK, ConfirmOK, VerifyOK, Idle
  <2>2. CASE v # w
    <3> DEFINE c == call[v]
    <3>1. call'[v] = c /\ CreateOK(c) /\ RespondOK(c) /\ ConfirmOK(c) /\ VerifyOK(c)
      BY <1>1, <2>2 DEF IInv, TypeOK, InFlight
    <3> HIDE DEF c
    <3>2. \A q \in Requests : requests'[q] = IF q = r THEN row ELSE requests[q]
      BY DEF IInv, TypeOK
    <3>3. row.status \in Statuses
      BY DEF RequestRow, Statuses
    <3>4. CreateOK(call[v])'
      BY <3>1 DEF CreateOK
    <3>5. RespondOK(call[v])'
      BY <3>1, <3>2 DEF RespondOK
    <3>6. ConfirmOK(call[v])'
      BY <3>1, <3>2, <3>3 DEF ConfirmOK, Statuses
    <3>7. VerifyOK(call[v])'
      BY <3>1, <3>2 DEF VerifyOK
    <3> QED
      BY <3>4, <3>5, <3>6, <3>7
  <2> QED
    BY <2>1, <2>2
<1> QED
  BY <1>1, <1>2, <1>3 DEF InFlight

-----------------------------------------------------------------------------
(* One lemma per action that is more than a line.                          *)

LEMMA CreateEventKeeps ==
    ASSUME IInv, NEW o \in Organizers, NEW e \in Events, NEW window \in Windows,
           CreateEvent(o, e, window)
    PROVE  IInv'
<1> USE ConstantsAssumption
<1>1. NewEvent(o, window, now) \in EventRow
  <2>1. window[1] \in Int /\ window[2] \in Int
    BY DEF Interval
  <2> QED
    BY <2>1 DEF NewEvent, EventStatus, EventRow
<1>2. /\ events' \in [Events -> EventRow \cup {NoEvent}]
      /\ \A f \in Events : events[f].status # "none" => events'[f] = events[f]
  BY <1>1 DEF CreateEvent, IInv, TypeOK
<1>3. UNCHANGED <<now, profiles, requests, verifications, call, reply>>
  BY DEF CreateEvent
<1>4. TypeOK'
  BY <1>2, <1>3 DEF IInv, TypeOK
<1>5. ApiRows'
  BY <1>2, <1>3 DEF IInv, ApiRows
<1>6. SeedRow'
  BY <1>2, <1>3 DEF IInv, SeedRow
<1>7. VerifiedIffVerification' /\ RowsCoherent'
  BY <1>3 DEF IInv, VerifiedIffVerification, RowsCoherent
<1>8. InFlight'
  BY <1>2, <1>3 DEF IInv, InFlight, CreateOK, RespondOK, ConfirmOK, VerifyOK
<1> QED
  BY <1>4, <1>5, <1>6, <1>7, <1>8 DEF IInv

LEMMA PutNeedsKeeps ==
    ASSUME IInv, NEW a \in Attendees, NEW n \in Needs, PutNeeds(a, n)
    PROVE  IInv'
<1>1. UNCHANGED <<now, events, requests, verifications, call, reply>>
  BY DEF PutNeeds
<1>2. TypeOK'
  BY <1>1 DEF PutNeeds, IInv, TypeOK
<1>3. ApiRows' /\ SeedRow' /\ VerifiedIffVerification' /\ RowsCoherent'
  BY <1>1 DEF IInv, ApiRows, SeedRow, VerifiedIffVerification, RowsCoherent
<1>4. InFlight'
  BY <1>1 DEF IInv, InFlight, CreateOK, RespondOK, ConfirmOK, VerifyOK
<1> QED
  BY <1>2, <1>3, <1>4 DEF IInv

\* What Begin leaves of the other calls.
LEMMA BeginKeeps ==
    ASSUME IInv, UNCHANGED <<now, tables>>, NEW w \in Workers, NEW c \in CallState,
           Begin(w, c), CreateOK(c), RespondOK(c), ConfirmOK(c), VerifyOK(c)
    PROVE  IInv'
<1>1. /\ call' \in [Workers -> CallState]
      /\ reply' \in [Workers -> Replies]
      /\ call'[w] = c
      /\ \A v \in Workers \ {w} : call'[v] = call[v]
  BY DEF Begin, IInv, TypeOK, Replies
<1> QED
  BY <1>1, TablesUnchanged

\* A refusal ends a call that has written nothing.
LEMMA RefuseKeeps ==
    ASSUME IInv, UNCHANGED <<now, tables>>, NEW w \in Workers, Refuse(w)
    PROVE  IInv'
BY ReturnUnchanged DEF Refuse, Replies

LEMMA CreateLoadKeeps ==
    ASSUME IInv, NEW w \in Workers, NEW u \in Users, NEW e \in Events,
           CreateLoad(w, u, e)
    PROVE  IInv'
<1>1. UNCHANGED <<now, tables>>
  BY DEF CreateLoad
<1>2. CASE ~MayRequest(u, e) /\ Refuse(w)
  BY <1>1, <1>2, RefuseKeeps
<1>3. CASE MayRequest(u, e) /\ Begin(w, [Idle EXCEPT !.pc = "create_check", !.user = u,
                                             !.event = e, !.needs = profiles[u]])
  <2> DEFINE c == [Idle EXCEPT !.pc = "create_check", !.user = u,
                               !.event = e, !.needs = profiles[u]]
  <2>1. u \in Attendees /\ profiles[u] \in Needs /\ events[e].status = "upcoming"
    BY <1>3 DEF MayRequest, IInv, TypeOK
  <2>2. c \in CallState
    BY <2>1 DEF Idle, CallState, Steps
  <2>3. CreateOK(c) /\ RespondOK(c) /\ ConfirmOK(c) /\ VerifyOK(c)
    BY <2>1 DEF CreateOK, RespondOK, ConfirmOK, VerifyOK, Idle
  <2> QED
    BY <1>1, <1>3, <2>2, <2>3, BeginKeeps
<1> QED
  BY <1>2, <1>3 DEF CreateLoad

LEMMA RespondLoadKeeps ==
    ASSUME IInv, NEW w \in Workers, NEW u \in Users, NEW r \in Requests,
           NEW d \in Decisions, RespondLoad(w, u, r, d)
    PROVE  IInv'
<1>1. UNCHANGED <<now, tables>>
  BY DEF RespondLoad
<1>2. CASE ~MayRespond(u, r) /\ Refuse(w)
  BY <1>1, <1>2, RefuseKeeps
<1>3. CASE MayRespond(u, r) /\ Begin(w, [Idle EXCEPT !.pc = "respond_commit", !.user = u,
                                             !.request = r, !.answer = d])
  <2> DEFINE c == [Idle EXCEPT !.pc = "respond_commit", !.user = u,
                               !.request = r, !.answer = d]
  <2>1. requests[r].status = "pending" /\ r # PastRequest
    BY <1>3 DEF MayRespond, IInv, SeedRow
  <2>2. c \in CallState
    BY DEF Idle, CallState, Steps
  <2>3. CreateOK(c) /\ RespondOK(c) /\ ConfirmOK(c) /\ VerifyOK(c)
    BY <2>1 DEF CreateOK, RespondOK, ConfirmOK, VerifyOK, Idle
  <2> QED
    BY <1>1, <1>3, <2>2, <2>3, BeginKeeps
<1> QED
  BY <1>2, <1>3 DEF RespondLoad

LEMMA ConfirmLoadKeeps ==
    ASSUME IInv, NEW w \in Workers, NEW u \in Users, NEW r \in Requests,
           NEW answer \in {"accept", "decline"}, ConfirmLoad(w, u, r, answer)
    PROVE  IInv'
<1>1. UNCHANGED <<now, tables>>
  BY DEF ConfirmLoad
<1>2. CASE ~MayConfirm(u, r) /\ Refuse(w)
  BY <1>1, <1>2, RefuseKeeps
<1>3. CASE MayConfirm(u, r) /\ Begin(w, [Idle EXCEPT !.pc = "confirm_commit", !.user = u,
                                             !.request = r, !.answer = answer])
  <2> DEFINE c == [Idle EXCEPT !.pc = "confirm_commit", !.user = u,
                               !.request = r, !.answer = answer]
  <2>1. requests[r].status = "responded" /\ r # PastRequest /\ requests[r].decision # Nil
    BY <1>3 DEF MayConfirm, IInv, SeedRow, RowsCoherent
  <2>2. c \in CallState
    BY DEF Idle, CallState, Steps
  <2>3. CreateOK(c) /\ RespondOK(c) /\ ConfirmOK(c) /\ VerifyOK(c)
    BY <2>1 DEF CreateOK, RespondOK, ConfirmOK, VerifyOK, Idle
  <2> QED
    BY <1>1, <1>3, <2>2, <2>3, BeginKeeps
<1> QED
  BY <1>2, <1>3 DEF ConfirmLoad

LEMMA VerifyLoadKeeps ==
    ASSUME IInv, NEW w \in Workers, NEW u \in Users, NEW r \in Requests,
           VerifyLoad(w, u, r)
    PROVE  IInv'
<1>1. UNCHANGED <<now, tables>>
  BY DEF VerifyLoad
<1>2. CASE ~OwnRequest(u, r) /\ Refuse(w)
  BY <1>1, <1>2, RefuseKeeps
<1>3. CASE OwnRequest(u, r) /\ Begin(w, [Idle EXCEPT !.pc = "verify_check", !.user = u,
                                  !.request = r, !.status = requests[r].status])
  <2> DEFINE c == [Idle EXCEPT !.pc = "verify_check", !.user = u,
                               !.request = r, !.status = requests[r].status]
  <2>1. requests[r].status \in Statuses
    BY <1>3 DEF OwnRequest, IInv, TypeOK, RequestRow, NoRequest
  <2>2. c \in CallState
    BY <2>1 DEF Idle, CallState, Steps
  <2>3. CreateOK(c) /\ RespondOK(c) /\ ConfirmOK(c) /\ VerifyOK(c)
    BY <1>3 DEF CreateOK, RespondOK, ConfirmOK, VerifyOK, Idle, OwnRequest
  <2> QED
    BY <1>1, <1>3, <2>2, <2>3, BeginKeeps
<1> QED
  BY <1>2, <1>3 DEF VerifyLoad

LEMMA CreateCheckKeeps ==
    ASSUME IInv, NEW w \in Workers, CreateCheck(w)
    PROVE  IInv'
<1>1. UNCHANGED <<now, tables>>
  BY DEF CreateCheck
<1>2. CASE Return(w, "refused")
  BY <1>1, <1>2, ReturnUnchanged DEF Replies
<1>3. CASE call' = [call EXCEPT ![w].pc = "create_commit"] /\ UNCHANGED reply
  <2> DEFINE c == [call[w] EXCEPT !.pc = "create_commit"]
  <2>1. c \in CallState /\ call[w] \in CallState
    BY DEF IInv, TypeOK, CallState, Steps
  <2>2. CreateOK(c) /\ RespondOK(c) /\ ConfirmOK(c) /\ VerifyOK(c)
    BY <2>1 DEF CreateCheck, IInv, InFlight, CreateOK, RespondOK, ConfirmOK, VerifyOK,
                CallState
  <2>3. /\ call' \in [Workers -> CallState]
        /\ reply' \in [Workers -> Replies]
        /\ call'[w] = c
        /\ \A v \in Workers \ {w} : call'[v] = call[v]
    BY <1>3, <2>1 DEF IInv, TypeOK
  <2> QED
    BY <1>1, <2>2, <2>3, TablesUnchanged
<1> QED
  BY <1>2, <1>3 DEF CreateCheck

\* Only the seeded request can pass the checks of submit_verification.
LEMMA VerifiableIsSeeded ==
    ASSUME IInv, NEW w \in Workers, call[w].pc = "verify_check", MayVerify(call[w])
    PROVE  call[w].request = PastRequest
BY DEF MayVerify, EventOver, IInv, ApiRows, InFlight, VerifyOK

LEMMA VerifyCheckKeeps ==
    ASSUME IInv, NEW w \in Workers, VerifyCheck(w)
    PROVE  IInv'
<1>1. UNCHANGED <<now, tables>>
  BY DEF VerifyCheck
<1>2. CASE Return(w, "refused")
  BY <1>1, <1>2, ReturnUnchanged DEF Replies
<1>3. CASE /\ MayVerify(call[w])
           /\ call' = [call EXCEPT ![w].pc = "verify_commit"]
           /\ UNCHANGED reply
  <2> DEFINE c == [call[w] EXCEPT !.pc = "verify_commit"]
  <2>1. c \in CallState /\ call[w] \in CallState
    BY DEF IInv, TypeOK, CallState, Steps
  <2>2. call[w].request = PastRequest
    BY <1>3, VerifiableIsSeeded DEF VerifyCheck
  <2>3. CreateOK(c) /\ RespondOK(c) /\ ConfirmOK(c) /\ VerifyOK(c)
    BY <2>1, <2>2 DEF CreateOK, RespondOK, ConfirmOK, VerifyOK, CallState
  <2>4. /\ call' \in [Workers -> CallState]
        /\ reply' \in [Workers -> Replies]
        /\ call'[w] = c
        /\ \A v \in Workers \ {w} : call'[v] = call[v]
    BY <1>3, <2>1 DEF IInv, TypeOK
  <2> QED
    BY <1>1, <2>3, <2>4, TablesUnchanged
<1> QED
  BY <1>2, <1>3 DEF VerifyCheck

LEMMA CreateCommitKeeps ==
    ASSUME IInv, NEW w \in Workers, NEW r \in Requests, CreateCommit(w, r)
    PROVE  IInv'
<1> DEFINE c == call[w]
           row == NewRequest(c.user, c.event, c.needs)
<1>1. /\ c.user \in Attendees /\ c.event \in Events /\ c.needs \in Needs
      /\ events[c.event].status = "upcoming"
  BY DEF CreateCommit, IInv, InFlight, CreateOK
<1>2. /\ requests' = [requests EXCEPT ![r] = row]
      /\ Committed(w)
      /\ UNCHANGED <<now, events, profiles, verifications>>
      /\ requests[r].status = "none" /\ r # PastRequest
  BY DEF CreateCommit, IInv, SeedRow
<1>3. /\ row \in RequestRow
      /\ row.status = "pending" /\ row.event = c.event
      /\ row.decision = Nil /\ row.confirmed_at = FALSE
  BY <1>1 DEF NewRequest, RequestRow, Statuses
<1>4. /\ call' \in [Workers -> CallState]
      /\ reply' \in [Workers -> Replies]
      /\ requests' \in [Requests -> RequestRow \cup {NoRequest}]
      /\ InFlight'
  <2> HIDE DEF row, c
  <2> QED
    BY <1>2, <1>3, RowWritten
<1>5. TypeOK'
  BY <1>2, <1>4 DEF IInv, TypeOK
<1>6. \A q \in Requests : requests'[q] = IF q = r THEN row ELSE requests[q]
  BY <1>2 DEF IInv, TypeOK
<1>7. ApiRows'
  BY <1>1, <1>2, <1>3, <1>6 DEF IInv, ApiRows
<1>8. SeedRow'
  BY <1>2, <1>6, ConstantsAssumption DEF IInv, SeedRow
<1>9. VerifiedIffVerification'
  BY <1>2, <1>3, <1>6 DEF IInv, VerifiedIffVerification
<1>10. RowsCoherent'
  BY <1>3, <1>6 DEF IInv, RowsCoherent
<1> QED
  BY <1>4, <1>5, <1>7, <1>8, <1>9, <1>10 DEF IInv

LEMMA RespondCommitKeeps ==
    ASSUME IInv, NEW w \in Workers, RespondCommit(w)
    PROVE  IInv'
<1> DEFINE c == call[w]
           r == c.request
           row == Answered(requests[r], c.answer)
<1>1. /\ r \in Requests \ {PastRequest} /\ c.answer \in Decisions
      /\ requests[r].status \notin {"none", "verified"}
  BY DEF RespondCommit, IInv, InFlight, RespondOK
<1>2. requests[r] \in RequestRow
  BY <1>1 DEF IInv, TypeOK, NoRequest
<1>3. /\ row \in RequestRow
      /\ row.decision = c.answer /\ row.event = requests[r].event
      /\ row.status \in {"responded", "closed"}
      /\ row.status = "responded" => c.answer # "cannot_fulfill"
  BY <1>1, <1>2 DEF Answered, RequestRow, Statuses
<1>4. /\ requests' = [requests EXCEPT ![r] = row]
      /\ Committed(w)
      /\ UNCHANGED <<now, events, profiles, verifications>>
  BY DEF RespondCommit
<1>5. c.answer # Nil
  BY <1>1, ConstantsAssumption
<1>6. /\ call' \in [Workers -> CallState]
      /\ reply' \in [Workers -> Replies]
      /\ requests' \in [Requests -> RequestRow \cup {NoRequest}]
      /\ InFlight'
  <2> HIDE DEF row, r, c
  <2> QED
    BY <1>1, <1>3, <1>4, <1>5, RowWritten
<1>7. TypeOK'
  BY <1>4, <1>6 DEF IInv, TypeOK
<1>8. \A q \in Requests : requests'[q] = IF q = r THEN row ELSE requests[q]
  BY <1>1, <1>4 DEF IInv, TypeOK
<1> HIDE DEF row, r, c
<1>9. ApiRows'
  BY <1>1, <1>3, <1>4, <1>8 DEF IInv, ApiRows
<1>10. SeedRow'
  BY <1>1, <1>4, <1>8, ConstantsAssumption DEF IInv, SeedRow
<1>11. VerifiedIffVerification'
  BY <1>1, <1>3, <1>4, <1>8 DEF IInv, VerifiedIffVerification
<1>12. RowsCoherent'
  BY <1>3, <1>5, <1>8 DEF IInv, RowsCoherent
<1> QED
  BY <1>6, <1>7, <1>9, <1>10, <1>11, <1>12 DEF IInv

LEMMA ConfirmCommitKeeps ==
    ASSUME IInv, NEW w \in Workers, ConfirmCommit(w)
    PROVE  IInv'
<1> DEFINE c == call[w]
           r == c.request
           row == IF c.answer = "accept" THEN Accepted(requests[r]) ELSE Declined(requests[r])
<1>1. /\ r \in Requests \ {PastRequest}
      /\ requests[r].status \in {"responded", "confirmed", "closed"}
      /\ requests[r].decision # Nil
  BY DEF ConfirmCommit, IInv, InFlight, ConfirmOK
<1>2. requests[r] \in RequestRow
  BY <1>1 DEF IInv, TypeOK, NoRequest
<1>3. /\ row \in RequestRow
      /\ row.decision = requests[r].decision /\ row.event = requests[r].event
      /\ row.status \in {"confirmed", "closed"}
      /\ row.status = "confirmed" => row.confirmed_at
  BY <1>2 DEF Accepted, Declined, RequestRow, Statuses
<1>4. /\ requests' = [requests EXCEPT ![r] = row]
      /\ Committed(w)
      /\ UNCHANGED <<now, events, profiles, verifications>>
  BY DEF ConfirmCommit
<1>5. /\ call' \in [Workers -> CallState]
      /\ reply' \in [Workers -> Replies]
      /\ requests' \in [Requests -> RequestRow \cup {NoRequest}]
      /\ InFlight'
  <2> HIDE DEF row, r, c
  <2> QED
    BY <1>1, <1>3, <1>4, RowWritten
<1>6. TypeOK'
  BY <1>4, <1>5 DEF IInv, TypeOK
<1>7. \A q \in Requests : requests'[q] = IF q = r THEN row ELSE requests[q]
  BY <1>1, <1>4 DEF IInv, TypeOK
<1> HIDE DEF row, r, c
<1>8. ApiRows'
  BY <1>1, <1>3, <1>4, <1>7 DEF IInv, ApiRows
<1>9. SeedRow'
  BY <1>1, <1>4, <1>7, ConstantsAssumption DEF IInv, SeedRow
<1>10. VerifiedIffVerification'
  BY <1>1, <1>3, <1>4, <1>7 DEF IInv, VerifiedIffVerification
<1>11. RowsCoherent'
  BY <1>1, <1>3, <1>7 DEF IInv, RowsCoherent
<1> QED
  BY <1>5, <1>6, <1>8, <1>9, <1>10, <1>11 DEF IInv

LEMMA VerifyCommitKeeps ==
    ASSUME IInv, NEW w \in Workers, VerifyCommit(w)
    PROVE  IInv'
<1> DEFINE r == call[w].request
           row == [requests[r] EXCEPT !.status = "verified"]
<1>1. r = PastRequest /\ r \in Requests
  BY ConstantsAssumption DEF VerifyCommit, IInv, InFlight, VerifyOK
<1>2. CASE Return(w, "conflict") /\ UNCHANGED <<requests, verifications>>
  <2>1. UNCHANGED <<now, tables>>
    BY <1>2 DEF VerifyCommit, tables
  <2> QED
    BY <1>2, <2>1, ReturnUnchanged DEF Replies
<1>3. CASE /\ r \notin verifications
           /\ verifications' = verifications \cup {r}
           /\ requests' = [requests EXCEPT ![r].status = "verified"]
           /\ Committed(w)
  <2>1. requests[r] \in RequestRow /\ requests[r].status = "confirmed"
    BY <1>1, <1>3 DEF IInv, TypeOK, SeedRow, VerifiedIffVerification, NoRequest
  <2>2. /\ row \in RequestRow
        /\ row.status = "verified"
        /\ row.decision = requests[r].decision /\ row.event = requests[r].event
        /\ row.confirmed_at = requests[r].confirmed_at
    BY <2>1 DEF RequestRow, Statuses
  <2>3. /\ requests' = [requests EXCEPT ![r] = row]
        /\ UNCHANGED <<now, events, profiles>>
    BY <1>3 DEF VerifyCommit
  <2>4. /\ call' \in [Workers -> CallState]
        /\ reply' \in [Workers -> Replies]
        /\ requests' \in [Requests -> RequestRow \cup {NoRequest}]
        /\ InFlight'
    <3> HIDE DEF row, r
    <3> QED
      BY <1>1, <1>3, <2>1, <2>2, <2>3, RowWritten
  <2>5. TypeOK'
    BY <1>1, <1>3, <2>3, <2>4 DEF IInv, TypeOK
  <2>6. \A q \in Requests : requests'[q] = IF q = r THEN row ELSE requests[q]
    BY <1>1, <2>3 DEF IInv, TypeOK
  <2> HIDE DEF row, r
  <2>7. ApiRows'
    BY <1>1, <2>3, <2>6 DEF IInv, ApiRows
  <2>8. SeedRow'
    BY <1>1, <2>2, <2>3, <2>6 DEF IInv, SeedRow
  <2>9. VerifiedIffVerification'
    BY <1>1, <1>3, <2>2, <2>6 DEF IInv, VerifiedIffVerification
  <2>10. RowsCoherent'
    BY <1>1, <2>2, <2>6 DEF IInv, SeedRow, RowsCoherent
  <2> QED
    BY <2>4, <2>5, <2>7, <2>8, <2>9, <2>10 DEF IInv
<1> QED
  BY <1>2, <1>3 DEF VerifyCommit

LEMMA StepIInv == IInv /\ [Next]_vars => IInv'
<1> SUFFICES ASSUME IInv, [Next]_vars PROVE IInv'
  OBVIOUS
<1>1. CASE Tick
  <2>1. now' \in 0..MaxTime /\ UNCHANGED <<tables, call, reply>>
    BY <1>1, ConstantsAssumption DEF Tick, IInv, TypeOK
  <2> QED
    BY <2>1 DEF IInv, TypeOK, ApiRows, SeedRow, VerifiedIffVerification, RowsCoherent,
                InFlight, CreateOK, RespondOK, ConfirmOK, VerifyOK, tables
<1>2. CASE \E o \in Organizers, e \in Events, window \in Windows : CreateEvent(o, e, window)
  BY <1>2, CreateEventKeeps
<1>3. CASE \E a \in Attendees, n \in Needs : PutNeeds(a, n)
  BY <1>3, PutNeedsKeeps
<1>4. ASSUME NEW w \in Workers, Arrival(w) PROVE IInv'
  BY <1>4, CreateLoadKeeps, RespondLoadKeeps, ConfirmLoadKeeps, VerifyLoadKeeps DEF Arrival
<1>5. ASSUME NEW w \in Workers, WorkerStep(w) PROVE IInv'
  BY <1>5, CreateCheckKeeps, CreateCommitKeeps, RespondCommitKeeps, ConfirmCommitKeeps,
     VerifyCheckKeeps, VerifyCommitKeeps DEF WorkerStep
<1>6. ASSUME NEW w \in Workers, Fail(w) PROVE IInv'
  BY <1>6, ReturnUnchanged DEF Fail, Replies
<1>7. CASE UNCHANGED vars
  BY <1>7 DEF vars, IInv, TypeOK, ApiRows, SeedRow, VerifiedIffVerification, RowsCoherent,
              InFlight, CreateOK, RespondOK, ConfirmOK, VerifyOK
<1> QED
  BY <1>1, <1>2, <1>3, <1>4, <1>5, <1>6, <1>7 DEF Next

\* The inductive invariant holds in every state of the service.
THEOREM Inductive == Spec => []IInv
<1> QED
  BY InitIInv, StepIInv, PTL DEF Spec

-----------------------------------------------------------------------------
(* What follows from it.                                                   *)

\* Every variable keeps its type: no handler writes a value of another kind.
THEOREM TypeCorrect == Spec => []TypeOK
<1>1. IInv => TypeOK
  BY DEF IInv
<1> QED
  BY <1>1, Inductive, PTL

\* "verified" and the verification row come and stay together, however many
\* respond, confirm and verify calls overlap (submit_verification).
THEOREM VerificationsMatchStatus == Spec => []VerifiedIffVerification
<1>1. IInv => VerifiedIffVerification
  BY DEF IInv
<1> QED
  BY <1>1, Inductive, PTL

\* A row tells one story under any interleaving of stale writers
\* (respond_to_request, confirm_response).
THEOREM RowsStayCoherent == Spec => []RowsCoherent
<1>1. IInv => RowsCoherent
  BY DEF IInv
<1> QED
  BY <1>1, Inductive, PTL

\* No request made through the API is ever verified (create_request against
\* submit_verification).
THEOREM ApiRequestsNeverVerified == Spec => []OnlySeedVerified
<1>1. IInv => OnlySeedVerified
  BY DEF IInv, OnlySeedVerified, VerifiedIffVerification, ApiRows, TypeOK
<1> QED
  BY <1>1, Inductive, PTL

\* Verifications are about completed events that are over
\* (EVENT_NOT_COMPLETED in submit_verification).
THEOREM VerifiedEventsAreOver == Spec => []VerificationAfterEnd
<1>1. IInv => VerificationAfterEnd
  <2> SUFFICES ASSUME IInv, NEW r \in verifications
               PROVE  /\ events[requests[r].event].status = "completed"
                      /\ events[requests[r].event].ends_at <= now
    BY DEF VerificationAfterEnd
  <2>1. r = PastRequest
    BY DEF IInv, VerifiedIffVerification, ApiRows, TypeOK
  <2>2. now \in Int /\ 0 <= now
    BY ConstantsAssumption DEF IInv, TypeOK
  <2> QED
    BY <2>1, <2>2 DEF IInv, SeedRow
<1> QED
  BY <1>1, Inductive, PTL

\* Stale commits never make a request pending again, never skip the answer,
\* never undo or forge a verification.
THEOREM StaleWritesAreContained == Spec => StaleWritesContained
<1>1. IInv /\ [Next]_vars => [ContainedMove]_vars
  <2> SUFFICES ASSUME IInv, Next, NEW r \in Requests,
                      requests'[r].status # requests[r].status
               PROVE  /\ requests'[r].status = "pending" => requests[r].status = "none"
                      /\ requests[r].status = "pending"
                            => requests'[r].status \in {"responded", "closed"}
                      /\ requests'[r].status = "verified" => requests[r].status = "confirmed"
                      /\ requests[r].status # "verified"
    BY DEF ContainedMove
  <2>1. ASSUME NEW w \in Workers, NEW q \in Requests, CreateCommit(w, q)
        PROVE  requests[r].status = "none" /\ requests'[r].status = "pending"
    BY <2>1 DEF CreateCommit, NewRequest, IInv, TypeOK
  <2>2. ASSUME NEW w \in Workers, RespondCommit(w)
        PROVE  /\ requests[r].status # "verified"
               /\ requests'[r].status \in {"responded", "closed"}
    <3>1. r = call[w].request /\ requests[r] \in RequestRow
      BY <2>2 DEF RespondCommit, IInv, TypeOK, InFlight, RespondOK, NoRequest
    <3>2. requests'[r] = Answered(requests[r], call[w].answer)
      BY <2>2, <3>1 DEF RespondCommit, IInv, TypeOK
    <3> QED
      BY <2>2, <3>1, <3>2
         DEF RespondCommit, Answered, RequestRow, IInv, InFlight, RespondOK
  <2>3. ASSUME NEW w \in Workers, ConfirmCommit(w)
        PROVE  /\ requests[r].status \in {"responded", "confirmed", "closed"}
               /\ requests'[r].status \in {"confirmed", "closed"}
    <3>1. r = call[w].request /\ requests[r] \in RequestRow
      BY <2>3 DEF ConfirmCommit, IInv, TypeOK, InFlight, ConfirmOK, NoRequest
    <3>2. requests'[r] \in {Accepted(requests[r]), Declined(requests[r])}
      BY <2>3, <3>1 DEF ConfirmCommit, IInv, TypeOK
    <3> QED
      BY <2>3, <3>1, <3>2
         DEF ConfirmCommit, Accepted, Declined, RequestRow, IInv, InFlight, ConfirmOK
  <2>4. ASSUME NEW w \in Workers, VerifyCommit(w)
        PROVE  requests[r].status = "confirmed" /\ requests'[r].status = "verified"
    <3>1. /\ r = call[w].request /\ call[w].request \notin verifications
          /\ requests' = [requests EXCEPT ![r].status = "verified"]
      BY <2>4 DEF VerifyCommit, IInv, TypeOK
    <3>2. r = PastRequest
      BY <2>4, <3>1 DEF VerifyCommit, IInv, InFlight, VerifyOK
    <3> QED
      BY <3>1, <3>2 DEF IInv, TypeOK, RequestRow, SeedRow, VerifiedIffVerification
  <2>5. \E w \in Workers :
            \/ \E q \in Requests : CreateCommit(w, q)
            \/ RespondCommit(w) \/ ConfirmCommit(w) \/ VerifyCommit(w)
    BY DEF Next, Tick, CreateEvent, PutNeeds, Arrival, CreateLoad, RespondLoad, ConfirmLoad,
           VerifyLoad, WorkerStep, CreateCheck, VerifyCheck, Fail, tables
  <2> QED
    BY <2>1, <2>2, <2>3, <2>4, <2>5
<1> QED
  BY <1>1, Inductive, PTL DEF Spec, StaleWritesContained

-----------------------------------------------------------------------------
(* How many active requests one attendee can have for one event: no more   *)
(* than there are workers.                                                 *)
(*                                                                         *)
(* The argument.  Count, for one attendee and event, the requests that are *)
(* active or that a respond or confirm call in flight may still make so    *)
(* (Rows), and the create calls that have passed their check (Inserting).  *)
(* Passing the check needs an empty set of active requests: whatever Rows  *)
(* holds at that moment is held by a call in flight, one worker each, and  *)
(* these workers and those of Inserting are different ones.  Every other   *)
(* step keeps the sum or lowers it.                                        *)

Targets(w, r) ==
    call[w].pc \in {"respond_commit", "confirm_commit"} /\ call[w].request = r

Rows(a, e) ==
    {r \in Requests : /\ requests[r].status # "none"
                      /\ requests[r].attendee = a
                      /\ requests[r].event = e
                      /\ \/ requests[r].status \in ActiveStatuses
                         \/ \E w \in Workers : Targets(w, r)}

Inserting(a, e) ==
    {w \in Workers : /\ call[w].pc = "create_commit"
                     /\ call[w].user = a
                     /\ call[w].event = e}

Bounded(a, e) ==
    Cardinality(Rows(a, e)) + Cardinality(Inserting(a, e)) <= Cardinality(Workers)

AllBounded == \A a \in Attendees, e \in Events : Bounded(a, e)

BInv == IInv /\ AllBounded

LEMMA Finite ==
    ASSUME NEW a, NEW e
    PROVE  /\ IsFiniteSet(Rows(a, e)) /\ Cardinality(Rows(a, e)) \in Nat
           /\ IsFiniteSet(Inserting(a, e)) /\ Cardinality(Inserting(a, e)) \in Nat
           /\ Cardinality(Workers) \in Nat
<1>1. Rows(a, e) \in SUBSET Requests /\ Inserting(a, e) \in SUBSET Workers
  BY DEF Rows, Inserting
<1>2. IsFiniteSet(Requests) /\ IsFiniteSet(Workers)
  BY ConstantsAssumption, WorkersAssumption
<1>3. IsFiniteSet(Rows(a, e)) /\ IsFiniteSet(Inserting(a, e))
  BY <1>1, <1>2, FS_Subset
<1> QED
  BY <1>2, <1>3, FS_CardinalityType

LEMMA FinitePrimed ==
    ASSUME NEW a, NEW e
    PROVE  /\ IsFiniteSet(Rows(a, e)') /\ Cardinality(Rows(a, e)') \in Nat
           /\ IsFiniteSet(Inserting(a, e)') /\ Cardinality(Inserting(a, e)') \in Nat
<1>1. Rows(a, e)' \in SUBSET Requests /\ Inserting(a, e)' \in SUBSET Workers
  BY DEF Rows, Inserting
<1>2. IsFiniteSet(Requests) /\ IsFiniteSet(Workers)
  BY ConstantsAssumption, WorkersAssumption
<1>3. IsFiniteSet(Rows(a, e)') /\ IsFiniteSet(Inserting(a, e)')
  BY <1>1, <1>2, FS_Subset
<1> QED
  BY <1>3, FS_CardinalityType

\* A step that adds neither a row nor an inserting call keeps the bound.
LEMMA Shrinking ==
    ASSUME NEW a, NEW e, Bounded(a, e),
           Rows(a, e)' \subseteq Rows(a, e), Inserting(a, e)' \subseteq Inserting(a, e)
    PROVE  Bounded(a, e)'
<1>1. Cardinality(Rows(a, e)') <= Cardinality(Rows(a, e))
  BY Finite, FS_Subset
<1>2. Cardinality(Inserting(a, e)') <= Cardinality(Inserting(a, e))
  BY Finite, FS_Subset
<1> QED
  BY <1>1, <1>2, Finite, FinitePrimed DEF Bounded

\* Rows that are held by calls in flight alone, not by being active, are no
\* more than the workers that hold them.
LEMMA HeldRows ==
    ASSUME NEW a, NEW e, ActiveRequests(a, e) = {}
    PROVE  Cardinality(Rows(a, e)) <=
                Cardinality({w \in Workers : \E r \in Rows(a, e) : Targets(w, r)})
<1> DEFINE S == Rows(a, e)
           T == {w \in Workers : \E r \in S : Targets(w, r)}
           f == [r \in S |-> CHOOSE w \in T : Targets(w, r)]
<1>1. \A r \in S : \E w \in T : Targets(w, r)
  BY DEF Rows, ActiveRequests
<1>2. \A r \in S : f[r] \in T /\ Targets(f[r], r)
  BY <1>1
<1>3. f \in Injection(S, T)
  <2>1. f \in [S -> T]
    BY <1>2
  <2>2. \A r, q \in S : f[r] = f[q] => r = q
    BY <1>2 DEF Targets
  <2> HIDE DEF f, S, T
  <2> QED
    BY <2>1, <2>2 DEF Injection, IsInjective
<1>4. IsFiniteSet(T)
  BY WorkersAssumption, FS_Subset
<1> HIDE DEF f, S, T
<1>5. Cardinality(S) <= Cardinality(T)
  BY <1>3, <1>4, FS_Injection
<1> QED
  BY <1>5 DEF S, T

\* Passing the check of create_request keeps the bound.
LEMMA CheckBounded ==
    ASSUME IInv, NEW a \in Attendees, NEW e \in Events, Bounded(a, e),
           NEW w \in Workers, CreateCheck(w)
    PROVE  Bounded(a, e)'
<1>1. UNCHANGED <<now, tables>>
  BY DEF CreateCheck
<1>2. CASE Return(w, "refused")
  <2>1. call' = [call EXCEPT ![w] = Idle]
    BY <1>2 DEF Return
  <2>2. Rows(a, e)' \subseteq Rows(a, e) /\ Inserting(a, e)' \subseteq Inserting(a, e)
    BY <1>1, <2>1 DEF IInv, TypeOK, Rows, Inserting, Targets, Idle, tables
  <2> QED
    BY <2>2, Shrinking
<1>3. CASE /\ MayInsert(call[w].user, call[w].event)
           /\ call' = [call EXCEPT ![w].pc = "create_commit"]
  <2>1. /\ \A v \in Workers : call'[v] = IF v = w THEN [call[w] EXCEPT !.pc = "create_commit"]
                                         ELSE call[v]
        /\ call[w] \in CallState /\ call[w].pc = "create_check"
    BY <1>3 DEF IInv, TypeOK, CreateCheck
  <2>2. /\ call'[w].pc = "create_commit"
        /\ call'[w].user = call[w].user /\ call'[w].event = call[w].event
    BY <2>1 DEF CallState
  <2>3. \A v \in Workers, r \in Requests : Targets(v, r)' <=> Targets(v, r)
    BY <2>1, <2>2 DEF Targets
  <2>4. Rows(a, e)' = Rows(a, e)
    BY <1>1, <2>3 DEF Rows, tables
  <2>5. CASE ~(call[w].user = a /\ call[w].event = e)
    <3>1. Inserting(a, e)' \subseteq Inserting(a, e)
      BY <2>1, <2>2, <2>5 DEF Inserting
    <3> QED
      BY <2>4, <3>1, Shrinking
  <2>6. CASE call[w].user = a /\ call[w].event = e
    <3> DEFINE Holding == {v \in Workers : \E r \in Rows(a, e) : Targets(v, r)}
               Inserts == Inserting(a, e)'
    <3>1. Cardinality(Rows(a, e)) <= Cardinality(Holding)
      BY <1>3, <2>6, HeldRows DEF MayInsert
    <3>2. Holding \cap Inserts = {}
      BY <2>1, <2>2 DEF Targets, Inserting
    <3>3. Holding \cup Inserts \in SUBSET Workers
      BY DEF Inserting
    <3>4. /\ IsFiniteSet(Holding) /\ IsFiniteSet(Inserts)
          /\ Cardinality(Holding) \in Nat /\ Cardinality(Inserts) \in Nat
      BY WorkersAssumption, FinitePrimed, FS_Subset, FS_CardinalityType
    <3> HIDE DEF Holding, Inserts
    <3>5. Cardinality(Holding \cup Inserts) = Cardinality(Holding) + Cardinality(Inserts)
      BY <3>2, <3>4, FS_Union, FS_EmptySet
    <3>6. Cardinality(Holding \cup Inserts) <= Cardinality(Workers)
      BY <3>3, WorkersAssumption, FS_Subset
    <3>7. Cardinality(Rows(a, e)') + Cardinality(Inserts) <= Cardinality(Workers)
      BY <2>4, <3>1, <3>4, <3>5, <3>6, Finite
    <3> QED
      BY <3>7 DEF Bounded, Inserts
  <2> QED
    BY <2>5, <2>6
<1> QED
  BY <1>2, <1>3 DEF CreateCheck

\* The row a create call inserts takes the place of the call.
LEMMA InsertBounded ==
    ASSUME IInv, NEW a \in Attendees, NEW e \in Events, Bounded(a, e),
           NEW w \in Workers, NEW r \in Requests, CreateCommit(w, r)
    PROVE  Bounded(a, e)'
<1> DEFINE c == call[w]
<1>1. /\ call' = [call EXCEPT ![w] = Idle]
      /\ requests' = [requests EXCEPT ![r] = NewRequest(c.user, c.event, c.needs)]
      /\ requests[r].status = "none" /\ c.pc = "create_commit"
  BY DEF CreateCommit, Committed, Return
<1>2. /\ \A v \in Workers : call'[v] = IF v = w THEN Idle ELSE call[v]
      /\ \A q \in Requests : requests'[q] =
            IF q = r THEN NewRequest(c.user, c.event, c.needs) ELSE requests[q]
  BY <1>1 DEF IInv, TypeOK
<1>3. Rows(a, e)' \subseteq Rows(a, e) \cup {r}
  BY <1>2 DEF Rows, Targets, Idle
<1>4. Inserting(a, e)' = Inserting(a, e) \ {w}
  BY <1>2 DEF Inserting, Idle
<1>5. CASE ~(c.user = a /\ c.event = e)
  <2>1. r \notin Rows(a, e)'
    BY <1>2, <1>5 DEF Rows, NewRequest
  <2> QED
    BY <1>3, <1>4, <2>1, Shrinking
<1>6. CASE c.user = a /\ c.event = e
  <2>1. w \in Inserting(a, e)
    BY <1>1, <1>6 DEF Inserting
  <2>2. Cardinality(Inserting(a, e)') = Cardinality(Inserting(a, e)) - 1
    BY <1>4, <2>1, Finite, FS_RemoveElement
  <2>3. /\ IsFiniteSet(Rows(a, e) \cup {r})
        /\ Cardinality(Rows(a, e) \cup {r}) <= Cardinality(Rows(a, e)) + 1
        /\ Cardinality(Rows(a, e) \cup {r}) \in Nat
    <3> DEFINE S == Rows(a, e)
    <3>1. IsFiniteSet(S) /\ Cardinality(S) \in Nat
      BY Finite
    <3> HIDE DEF S
    <3>2. /\ IsFiniteSet(S \cup {r})
          /\ Cardinality(S \cup {r}) = IF r \in S THEN Cardinality(S) ELSE Cardinality(S) + 1
      BY <3>1, FS_AddElement
    <3>3. Cardinality(S \cup {r}) <= Cardinality(S) + 1 /\ Cardinality(S \cup {r}) \in Nat
      BY <3>1, <3>2
    <3> QED
      BY <3>2, <3>3 DEF S
  <2>4. Cardinality(Rows(a, e)') <= Cardinality(Rows(a, e) \cup {r})
    BY <1>3, <2>3, FS_Subset
  <2> QED
    BY <2>2, <2>3, <2>4, Finite, FinitePrimed DEF Bounded
<1> QED
  BY <1>5, <1>6

\* A step that ends a call after writing to a row the call was holding, or
\* that writes nothing to the requests, adds no row.
LEMMA WriteBounded ==
    ASSUME IInv, NEW a \in Attendees, NEW e \in Events, Bounded(a, e),
           NEW w \in Workers, NEW r \in Requests, call' = [call EXCEPT ![w] = Idle],
           \A q \in Requests \ {r} : requests'[q] = requests[q],
           requests'[r].event = requests[r].event,
           requests'[r].attendee = requests[r].attendee,
           requests[r].status # "none",
           Targets(w, r) \/ requests'[r].status \notin ActiveStatuses
                \/ requests[r].status \in ActiveStatuses
    PROVE  Bounded(a, e)'
<1>1. \A v \in Workers : call'[v] = IF v = w THEN Idle ELSE call[v]
  BY DEF IInv, TypeOK
<1>2. \A v \in Workers, q \in Requests : Targets(v, q)' => Targets(v, q)
  BY <1>1 DEF Targets, Idle
<1>3. Rows(a, e)' \subseteq Rows(a, e)
  BY <1>2 DEF Rows
<1>4. Inserting(a, e)' \subseteq Inserting(a, e)
  BY <1>1 DEF Inserting, Idle
<1> QED
  BY <1>3, <1>4, Shrinking

\* Rows and Inserting look at nothing but the requests and the calls.
LEMMA CallsBounded ==
    ASSUME IInv, NEW a \in Attendees, NEW e \in Events, Bounded(a, e),
           UNCHANGED requests,
           NEW w \in Workers, \A v \in Workers \ {w} : call'[v] = call[v],
           call'[w].pc # "create_commit",
           \A r \in Requests :
                /\ call'[w].pc \in {"respond_commit", "confirm_commit"}
                /\ call'[w].request = r
                => requests[r].status \in ActiveStatuses
    PROVE  Bounded(a, e)'
<1>1. Inserting(a, e)' \subseteq Inserting(a, e)
  BY DEF Inserting
<1>2. Rows(a, e)' \subseteq Rows(a, e)
  <2> SUFFICES ASSUME NEW r \in Requests, r \in Rows(a, e)', requests[r].status \notin ActiveStatuses
               PROVE  \E v \in Workers : Targets(v, r)
    BY DEF Rows
  <2>1. PICK v \in Workers : Targets(v, r)'
    BY DEF Rows
  <2>2. v # w
    BY <2>1 DEF Targets
  <2> QED
    BY <2>1, <2>2 DEF Targets
<1> QED
  BY <1>1, <1>2, Shrinking

LEMMA StepBounded ==
    ASSUME BInv, [Next]_vars, NEW a \in Attendees, NEW e \in Events
    PROVE  Bounded(a, e)'
<1> USE DEF BInv
<1>1. Bounded(a, e)
  BY DEF AllBounded
<1>2. CASE UNCHANGED <<requests, call>>
  BY <1>1, <1>2 DEF Bounded, Rows, Inserting, Targets
<1>3. ASSUME NEW w \in Workers, NEW outcome, Return(w, outcome), UNCHANGED requests
      PROVE  Bounded(a, e)'
  <2>1. call'[w] = Idle /\ \A v \in Workers \ {w} : call'[v] = call[v]
    BY <1>3 DEF Return, IInv, TypeOK
  <2> QED
    BY <1>1, <1>3, <2>1, CallsBounded DEF Idle
<1>4. ASSUME NEW w \in Workers, NEW c, Begin(w, c), UNCHANGED requests,
             c.pc # "create_commit",
             \A r \in Requests :
                c.pc \in {"respond_commit", "confirm_commit"} /\ c.request = r
                => requests[r].status \in ActiveStatuses
      PROVE  Bounded(a, e)'
  <2>1. call'[w] = c /\ \A v \in Workers \ {w} : call'[v] = call[v]
    BY <1>4 DEF Begin, IInv, TypeOK
  <2> QED
    BY <1>1, <1>4, <2>1, CallsBounded
<1>5. ASSUME NEW w \in Workers, NEW u \in Users, NEW f \in Events, CreateLoad(w, u, f)
      PROVE  Bounded(a, e)'
  <2> DEFINE c == [Idle EXCEPT !.pc = "create_check", !.user = u,
                               !.event = f, !.needs = profiles[u]]
  <2>1. UNCHANGED requests
    BY <1>5 DEF CreateLoad, tables
  <2>2. CASE Refuse(w)
    BY <1>3, <2>1, <2>2 DEF Refuse
  <2>3. CASE MayRequest(u, f) /\ Begin(w, c)
    <3>1. c.pc = "create_check"
      BY DEF Idle
    <3> HIDE DEF c
    <3> QED
      BY <1>4, <2>1, <2>3, <3>1
  <2> QED
    BY <1>5, <2>2, <2>3 DEF CreateLoad
<1>6. ASSUME NEW w \in Workers, NEW u \in Users, NEW r \in Requests, NEW d \in Decisions,
             RespondLoad(w, u, r, d)
      PROVE  Bounded(a, e)'
  <2> DEFINE c == [Idle EXCEPT !.pc = "respond_commit", !.user = u,
                               !.request = r, !.answer = d]
  <2>1. UNCHANGED requests
    BY <1>6 DEF RespondLoad, tables
  <2>2. CASE Refuse(w)
    BY <1>3, <2>1, <2>2 DEF Refuse
  <2>3. CASE MayRespond(u, r) /\ Begin(w, c)
    <3>1. c.pc = "respond_commit" /\ c.request = r
      BY DEF Idle
    <3> HIDE DEF c
    <3> QED
      BY <1>4, <2>1, <2>3, <3>1 DEF MayRespond, ActiveStatuses
  <2> QED
    BY <1>6, <2>2, <2>3 DEF RespondLoad
<1>7. ASSUME NEW w \in Workers, NEW u \in Users, NEW r \in Requests,
             NEW answer \in {"accept", "decline"}, ConfirmLoad(w, u, r, answer)
      PROVE  Bounded(a, e)'
  <2> DEFINE c == [Idle EXCEPT !.pc = "confirm_commit", !.user = u,
                               !.request = r, !.answer = answer]
  <2>1. UNCHANGED requests
    BY <1>7 DEF ConfirmLoad, tables
  <2>2. CASE Refuse(w)
    BY <1>3, <2>1, <2>2 DEF Refuse
  <2>3. CASE MayConfirm(u, r) /\ Begin(w, c)
    <3>1. c.pc = "confirm_commit" /\ c.request = r
      BY DEF Idle
    <3> HIDE DEF c
    <3> QED
      BY <1>4, <2>1, <2>3, <3>1 DEF MayConfirm, ActiveStatuses
  <2> QED
    BY <1>7, <2>2, <2>3 DEF ConfirmLoad
<1>8. ASSUME NEW w \in Workers, NEW u \in Users, NEW r \in Requests, VerifyLoad(w, u, r)
      PROVE  Bounded(a, e)'
  <2> DEFINE c == [Idle EXCEPT !.pc = "verify_check", !.user = u,
                               !.request = r, !.status = requests[r].status]
  <2>1. UNCHANGED requests
    BY <1>8 DEF VerifyLoad, tables
  <2>2. CASE Refuse(w)
    BY <1>3, <2>1, <2>2 DEF Refuse
  <2>3. CASE OwnRequest(u, r) /\ Begin(w, c)
    <3>1. c.pc = "verify_check"
      BY DEF Idle
    <3> HIDE DEF c
    <3> QED
      BY <1>4, <2>1, <2>3, <3>1
  <2> QED
    BY <1>8, <2>2, <2>3 DEF VerifyLoad
<1>9. ASSUME NEW w \in Workers, VerifyCheck(w)
      PROVE  Bounded(a, e)'
  <2>1. UNCHANGED requests
    BY <1>9 DEF VerifyCheck, tables
  <2>2. CASE call' = [call EXCEPT ![w].pc = "verify_commit"]
    <3>1. call'[w].pc = "verify_commit" /\ \A v \in Workers \ {w} : call'[v] = call[v]
      BY <2>2 DEF IInv, TypeOK, CallState
    <3> QED
      BY <1>1, <2>1, <3>1, CallsBounded
  <2> QED
    BY <1>3, <1>9, <2>1, <2>2 DEF VerifyCheck
<1>10. ASSUME NEW w \in Workers, RespondCommit(w)
       PROVE  Bounded(a, e)'
  <2> DEFINE r == call[w].request
  <2>1. r \in Requests /\ requests[r].status # "none" /\ requests[r] \in RequestRow
    BY <1>10 DEF RespondCommit, IInv, TypeOK, InFlight, RespondOK, NoRequest
  <2>2. /\ call' = [call EXCEPT ![w] = Idle]
        /\ requests' = [requests EXCEPT ![r] = Answered(@, call[w].answer)]
    BY <1>10 DEF RespondCommit, Committed, Return
  <2>3. /\ \A q \in Requests \ {r} : requests'[q] = requests[q]
        /\ requests'[r].event = requests[r].event
        /\ requests'[r].attendee = requests[r].attendee
    BY <2>1, <2>2 DEF IInv, TypeOK, Answered, RequestRow
  <2>4. Targets(w, r)
    BY <1>10 DEF RespondCommit, Targets
  <2> QED
    BY <1>1, <2>1, <2>2, <2>3, <2>4, WriteBounded
<1>11. ASSUME NEW w \in Workers, ConfirmCommit(w)
       PROVE  Bounded(a, e)'
  <2> DEFINE r == call[w].request
  <2>1. r \in Requests /\ requests[r].status # "none" /\ requests[r] \in RequestRow
    BY <1>11 DEF ConfirmCommit, IInv, TypeOK, InFlight, ConfirmOK, NoRequest
  <2>2. /\ call' = [call EXCEPT ![w] = Idle]
        /\ requests' = [requests EXCEPT ![r] =
                IF call[w].answer = "accept" THEN Accepted(@) ELSE Declined(@)]
    BY <1>11 DEF ConfirmCommit, Committed, Return
  <2>3. /\ \A q \in Requests \ {r} : requests'[q] = requests[q]
        /\ requests'[r].event = requests[r].event
        /\ requests'[r].attendee = requests[r].attendee
    BY <2>1, <2>2 DEF IInv, TypeOK, Accepted, Declined, RequestRow
  <2>4. Targets(w, r)
    BY <1>11 DEF ConfirmCommit, Targets
  <2> QED
    BY <1>1, <2>1, <2>2, <2>3, <2>4, WriteBounded
<1>12. ASSUME NEW w \in Workers, VerifyCommit(w)
       PROVE  Bounded(a, e)'
  <2> DEFINE r == call[w].request
  <2>1. r = PastRequest /\ r \in Requests /\ requests[r] \in RequestRow
    BY <1>12, ConstantsAssumption DEF VerifyCommit, IInv, TypeOK, InFlight, VerifyOK, SeedRow, NoRequest
  <2>2. CASE UNCHANGED requests
    BY <1>3, <1>12, <2>2 DEF VerifyCommit, Committed
  <2>3. CASE requests' = [requests EXCEPT ![r].status = "verified"] /\ Committed(w)
    <3>1. call' = [call EXCEPT ![w] = Idle]
      BY <2>3 DEF Committed, Return
    <3>2. /\ \A q \in Requests \ {r} : requests'[q] = requests[q]
          /\ requests'[r].event = requests[r].event
          /\ requests'[r].attendee = requests[r].attendee
          /\ requests'[r].status = "verified"
          /\ requests[r].status # "none"
      BY <2>1, <2>3 DEF IInv, TypeOK, RequestRow, SeedRow
    <3> QED
      BY <1>1, <2>1, <3>1, <3>2, WriteBounded DEF ActiveStatuses
  <2> QED
    BY <1>12, <2>2, <2>3 DEF VerifyCommit
<1>13. ASSUME NEW w \in Workers, Fail(w)
       PROVE  Bounded(a, e)'
  BY <1>3, <1>13 DEF Fail, tables
<1>14. ASSUME NEW w \in Workers, Arrival(w)
       PROVE  Bounded(a, e)'
  BY <1>14, <1>5, <1>6, <1>7, <1>8 DEF Arrival
<1>15. ASSUME NEW w \in Workers, WorkerStep(w)
       PROVE  Bounded(a, e)'
  BY <1>1, <1>15, <1>9, <1>10, <1>11, <1>12, CheckBounded, InsertBounded DEF WorkerStep
<1>16. CASE Tick \/ (\E o \in Organizers, f \in Events, window \in Windows :
                        CreateEvent(o, f, window))
                  \/ (\E b \in Attendees, n \in Needs : PutNeeds(b, n))
  BY <1>2, <1>16 DEF Tick, CreateEvent, PutNeeds, tables
<1> QED
  BY <1>2, <1>13, <1>14, <1>15, <1>16 DEF Next, vars

LEMMA InitBounded == Init => AllBounded
<1> SUFFICES ASSUME Init, NEW a \in Attendees, NEW e \in Events PROVE Bounded(a, e)
  BY DEF AllBounded
<1>1. Inserting(a, e) = {}
  BY DEF Init, Inserting, Idle
<1>2. Rows(a, e) \subseteq {PastRequest}
  BY DEF Init, Rows, SeedRequests, NoRequest
<1>3. Cardinality(Rows(a, e)) <= 1
  <2>1. IsFiniteSet({PastRequest}) /\ Cardinality({PastRequest}) = 1
    BY FS_Singleton
  <2> QED
    BY <1>2, <2>1, FS_Subset
<1>4. Cardinality(Workers) # 0
  BY WorkersAssumption, FS_EmptySet
<1> QED
  BY <1>1, <1>3, <1>4, FS_EmptySet, Finite DEF Bounded

\* However many create_request calls overlap, an attendee has at most one
\* active request per worker for an event.
THEOREM ActiveRequestsBounded == Spec => []ActiveBound
<1>1. BInv /\ [Next]_vars => BInv'
  BY StepIInv, StepBounded DEF BInv, AllBounded
<1>2. Init => BInv
  BY InitIInv, InitBounded DEF BInv
<1>3. BInv => ActiveBound
  <2> SUFFICES ASSUME BInv, NEW a \in Attendees, NEW e \in Events
               PROVE  Cardinality(ActiveRequests(a, e)) <= Cardinality(Workers)
    BY DEF ActiveBound
  <2>1. ActiveRequests(a, e) \subseteq Rows(a, e)
    BY DEF ActiveRequests, Rows, ActiveStatuses
  <2>2. Cardinality(ActiveRequests(a, e)) <= Cardinality(Rows(a, e))
    BY <2>1, Finite, FS_Subset
  <2>3. IsFiniteSet(ActiveRequests(a, e))
    BY <2>1, Finite, FS_Subset
  <2>4. Cardinality(ActiveRequests(a, e)) \in Nat
    BY <2>3, FS_CardinalityType
  <2>5. Bounded(a, e)
    BY DEF BInv, AllBounded
  <2> QED
    BY <2>2, <2>4, <2>5, Finite DEF Bounded
<1> QED
  BY <1>1, <1>2, <1>3, PTL DEF Spec

-----------------------------------------------------------------------------
(* The atomic contract keeps its promises, for every set of users, events  *)
(* and requests.                                                           *)

\* A request without an answer is the only kind that can still be answered.
Unanswered ==
    \A r \in Requests :
        requests[r].status \in {"none", "pending"} => requests[r].decision = Nil

\* A request that does not exist yet has no snapshot to freeze.
Blank ==
    \A r \in Requests : requests[r].status = "none" => requests[r].needs = Nil

CInv ==
    /\ requests \in [Requests -> Contract!RequestRow \cup {Contract!NoRequest}]
    /\ Unanswered
    /\ Blank
    /\ Contract!NoConfirmAfterRejection
    /\ Contract!OneActiveRequest

LEMMA InitCInv == Contract!Init => CInv
<1> SUFFICES ASSUME Contract!Init PROVE CInv
  OBVIOUS
<1>1. requests \in [Requests -> Contract!RequestRow \cup {Contract!NoRequest}]
  BY ConstantsAssumption
     DEF Contract!Init, Contract!SeedRequests, Contract!NoRequest, Contract!RequestRow,
         Contract!Decisions, Contract!Statuses,
         Decisions
<1>2. Unanswered /\ Blank /\ Contract!NoConfirmAfterRejection
  BY ConstantsAssumption
     DEF Contract!Init, Contract!SeedRequests, Contract!NoRequest, Unanswered, Blank,
         Contract!NoConfirmAfterRejection, Decisions
<1>3. Contract!OneActiveRequest
  BY DEF Contract!Init, Contract!SeedRequests, Contract!NoRequest,
         Contract!OneActiveRequest, Contract!ActiveStatuses
<1> QED
  BY <1>1, <1>2, <1>3 DEF CInv

\* The facts each action establishes about the one row it writes.
LEMMA RowStep ==
    ASSUME CInv, NEW r \in Requests, NEW row \in Contract!RequestRow,
           requests' = [requests EXCEPT ![r] = row],
           row.status \in {"none", "pending"} => row.decision = Nil,
           row.status # "none",
           row.decision = "cannot_fulfill" => row.status = "closed",
           row.status \in Contract!ActiveStatuses =>
              \/ /\ requests[r].status \in Contract!ActiveStatuses
                 /\ row.attendee = requests[r].attendee
                 /\ row.event = requests[r].event
              \/ Contract!ActiveRequests(row.attendee, row.event) = {}
    PROVE  CInv'
<1>1. \A q \in Requests : requests'[q] = IF q = r THEN row ELSE requests[q]
  BY DEF CInv
<1>2. requests' \in [Requests -> Contract!RequestRow \cup {Contract!NoRequest}]
  BY DEF CInv
<1>3. Unanswered' /\ Blank' /\ Contract!NoConfirmAfterRejection'
  BY <1>1 DEF CInv, Unanswered, Blank, Contract!NoConfirmAfterRejection
<1>4. Contract!OneActiveRequest'
  BY <1>1 DEF CInv, Contract!OneActiveRequest, Contract!ActiveRequests
<1> QED
  BY <1>2, <1>3, <1>4 DEF CInv

LEMMA StepCInv == CInv /\ [Contract!Next]_(Contract!vars) => CInv'
<1> SUFFICES ASSUME CInv, [Contract!Next]_(Contract!vars) PROVE CInv'
  OBVIOUS
<1> USE ConstantsAssumption
<1>1. CASE UNCHANGED requests
  BY <1>1 DEF CInv, Unanswered, Blank, Contract!NoConfirmAfterRejection,
              Contract!OneActiveRequest
<1>2. ASSUME NEW a \in Attendees, NEW e \in Events, NEW n \in Needs, NEW r \in Requests,
             Contract!Submit(a, e, n, r)
      PROVE  CInv'
  <2> DEFINE row == Contract!NewRequest(a, e, n)
  <2>1. /\ row \in Contract!RequestRow /\ row.status = "pending" /\ row.decision = Nil
        /\ row.attendee = a /\ row.event = e
    BY DEF Contract!NewRequest, Contract!RequestRow, Contract!Statuses
  <2>2. requests' = [requests EXCEPT ![r] = row] /\ Contract!ActiveRequests(a, e) = {}
    BY <1>2 DEF Contract!Submit, Contract!MaySubmit
  <2>3. Nil # "cannot_fulfill"
    BY DEF Decisions
  <2> HIDE DEF row
  <2> QED
    BY <2>1, <2>2, <2>3, RowStep
<1>3. ASSUME NEW r \in Requests, NEW d \in Contract!Decisions, Contract!Answer(r, d)
      PROVE  CInv'
  <2> DEFINE row == Contract!Answered(requests[r], d)
  <2>1. requests[r] \in Contract!RequestRow /\ requests[r].status = "pending"
    BY <1>3 DEF CInv, Contract!Answer, Contract!MayAnswer, Contract!NoRequest
  <2>2. /\ row \in Contract!RequestRow /\ row.status \in {"responded", "closed"}
        /\ row.decision = "cannot_fulfill" => row.status = "closed"
        /\ row.attendee = requests[r].attendee /\ row.event = requests[r].event
    BY <2>1 DEF Contract!Answered, Contract!RequestRow, Contract!Statuses
  <2>3. requests' = [requests EXCEPT ![r] = row]
    BY <1>3 DEF Contract!Answer
  <2> HIDE DEF row
  <2> QED
    BY <2>1, <2>2, <2>3, RowStep DEF Contract!ActiveStatuses
<1>4. ASSUME NEW r \in Requests, Contract!Accept(r) \/ Contract!Decline(r)
      PROVE  CInv'
  <2>1. /\ requests[r] \in Contract!RequestRow /\ requests[r].status = "responded"
        /\ requests[r].decision # "cannot_fulfill"
    BY <1>4 DEF CInv, Contract!Accept, Contract!Decline, Contract!MayConfirm,
                Contract!NoConfirmAfterRejection, Contract!NoRequest
  <2>2. PICK row \in {Contract!Accepted(requests[r]), Contract!Declined(requests[r])} :
            requests' = [requests EXCEPT ![r] = row]
    BY <1>4 DEF Contract!Accept, Contract!Decline
  <2>3. /\ row \in Contract!RequestRow /\ row.status \in {"confirmed", "closed"}
        /\ row.decision = requests[r].decision
        /\ row.attendee = requests[r].attendee /\ row.event = requests[r].event
    BY <2>1, <2>2 DEF Contract!Accepted, Contract!Declined, Contract!RequestRow,
                      Contract!Statuses
  <2> QED
    BY <2>1, <2>2, <2>3, RowStep DEF Contract!ActiveStatuses
<1>5. ASSUME NEW r \in Requests, Contract!Verify(r)
      PROVE  CInv'
  <2> DEFINE row == [requests[r] EXCEPT !.status = "verified"]
  <2>1. /\ requests[r] \in Contract!RequestRow /\ requests[r].status = "confirmed"
        /\ requests[r].decision # "cannot_fulfill"
    BY <1>5 DEF CInv, Contract!Verify, Contract!MayVerify,
                Contract!NoConfirmAfterRejection, Contract!NoRequest
  <2>2. /\ row \in Contract!RequestRow /\ row.status = "verified"
        /\ row.decision = requests[r].decision
    BY <2>1 DEF Contract!RequestRow, Contract!Statuses
  <2>3. requests' = [requests EXCEPT ![r] = row]
    BY <1>5 DEF Contract!Verify
  <2> HIDE DEF row
  <2> QED
    BY <2>1, <2>2, <2>3, RowStep DEF Contract!ActiveStatuses
<1>6. CASE Contract!Tick \/ \E o \in Organizers, e \in Events,
       window \in Windows : Contract!Publish(o, e, window)
  BY <1>1, <1>6 DEF Contract!Tick, Contract!Publish
<1> QED
  BY <1>1, <1>2, <1>3, <1>4, <1>5, <1>6 DEF Contract!Next, Contract!vars

LEMMA ContractInductive == Contract!Spec => []CInv
BY InitCInv, StepCInv, PTL DEF Contract!Spec

\* At most one active request per attendee and event, if every check and its
\* write are one step (ACTIVE_REQUEST_EXISTS in create_request).
THEOREM ContractOneActive == Contract!Spec => []Contract!OneActiveRequest
<1>1. CInv => Contract!OneActiveRequest
  BY DEF CInv
<1> QED
  BY <1>1, ContractInductive, PTL

\* No confirmation follows a rejection (respond_to_request).
THEOREM ContractRejectionFinal == Contract!Spec => []Contract!NoConfirmAfterRejection
<1>1. CInv => Contract!NoConfirmAfterRejection
  BY DEF CInv
<1> QED
  BY <1>1, ContractInductive, PTL

\* What every step of the contract does to one request.
LEMMA OneRowMoves ==
    ASSUME CInv, Contract!Next, NEW r \in Requests, requests'[r] # requests[r]
    PROVE  /\ <<requests[r].status, requests'[r].status>> \in Contract!Edges
           /\ requests[r].decision # Nil => requests'[r].decision = requests[r].decision
           /\ requests[r].needs # Nil => requests'[r].needs = requests[r].needs
<1>0. requests[r].status # "none" => requests[r] \in Contract!RequestRow
  BY DEF CInv, Contract!NoRequest
<1>1. ASSUME NEW a \in Attendees, NEW e \in Events, NEW n \in Needs, NEW q \in Requests,
             Contract!Submit(a, e, n, q)
      PROVE  /\ requests[r].status = "none" /\ requests[r].decision = Nil
             /\ requests'[r].status = "pending" /\ requests[r].needs = Nil
  <2>1. q = r /\ requests'[r] = Contract!NewRequest(a, e, n)
    BY <1>1 DEF Contract!Submit, CInv
  <2> QED
    BY <1>1, <2>1 DEF Contract!Submit, Contract!NewRequest, CInv, Unanswered, Blank
<1>2. ASSUME NEW q \in Requests, NEW d \in Contract!Decisions, Contract!Answer(q, d)
      PROVE  /\ requests[r].status = "pending" /\ requests[r].decision = Nil
             /\ requests'[r].status \in {"responded", "closed"}
             /\ requests'[r].needs = requests[r].needs
  <2>1. q = r /\ requests'[r] = Contract!Answered(requests[r], d)
    BY <1>2 DEF Contract!Answer, CInv
  <2> QED
    BY <1>0, <1>2, <2>1 DEF Contract!Answer, Contract!MayAnswer, Contract!Answered,
                            Contract!RequestRow, CInv, Unanswered
<1>3. ASSUME NEW q \in Requests, Contract!Accept(q) \/ Contract!Decline(q)
      PROVE  /\ requests[r].status = "responded"
             /\ requests'[r].status \in {"confirmed", "closed"}
             /\ requests'[r].decision = requests[r].decision
             /\ requests'[r].needs = requests[r].needs
  <2>1. q = r /\ requests'[r] \in {Contract!Accepted(requests[r]),
         Contract!Declined(requests[r])}
    BY <1>3 DEF Contract!Accept, Contract!Decline, CInv
  <2> QED
    BY <1>0, <1>3, <2>1 DEF Contract!Accept, Contract!Decline, Contract!MayConfirm,
                            Contract!Accepted, Contract!Declined, Contract!RequestRow
<1>4. ASSUME NEW q \in Requests, Contract!Verify(q)
      PROVE  /\ requests[r].status = "confirmed" /\ requests'[r].status = "verified"
             /\ requests'[r].decision = requests[r].decision
             /\ requests'[r].needs = requests[r].needs
  <2>1. q = r /\ requests'[r] = [requests[r] EXCEPT !.status = "verified"]
    BY <1>4 DEF Contract!Verify, CInv
  <2> QED
    BY <1>0, <1>4, <2>1 DEF Contract!Verify, Contract!MayVerify, Contract!RequestRow
<1> QED
  BY <1>1, <1>2, <1>3, <1>4 DEF Contract!Next, Contract!Tick, Contract!Publish,
                                Contract!Edges

\* The decision and the snapshot of needs are frozen once made
\* (respond_to_request, create_request).
THEOREM ContractPromiseFrozen == Contract!Spec => Contract!PromiseFrozen
<1>1. CInv /\ [Contract!Next]_(Contract!vars) => [Contract!PromiseKept]_(Contract!vars)
  BY OneRowMoves DEF Contract!PromiseKept
<1> QED
  BY <1>1, ContractInductive, PTL DEF Contract!Spec, Contract!PromiseFrozen

\* Statuses move along the documented edges only.
THEOREM ContractFollowsDiagram == Contract!Spec => Contract!FollowsDiagram
<1>1. CInv /\ [Contract!Next]_(Contract!vars) => [Contract!DocumentedMove]_(Contract!vars)
  BY OneRowMoves DEF Contract!DocumentedMove
<1> QED
  BY <1>1, ContractInductive, PTL DEF Contract!Spec, Contract!FollowsDiagram

-----------------------------------------------------------------------------
(* With a single worker, every handler is atomic for its clients: the      *)
(* service implements RequestContract.                                     *)
(*                                                                         *)
(* The argument.  What a handler decided on when it loaded its rows still  *)
(* holds when it commits (StillTrue), because nobody else writes requests  *)
(* in between; so the commit is the contract's atomic step and every other *)
(* step of the call changes nothing the contract sees.                     *)

OneWorker == \A v, w \in Workers : v = w

StillTrue(c) ==
    /\ c.pc = "create_commit" => ActiveRequests(c.user, c.event) = {}
    /\ c.pc = "respond_commit" => requests[c.request].status = "pending"
    /\ c.pc = "confirm_commit" =>
            /\ requests[c.request].status = "responded"
            /\ c.answer \in {"accept", "decline"}
    /\ c.pc = "verify_check" => requests[c.request].status = c.status
    /\ c.pc = "verify_commit" =>
            /\ c.request \notin verifications
            /\ requests[c.request].status = "confirmed"
            /\ EventOver(requests[c.request].event)

SInv == IInv /\ \A w \in Workers : StillTrue(call[w])

LEMMA InitSInv == Init => SInv
BY InitIInv DEF SInv, Init, StillTrue, Idle

\* A worker that is idle after the step relies on nothing.
LEMMA IdleStillTrue ==
    ASSUME OneWorker, IInv, IInv', NEW w \in Workers, call'[w] = Idle
    PROVE  SInv'
BY DEF OneWorker, SInv, StillTrue, Idle

\* A step of the only worker that changes no table.
LEMMA LoadStillTrue ==
    ASSUME OneWorker, IInv', UNCHANGED <<now, tables>>, NEW w \in Workers,
           StillTrue(call'[w])
    PROVE  SInv'
<1>1. StillTrue(call[w])'
  BY DEF StillTrue, ActiveRequests, EventOver, tables
<1> QED
  BY <1>1 DEF OneWorker, SInv

LEMMA ReturnsIdle ==
    ASSUME IInv, NEW w \in Workers, NEW outcome, Return(w, outcome)
    PROVE  call'[w] = Idle
BY DEF IInv, TypeOK, Return

LEMMA ArrivalStillTrue ==
    ASSUME OneWorker, SInv, IInv', NEW w \in Workers, Arrival(w)
    PROVE  SInv'
<1>1. UNCHANGED <<now, tables>>
  BY DEF Arrival, CreateLoad, RespondLoad, ConfirmLoad, VerifyLoad
<1>2. ASSUME NEW c, Begin(w, c) PROVE call'[w] = c
  BY <1>2 DEF Begin, SInv, IInv, TypeOK
<1>3. CASE Refuse(w)
  BY <1>3, ReturnsIdle, IdleStillTrue DEF Refuse, SInv
<1>4. ASSUME NEW c, Begin(w, c), StillTrue(c) PROVE SInv'
  BY <1>1, <1>2, <1>4, LoadStillTrue
<1>5. ASSUME NEW u \in Users, NEW e \in Events, CreateLoad(w, u, e) PROVE SInv'
  <2> DEFINE c == [Idle EXCEPT !.pc = "create_check", !.user = u,
                               !.event = e, !.needs = profiles[u]]
  <2>1. c.pc = "create_check"
    BY DEF Idle
  <2>2. StillTrue(c)
    BY <2>1 DEF StillTrue
  <2>3. Begin(w, c) \/ Refuse(w)
    BY <1>5 DEF CreateLoad
  <2> QED
    BY <1>3, <1>4, <2>2, <2>3
<1>6. ASSUME NEW u \in Users, NEW r \in Requests, NEW d \in Decisions, RespondLoad(w, u, r, d)
      PROVE  SInv'
  <2> DEFINE c == [Idle EXCEPT !.pc = "respond_commit", !.user = u,
                               !.request = r, !.answer = d]
  <2>1. c.pc = "respond_commit" /\ c.request = r
    BY DEF Idle
  <2>2. (MayRespond(u, r) /\ Begin(w, c)) \/ Refuse(w)
    BY <1>6 DEF RespondLoad
  <2>3. MayRespond(u, r) => StillTrue(c)
    BY <2>1 DEF StillTrue, MayRespond
  <2> QED
    BY <1>3, <1>4, <2>2, <2>3
<1>7. ASSUME NEW u \in Users, NEW r \in Requests, NEW answer \in {"accept", "decline"},
             ConfirmLoad(w, u, r, answer)
      PROVE  SInv'
  <2> DEFINE c == [Idle EXCEPT !.pc = "confirm_commit", !.user = u,
                               !.request = r, !.answer = answer]
  <2>1. c.pc = "confirm_commit" /\ c.request = r /\ c.answer = answer
    BY DEF Idle
  <2>2. (MayConfirm(u, r) /\ Begin(w, c)) \/ Refuse(w)
    BY <1>7 DEF ConfirmLoad
  <2>3. MayConfirm(u, r) => StillTrue(c)
    BY <2>1 DEF StillTrue, MayConfirm
  <2> QED
    BY <1>3, <1>4, <2>2, <2>3
<1>8. ASSUME NEW u \in Users, NEW r \in Requests, VerifyLoad(w, u, r) PROVE SInv'
  <2> DEFINE c == [Idle EXCEPT !.pc = "verify_check", !.user = u,
                               !.request = r, !.status = requests[r].status]
  <2>1. c.pc = "verify_check" /\ c.request = r /\ c.status = requests[r].status
    BY DEF Idle
  <2>2. StillTrue(c)
    BY <2>1 DEF StillTrue
  <2>3. Begin(w, c) \/ Refuse(w)
    BY <1>8 DEF VerifyLoad
  <2> QED
    BY <1>3, <1>4, <2>2, <2>3
<1> QED
  BY <1>5, <1>6, <1>7, <1>8 DEF Arrival

LEMMA WorkerStillTrue ==
    ASSUME OneWorker, SInv, IInv', NEW w \in Workers, WorkerStep(w) \/ Fail(w)
    PROVE  SInv'
<1> USE DEF SInv
<1>1. ASSUME NEW outcome, Return(w, outcome) PROVE SInv'
  BY <1>1, ReturnsIdle, IdleStillTrue
<1>2. CASE CreateCheck(w)
  <2>1. CASE /\ MayInsert(call[w].user, call[w].event)
             /\ call' = [call EXCEPT ![w].pc = "create_commit"]
    <3>1. /\ call'[w].pc = "create_commit"
          /\ call'[w].user = call[w].user /\ call'[w].event = call[w].event
      BY <2>1 DEF IInv, TypeOK, CallState
    <3>2. StillTrue(call'[w])
      BY <2>1, <3>1 DEF StillTrue, MayInsert
    <3> QED
      BY <1>2, <3>2, LoadStillTrue DEF CreateCheck
  <2> QED
    BY <1>1, <1>2, <2>1 DEF CreateCheck
<1>3. CASE VerifyCheck(w)
  <2>1. CASE MayVerify(call[w]) /\ call' = [call EXCEPT ![w].pc = "verify_commit"]
    <3>1. call'[w].pc = "verify_commit" /\ call'[w].request = call[w].request
      BY <2>1 DEF IInv, TypeOK, CallState
    <3>2. requests[call[w].request].status = "confirmed"
      BY <1>3, <2>1 DEF VerifyCheck, StillTrue, MayVerify
    <3>3. StillTrue(call'[w])
      BY <2>1, <3>1, <3>2 DEF StillTrue, MayVerify
    <3> QED
      BY <1>3, <3>3, LoadStillTrue DEF VerifyCheck
  <2> QED
    BY <1>1, <1>3, <2>1 DEF VerifyCheck
<1>4. CASE (\E r \in Requests : CreateCommit(w, r)) \/ RespondCommit(w) \/ ConfirmCommit(w)
              \/ VerifyCommit(w) \/ Fail(w)
  BY <1>1, <1>4 DEF CreateCommit, RespondCommit, ConfirmCommit, VerifyCommit, Fail, Committed
<1> QED
  BY <1>2, <1>3, <1>4 DEF WorkerStep

LEMMA StepSInv == OneWorker /\ SInv /\ [Next]_vars => SInv'
<1> SUFFICES ASSUME OneWorker, SInv, [Next]_vars PROVE SInv'
  OBVIOUS
<1>1. IInv'
  BY StepIInv DEF SInv
<1>2. CASE Tick
  <2>1. now' = now + 1 /\ now \in Int
    BY <1>2, ConstantsAssumption DEF Tick, SInv, IInv, TypeOK
  <2>2. ASSUME NEW w \in Workers PROVE StillTrue(call[w])'
    <3>1. call[w].pc = "verify_commit" => call[w].request = PastRequest
      BY DEF SInv, IInv, InFlight, VerifyOK
    <3>2. StillTrue(call[w])
      BY DEF SInv
    <3> QED
      BY <1>2, <2>1, <3>1, <3>2
         DEF Tick, tables, StillTrue, ActiveRequests, EventOver, SInv, IInv, SeedRow
  <2> QED
    BY <1>1, <2>2 DEF SInv
<1>3. ASSUME NEW o \in Organizers, NEW e \in Events, NEW window \in Windows,
             CreateEvent(o, e, window)
      PROVE  SInv'
  <2>1. ASSUME NEW w \in Workers PROVE StillTrue(call[w])'
    <3>1. call[w].pc = "verify_commit" => call[w].request = PastRequest
      BY DEF SInv, IInv, InFlight, VerifyOK
    <3>2. StillTrue(call[w])
      BY DEF SInv
    <3>3. events'[PastEvent] = events[PastEvent]
      BY <1>3, ConstantsAssumption DEF CreateEvent, SInv, IInv, TypeOK, SeedRow
    <3> QED
      BY <1>3, <3>1, <3>2, <3>3
         DEF CreateEvent, StillTrue, ActiveRequests, EventOver, SInv, IInv, SeedRow
  <2> QED
    BY <1>1, <2>1 DEF SInv
<1>4. ASSUME NEW a \in Attendees, NEW n \in Needs, PutNeeds(a, n) PROVE SInv'
  BY <1>1, <1>4 DEF PutNeeds, SInv, StillTrue, ActiveRequests, EventOver
<1>5. CASE UNCHANGED vars
  BY <1>1, <1>5 DEF vars, SInv, StillTrue, ActiveRequests, EventOver
<1> QED
  BY <1>1, <1>2, <1>3, <1>4, <1>5, ArrivalStillTrue, WorkerStillTrue DEF Next

-----------------------------------------------------------------------------
(* The mapping is the identity on now, events, requests and verifications. *)

LEMMA SameTables ==
    /\ Contract!SeedEvents = SeedEvents
    /\ Contract!SeedRequests = SeedRequests
    /\ \A o, window, t : Contract!NewEvent(o, window, t) = NewEvent(o, window, t)
    /\ \A a, e, n : Contract!NewRequest(a, e, n) = NewRequest(a, e, n)
    /\ \A row, d : Contract!Answered(row, d) = Answered(row, d)
    /\ \A row : Contract!Accepted(row) = Accepted(row) /\ Contract!Declined(row) = Declined(row)
    /\ Contract!Decisions = Decisions
    /\ \A a, e : Contract!ActiveRequests(a, e) = ActiveRequests(a, e)
    /\ \A e : Contract!EventOver(e) = EventOver(e)
<1>1. Contract!SeedEvents = SeedEvents
  BY DEF Contract!SeedEvents, SeedEvents, Contract!NoEvent, NoEvent
<1>2. Contract!SeedRequests = SeedRequests
  BY DEF Contract!SeedRequests, SeedRequests, Contract!NoRequest, NoRequest
<1>3. \A o, window, t : Contract!NewEvent(o, window, t) = NewEvent(o, window, t)
  BY DEF Contract!NewEvent, NewEvent, Contract!EventStatus, EventStatus
<1>4. \A a, e, n : Contract!NewRequest(a, e, n) = NewRequest(a, e, n)
  BY DEF Contract!NewRequest, NewRequest
<1>5. \A row, d : Contract!Answered(row, d) = Answered(row, d)
  BY DEF Contract!Answered, Answered
<1>6. \A row : Contract!Accepted(row) = Accepted(row) /\ Contract!Declined(row) = Declined(row)
  BY DEF Contract!Accepted, Accepted, Contract!Declined, Declined
<1>7. Contract!Decisions = Decisions
  BY DEF Contract!Decisions, Decisions
<1>8. \A a, e : Contract!ActiveRequests(a, e) = ActiveRequests(a, e)
  BY DEF Contract!ActiveRequests, ActiveRequests, Contract!ActiveStatuses, ActiveStatuses
<1>9. \A e : Contract!EventOver(e) = EventOver(e)
  BY DEF Contract!EventOver, EventOver
<1> QED
  BY <1>1, <1>2, <1>3, <1>4, <1>5, <1>6, <1>7, <1>8, <1>9

\* The commit of a call is the contract's atomic step.
LEMMA CommitImplements ==
    ASSUME SInv, NEW w \in Workers,
           \/ \E r \in Requests : CreateCommit(w, r)
           \/ RespondCommit(w) \/ ConfirmCommit(w) \/ VerifyCommit(w)
    PROVE  [Contract!Next]_(Contract!vars)
<1> DEFINE c == call[w]
<1>0. StillTrue(c) /\ CreateOK(c) /\ RespondOK(c) /\ ConfirmOK(c) /\ VerifyOK(c)
  BY DEF SInv, IInv, InFlight
<1>1. ASSUME NEW r \in Requests, CreateCommit(w, r) PROVE Contract!Next
  <2>1. c.user \in Attendees /\ c.event \in Events /\ c.needs \in Needs
    BY <1>0, <1>1 DEF CreateCommit, CreateOK
  <2>2. Contract!Submit(c.user, c.event, c.needs, r)
    BY <1>0, <1>1, SameTables
       DEF CreateCommit, CreateOK, StillTrue, Contract!Submit, Contract!MaySubmit
  <2> QED
    BY <2>1, <2>2 DEF Contract!Next
<1>2. CASE RespondCommit(w)
  <2>1. c.request \in Requests /\ c.answer \in Decisions
    BY <1>0, <1>2 DEF RespondCommit, RespondOK
  <2>2. Contract!Answer(c.request, c.answer)
    BY <1>0, <1>2, SameTables DEF RespondCommit, StillTrue, Contract!Answer, Contract!MayAnswer
  <2> QED
    BY <2>1, <2>2, SameTables DEF Contract!Next
<1>3. CASE ConfirmCommit(w)
  <2>1. c.request \in Requests
    BY <1>0, <1>3 DEF ConfirmCommit, ConfirmOK
  <2>2. Contract!Accept(c.request) \/ Contract!Decline(c.request)
    BY <1>0, <1>3, SameTables
       DEF ConfirmCommit, StillTrue, Contract!Accept, Contract!Decline, Contract!MayConfirm
  <2> QED
    BY <2>1, <2>2 DEF Contract!Next
<1>4. CASE VerifyCommit(w)
  <2>1. c.request \in Requests /\ c.request \notin verifications
    BY <1>0, <1>4, ConstantsAssumption DEF VerifyCommit, VerifyOK, StillTrue
  <2>2. Contract!Verify(c.request)
    BY <1>0, <1>4, <2>1, SameTables DEF VerifyCommit, StillTrue, Contract!Verify, Contract!MayVerify
  <2> QED
    BY <2>1, <2>2 DEF Contract!Next
<1> QED
  BY <1>1, <1>2, <1>3, <1>4

LEMMA StepImplements ==
    SInv /\ [Next]_vars => [Contract!Next]_(Contract!vars)
<1> SUFFICES ASSUME SInv, [Next]_vars PROVE [Contract!Next]_(Contract!vars)
  OBVIOUS
<1>1. CASE Tick
  BY <1>1 DEF Tick, tables, Contract!Next, Contract!Tick
<1>2. ASSUME NEW o \in Organizers, NEW e \in Events, NEW window \in Windows,
             CreateEvent(o, e, window)
      PROVE  Contract!Next
  <2>1. Contract!Publish(o, e, window)
    BY <1>2, SameTables DEF CreateEvent, Contract!Publish
  <2> QED
    BY <2>1 DEF Contract!Next
<1>3. CASE UNCHANGED <<now, events, requests, verifications>>
  BY <1>3 DEF Contract!vars
<1>4. ASSUME NEW a \in Attendees, NEW n \in Needs, PutNeeds(a, n)
      PROVE  UNCHANGED <<now, events, requests, verifications>>
  BY <1>4 DEF PutNeeds
<1>5. ASSUME NEW w \in Workers, Arrival(w) \/ CreateCheck(w) \/ VerifyCheck(w) \/ Fail(w)
      PROVE  UNCHANGED <<now, events, requests, verifications>>
  BY <1>5 DEF Arrival, CreateLoad, RespondLoad, ConfirmLoad, VerifyLoad, CreateCheck,
              VerifyCheck, Fail, tables
<1>6. CASE UNCHANGED vars
  BY <1>6 DEF vars, Contract!vars
<1> QED
  BY <1>1, <1>2, <1>3, <1>4, <1>5, <1>6, CommitImplements DEF Next, WorkerStep

\* A service with one worker implements the atomic contract: its clients
\* cannot tell a handler from an indivisible step.
THEOREM SerialImplementsContract ==
    ASSUME OneWorker PROVE Spec => ImplementsContract
<1>1. Init => Contract!Init
  BY SameTables DEF Init, Contract!Init
<1>2. SInv /\ [Next]_vars => SInv'
  BY StepSInv
<1> QED
  BY <1>1, <1>2, InitSInv, StepImplements, PTL DEF Spec, ImplementsContract, Contract!Spec

\* With one worker an attendee never has two active requests for one event,
\* though create_request looks and inserts in two steps and no constraint of
\* the database forbids a second one (ACTIVE_REQUEST_EXISTS).
THEOREM SerialOneActive ==
    ASSUME OneWorker PROVE Spec => []OneActiveRequest
<1>1. Spec => Contract!Spec
  BY SerialImplementsContract DEF ImplementsContract
<1>2. Contract!OneActiveRequest => OneActiveRequest
  BY DEF OneActiveRequest
<1> QED
  BY <1>1, <1>2, ContractOneActive, PTL

\* With one worker no confirmation follows a rejection, a decision and a
\* snapshot of needs are never rewritten, and a request moves along the
\* documented edges only (respond_to_request, confirm_response,
\* submit_verification; docs/architecture.md).
THEOREM SerialKeepsPromises ==
    ASSUME OneWorker
    PROVE  Spec => /\ []Contract!NoConfirmAfterRejection
                   /\ Contract!PromiseFrozen
                   /\ Contract!FollowsDiagram
<1>1. Spec => Contract!Spec
  BY SerialImplementsContract DEF ImplementsContract
<1> QED
  BY <1>1, ContractRejectionFinal, ContractPromiseFrozen, ContractFollowsDiagram, PTL
=============================================================================
