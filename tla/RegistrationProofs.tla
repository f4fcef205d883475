-------------------------- MODULE RegistrationProofs --------------------------
(***************************************************************************)
(* Theorems about accounts for any number of people, spellings, mailboxes  *)
(* and workers.                                                            *)
(*                                                                         *)
(* The argument.  The check of register_user decides nothing: whatever it  *)
(* saw may be out of date at the commit.  What holds is what the unique    *)
(* index makes hold of the table itself (UniqueEmails), and an account     *)
(* that has an address keeps it with its password, because the only writer *)
(* fills a row that is free.                                               *)
(***************************************************************************)
EXTENDS Registration, TLAPS

\* The unique index ix_users_email; NULLs do not count as equal.
UniqueEmails ==
    \A u, v \in Users :
        users[u].email # Nil /\ users[u].email = users[v].email => u = v

RInv ==
    /\ TypeOK
    /\ UniqueEmails
    /\ OrganizersHaveProfiles
    /\ TokenHolderCanLogin

\* An account with an address is never changed, and its address never goes to
\* another account as well.
AccountStays ==
    \A u \in Users :
        users[u].email # Nil =>
            users'[u] = users[u] /\ Holders(users[u].email)' = {u}

-----------------------------------------------------------------------------
LEMMA NilIsNothing ==
    /\ Nil \notin Mailboxes /\ Nil \notin Passwords /\ Nil \notin Users /\ Nil \notin Roles
    /\ Nil # "attendee" /\ Nil # "organizer"
BY RegistrationAssumption DEF Roles

LEMMA NormalizedType ==
    ASSUME NEW s \in Spellings
    PROVE  Normalized(s) \in Mailboxes
BY RegistrationAssumption DEF Normalized

LEMMA InitRInv == Init => RInv
<1> SUFFICES ASSUME Init PROVE RInv
  OBVIOUS
<1> USE RegistrationAssumption, NilIsNothing
<1>1. users \in [Users -> UserRow \cup {NoUser}]
  BY DEF Init, UserRow, NoUser, DemoRow, Roles
<1>2. \A u \in Users : users[u].email = Nil
  BY DEF Init, NoUser, DemoRow
<1>3. OrganizersHaveProfiles
  BY DEF Init, NoUser, DemoRow, OrganizersHaveProfiles
<1>4. TypeOK
  BY <1>1 DEF Init, TypeOK, NoReply, Reply, ReplyKinds
<1>5. TokenHolderCanLogin
  BY DEF Init, NoReply, Reply, TokenHolderCanLogin
<1> QED
  BY <1>2, <1>3, <1>4, <1>5 DEF RInv, UniqueEmails

-----------------------------------------------------------------------------
(* Steps that write no table.                                              *)

Replied == [kind : ReplyKinds, email : Mailboxes \cup {Nil},
            password : Passwords \cup {Nil}, user : Users \cup {Nil}]

\* What a token says is true of the table.
Honest(r) ==
    r.kind = "token" /\ r.email # Nil =>
        Holders(r.email) = {r.user} /\ users[r.user].password = r.password

LEMMA ReadingKeeps ==
    ASSUME RInv, UNCHANGED <<enable_demo_login, users, profiles>>, NEW w \in Workers,
           NEW c \in {Idle} \cup [email : Mailboxes, password : Passwords, role : Roles],
           NEW r \in Replied, Honest(r),
           call' = [call EXCEPT ![w] = c], reply' = [reply EXCEPT ![w] = r]
    PROVE  RInv'
<1>1. TypeOK'
  BY DEF RInv, TypeOK, Replied
<1>2. UniqueEmails' /\ OrganizersHaveProfiles'
  BY DEF RInv, UniqueEmails, OrganizersHaveProfiles
<1>3. TokenHolderCanLogin'
  <2> SUFFICES ASSUME NEW v \in Workers PROVE Honest(reply[v])'
    BY DEF TokenHolderCanLogin, Honest
  <2>1. reply'[v] = IF v = w THEN r ELSE reply[v]
    BY DEF RInv, TypeOK
  <2>2. Honest(reply[v])
    BY DEF RInv, TokenHolderCanLogin, Honest
  <2> QED
    BY <2>1, <2>2 DEF Honest, Holders
<1> QED
  BY <1>1, <1>2, <1>3 DEF RInv

LEMMA CheckKeeps ==
    ASSUME RInv, NEW w \in Workers, NEW s \in Spellings, NEW p \in Passwords,
           NEW role \in Roles, RegisterCheck(w, s, p, role)
    PROVE  RInv'
<1> DEFINE email == Normalized(s)
<1>1. email \in Mailboxes
  BY NormalizedType
<1>2. CASE /\ call' = [call EXCEPT ![w] = [email |-> email, password |-> p, role |-> role]]
           /\ reply' = [reply EXCEPT ![w] = NoReply]
  <2>1. NoReply \in Replied /\ Honest(NoReply)
    BY DEF NoReply, Reply, Replied, ReplyKinds, Honest
  <2> QED
    BY <1>1, <1>2, <2>1, ReadingKeeps DEF RegisterCheck
<1>3. CASE Return(w, Reply("email_taken", email, p, Nil))
  <2>1. /\ Reply("email_taken", email, p, Nil) \in Replied
        /\ Honest(Reply("email_taken", email, p, Nil))
    BY <1>1 DEF Reply, Replied, ReplyKinds, Honest
  <2> QED
    BY <1>3, <2>1, ReadingKeeps DEF RegisterCheck, Return
<1> QED
  BY <1>2, <1>3 DEF RegisterCheck

\* Of the rows login could find there is only one, so its token names the
\* account and the password verified is the account's.
LEMMA LoginKeeps ==
    ASSUME RInv, NEW w \in Workers, NEW s \in Spellings, NEW p \in Passwords,
           Login(w, s, p)
    PROVE  RInv'
<1> DEFINE email == Normalized(s)
<1>1. email \in Mailboxes /\ email # Nil
  BY NormalizedType, NilIsNothing
<1>2. ASSUME NEW u \in Holders(email), Verified(u, p),
             Return(w, Reply("token", email, p, u))
      PROVE  RInv'
  <2>1. Holders(email) = {u}
    BY <1>1 DEF RInv, UniqueEmails, Holders
  <2>2. u \in Users /\ users[u].password = p
    BY <1>2 DEF Holders, Verified
  <2>3. Reply("token", email, p, u) \in Replied /\ Honest(Reply("token", email, p, u))
    BY <1>1, <2>1, <2>2 DEF Reply, Replied, ReplyKinds, Honest
  <2> QED
    BY <1>2, <2>3, ReadingKeeps DEF Login, Return
<1>3. CASE Return(w, Reply("invalid_credentials", email, p, Nil))
  <2>1. /\ Reply("invalid_credentials", email, p, Nil) \in Replied
        /\ Honest(Reply("invalid_credentials", email, p, Nil))
    BY <1>1 DEF Reply, Replied, ReplyKinds, Honest
  <2> QED
    BY <1>3, <2>1, ReadingKeeps DEF Login, Return
<1> QED
  BY <1>2, <1>3 DEF Login

LEMMA DemoKeeps ==
    ASSUME RInv, NEW w \in Workers, NEW account \in Roles, LoginDemo(w, account)
    PROVE  RInv'
<1> DEFINE u == DemoUser(account)
<1>1. PICK r \in {Reply("demo_login_disabled", Nil, Nil, Nil),
                  Reply("demo_data_missing", Nil, Nil, Nil),
                  Reply("token", Nil, Nil, u)} : Return(w, r)
  BY DEF LoginDemo
<1>2. u \in Users
  BY RegistrationAssumption DEF DemoUser
<1>3. r \in Replied /\ Honest(r)
  BY <1>2 DEF Reply, Replied, ReplyKinds, Honest
<1> QED
  BY <1>1, <1>3, ReadingKeeps DEF LoginDemo, Return

LEMMA FailKeeps ==
    ASSUME RInv, NEW w \in Workers, Fail(w)
    PROVE  RInv'
<1> DEFINE r == Reply("lost", call[w].email, call[w].password, Nil)
<1>1. r \in Replied /\ Honest(r)
  BY DEF RInv, TypeOK, Fail, Reply, Replied, ReplyKinds, Honest
<1> QED
  BY <1>1, ReadingKeeps DEF Fail, Return

-----------------------------------------------------------------------------
(* The commit.                                                             *)

LEMMA CommitKeeps ==
    ASSUME RInv, NEW w \in Workers, NEW u \in Users, RegisterCommit(w, u)
    PROVE  RInv'
<1> DEFINE new == call[w]
<1>1. /\ new \in [email : Mailboxes, password : Passwords, role : Roles]
      /\ new.email # Nil
  BY NilIsNothing DEF RInv, TypeOK, RegisterCommit
<1>2. CASE ~MayInsert(new.email)
  <2> DEFINE r == Reply("conflict", new.email, new.password, Nil)
  <2>1. r \in Replied /\ Honest(r)
    BY <1>1 DEF Reply, Replied, ReplyKinds, Honest
  <2> QED
    BY <1>2, <2>1, ReadingKeeps DEF RegisterCommit, Return
<1>3. CASE MayInsert(new.email)
  <2>1. PICK kind \in {"token", "lost"} :
            /\ profiles' = profiles \cup Owners(u, new.role, kind)
            /\ Return(w, Reply(kind, new.email, new.password, u))
    BY <1>3 DEF RegisterCommit
  <2>2. /\ Holders(new.email) = {} /\ users[u] = NoUser
        /\ users' = [users EXCEPT ![u] = new]
        /\ UNCHANGED enable_demo_login
    BY <1>3 DEF RegisterCommit, MayInsert
  <2> DEFINE r == Reply(kind, new.email, new.password, u)
  <2>3. \A v \in Users : users'[v] = IF v = u THEN new ELSE users[v]
    BY <2>2 DEF RInv, TypeOK
  <2>4. r \in Replied
    BY <1>1 DEF Reply, Replied, ReplyKinds
  <2>5. TypeOK'
    <3>1. users' \in [Users -> UserRow \cup {NoUser}]
      BY <1>1, <2>2 DEF RInv, TypeOK, UserRow
    <3>2. profiles' \subseteq Users
      BY <2>1 DEF RInv, TypeOK, Owners
    <3>3. call' \in [Workers ->
            {Idle} \cup [email : Mailboxes, password : Passwords, role : Roles]]
      BY <2>1 DEF RInv, TypeOK, Return
    <3>4. reply' \in [Workers -> Replied]
      BY <2>1, <2>4 DEF RInv, TypeOK, Return, Replied
    <3> QED
      BY <2>2, <3>1, <3>2, <3>3, <3>4 DEF RInv, TypeOK, Replied
  <2>6. UniqueEmails'
    BY <1>1, <2>2, <2>3 DEF RInv, UniqueEmails, Holders
  <2>7. OrganizersHaveProfiles'
    BY <1>1, <2>1, <2>2, <2>3, NilIsNothing DEF RInv, OrganizersHaveProfiles, Owners, NoUser
  <2>8. TokenHolderCanLogin'
    <3> SUFFICES ASSUME NEW v \in Workers PROVE Honest(reply[v])'
      BY DEF TokenHolderCanLogin, Honest
    <3>1. reply'[v] = IF v = w THEN r ELSE reply[v]
      BY <2>1 DEF RInv, TypeOK, Return
    <3>2. CASE v = w
      <4>1. {x \in Users : users'[x].email = new.email} = {u}
        BY <2>2, <2>3 DEF Holders
      <4> QED
        BY <2>3, <3>1, <3>2, <4>1 DEF Honest, Reply, Holders
    <3>3. CASE v # w
      <4>1. Honest(reply[v])
        BY DEF RInv, TokenHolderCanLogin, Honest
      <4>2. ASSUME reply[v].kind = "token", reply[v].email # Nil
            PROVE  /\ {x \in Users : users'[x].email = reply[v].email}
                        = Holders(reply[v].email)
                   /\ users'[reply[v].user] = users[reply[v].user]
        <5>1. reply[v].email # new.email
          BY <2>2, <4>1, <4>2 DEF Honest
        <5>2. reply[v].user \in Users /\ reply[v].user # u
          BY <2>2, <4>1, <4>2 DEF Honest, Holders, NoUser
        <5> QED
          BY <2>2, <2>3, <4>2, <5>1, <5>2 DEF Holders, NoUser
      <4> QED
        BY <3>1, <3>3, <4>1, <4>2 DEF Honest, Holders
    <3> QED
      BY <3>2, <3>3
  <2> QED
    BY <2>5, <2>6, <2>7, <2>8 DEF RInv
<1> QED
  BY <1>2, <1>3

LEMMA StepRInv == RInv /\ [Next]_vars => RInv'
<1> SUFFICES ASSUME RInv, [Next]_vars PROVE RInv'
  OBVIOUS
<1>1. CASE UNCHANGED vars
  BY <1>1 DEF vars, RInv, TypeOK, UniqueEmails, OrganizersHaveProfiles,
              TokenHolderCanLogin, Holders
<1> QED
  BY <1>1, CheckKeeps, LoginKeeps, DemoKeeps, FailKeeps, CommitKeeps DEF Next

\* The invariant of accounts is inductive.
THEOREM AccountsInductive == Spec => []RInv
BY InitRInv, StepRInv, PTL DEF Spec

\* Every table and every call keep their types; an address is stored stripped
\* and in lower case (normalize_email).
THEOREM AccountTypes == Spec => []TypeOK
<1>1. RInv => TypeOK
  BY DEF RInv
<1> QED
  BY <1>1, AccountsInductive, PTL

\* One mailbox never holds two accounts, however it is typed and however many
\* registrations overlap (register_user, ix_users_email, normalize_email).
THEOREM MailboxesHaveOneAccount == Spec => []OneAccountPerMailbox
<1>1. RInv => OneAccountPerMailbox
  <2> SUFFICES ASSUME RInv, NEW u \in Users, NEW v \in Users,
                      users[u].email # Nil, users[v].email # Nil,
                      Mailbox(users[u].email) = Mailbox(users[v].email)
               PROVE  u = v
    BY DEF OneAccountPerMailbox
  <2>1. users[u].email \in Mailboxes /\ users[v].email \in Mailboxes
    BY DEF RInv, TypeOK, UserRow, NoUser
  <2>2. \A m \in Mailboxes : Mailbox(m) = m
    BY RegistrationAssumption DEF Mailbox
  <2> QED
    BY <2>1, <2>2 DEF RInv, UniqueEmails
<1> QED
  BY <1>1, AccountsInductive, PTL

\* Organizers and organizer profiles come and stay together, whenever the
\* process dies (register_user).
THEOREM OrganizersAreWhole == Spec => []OrganizersHaveProfiles
<1>1. RInv => OrganizersHaveProfiles
  BY DEF RInv
<1> QED
  BY <1>1, AccountsInductive, PTL

\* A token tells the truth about the account behind it: it is the only one of
\* its address and has the password given (register_user, login_user).
THEOREM TokensAreHonest == Spec => []TokenHolderCanLogin
<1>1. RInv => TokenHolderCanLogin
  BY DEF RInv
<1> QED
  BY <1>1, AccountsInductive, PTL

\* No later registration or login takes an account over or changes it, so its
\* owner can log in for ever (register_user, login_user).
THEOREM AccountsStay == Spec => [][AccountStays]_vars
<1>1. RInv /\ RInv' /\ [Next]_vars => [AccountStays]_vars
  <2> SUFFICES ASSUME RInv, RInv', Next, NEW u \in Users, users[u].email # Nil
               PROVE  users'[u] = users[u] /\ Holders(users[u].email)' = {u}
    BY DEF AccountStays
  <2>1. users'[u] = users[u]
    BY DEF Next, RegisterCheck, Login, LoginDemo, Fail, RegisterCommit, RInv, TypeOK, NoUser
  <2> QED
    BY <2>1 DEF RInv, UniqueEmails, Holders
<1> QED
  BY <1>1, AccountsInductive, PTL DEF Spec
=============================================================================
