----------------------------- MODULE Registration -----------------------------
(***************************************************************************)
(* Accounts: POST /api/auth/register, /login and /demo-login.              *)
(* register_user looks for the e-mail, then inserts the user and, for an   *)
(* organizer, the organizer profile in one transaction; between the query  *)
(* and the commit other sessions commit too, and a unique index on e-mail  *)
(* is what is left to stop them.                                           *)
(***************************************************************************)
EXTENDS FiniteSets

CONSTANTS
    Spellings,      \* e-mail addresses as clients type them
    Mailboxes,      \* e-mail addresses stripped and in lower case
    Canon,          \* the mailbox of each spelling
    Passwords,
    Users,          \* ids (uuid4) a user may get
    DemoAttendee,   \* "u-att-1"
    DemoOrganizer,  \* "u-org-1"
    Workers,        \* threads that hold a database session
    Nil             \* SQL NULL, and an unused field

Roles == {"attendee", "organizer"}

ASSUME RegistrationAssumption ==
    /\ Canon \in [Spellings -> Mailboxes]
    /\ \A m \in Mailboxes \cap Spellings : Canon[m] = m   \* strip and lower, again
    /\ {DemoAttendee, DemoOrganizer} \subseteq Users
    /\ DemoAttendee # DemoOrganizer
    /\ Nil \notin Spellings \cup Mailboxes \cup Passwords \cup Users \cup Roles

VARIABLES
    enable_demo_login,  \* a setting of the process
    users,          \* table users
    profiles,       \* the owner_user_ids of table organizers
    call,           \* per worker, the registration that passed its check
    reply           \* per worker, how its last call ended

vars == <<enable_demo_login, users, profiles, call, reply>>

UserRow == [email    : Mailboxes \cup {Nil},
            password : Passwords \cup {Nil},
            role     : Roles]

NoUser == [email |-> Nil, password |-> Nil, role |-> Nil]

Idle == [email |-> Nil, password |-> Nil, role |-> Nil]

ReplyKinds == {"none", "token", "email_taken", "conflict", "lost",
               "invalid_credentials", "demo_login_disabled", "demo_data_missing"}

\* A reply keeps what the call was given and the user its token names.
Reply(kind, email, password, user) ==
    [kind |-> kind, email |-> email, password |-> password, user |-> user]

NoReply == Reply("none", Nil, Nil, Nil)

Return(w, r) ==
    /\ call' = [call EXCEPT ![w] = Idle]
    /\ reply' = [reply EXCEPT ![w] = r]

\* Faulty on purpose: the address is taken as it is typed.
Normalized_AsTyped(spelling) == spelling

\* What an account is stored under, and looked up by.
Normalized(spelling) == Canon[spelling]

Holders(email) == {u \in Users : users[u].email = email}

-----------------------------------------------------------------------------
DemoRow(role) == [email |-> Nil, password |-> Nil, role |-> role]

\* A fresh database, with the rows of seed.py or without them.
Init ==
    /\ enable_demo_login \in BOOLEAN
    /\ \/ /\ users = [[u \in Users |-> NoUser] EXCEPT
                ![DemoAttendee]  = DemoRow("attendee"),
                ![DemoOrganizer] = DemoRow("organizer")]
          /\ profiles = {DemoOrganizer}
       \/ users = [u \in Users |-> NoUser] /\ profiles = {}
    /\ call = [w \in Workers |-> Idle]
    /\ reply = [w \in Workers |-> NoReply]

RegisterCheck(w, s, p, role) ==
    LET email == Normalized(s) IN
    /\ call[w] = Idle
    /\ \/ /\ Holders(email) = {}
          /\ call' = [call EXCEPT ![w] = [email |-> email, password |-> p, role |-> role]]
          /\ reply' = [reply EXCEPT ![w] = NoReply]
       \/ /\ Holders(email) # {}
          /\ Return(w, Reply("email_taken", email, p, Nil))
    /\ UNCHANGED <<enable_demo_login, users, profiles>>

\* Faulty on purpose: no unique index stands behind the check.
MayInsert_NoIndex(email) == TRUE

\* The unique index ix_users_email.
MayInsert(email) == Holders(email) = {}

\* Faulty on purpose: the user is committed before the organizer profile is
\* added, and the process may die in between.
Owners_SeparateCommit(u, role, outcome) ==
    IF role = "organizer" /\ outcome = "token" THEN {u} ELSE {}

Owners(u, role, outcome) == IF role = "organizer" THEN {u} ELSE {}

\* The user and an organizer's profile become visible together; the process
\* may still die before it answers.
RegisterCommit(w, u) ==
    LET new == call[w] IN
    /\ new # Idle
    /\ \/ /\ MayInsert(new.email)
          /\ users[u] = NoUser
          /\ users' = [users EXCEPT ![u] = new]
          /\ UNCHANGED enable_demo_login
          /\ \E kind \in {"token", "lost"} :
                /\ profiles' = profiles \cup Owners(u, new.role, kind)
                /\ Return(w, Reply(kind, new.email, new.password, u))
       \/ /\ ~MayInsert(new.email)
          /\ Return(w, Reply("conflict", new.email, new.password, Nil))
          /\ UNCHANGED <<enable_demo_login, users, profiles>>

\* Faulty on purpose: the password is not verified.
Verified_Any(u, p) == TRUE

\* password_hash IS NULL for the demo accounts.
Verified(u, p) == users[u].password # Nil /\ users[u].password = p

\* One query and no write.  (scalar_one_or_none would raise if it found two
\* rows: OneAccountPerMailbox.)
Login(w, s, p) ==
    LET email == Normalized(s) IN
    /\ call[w] = Idle
    /\ \/ \E u \in Holders(email) :
            Verified(u, p) /\ Return(w, Reply("token", email, p, u))
       \/ /\ \A u \in Holders(email) : ~Verified(u, p)
          /\ Return(w, Reply("invalid_credentials", email, p, Nil))
    /\ UNCHANGED <<enable_demo_login, users, profiles>>

DemoUser(account) == IF account = "attendee" THEN DemoAttendee ELSE DemoOrganizer

LoginDemo(w, account) ==
    LET u == DemoUser(account) IN
    /\ call[w] = Idle
    /\ \/ /\ ~enable_demo_login
          /\ Return(w, Reply("demo_login_disabled", Nil, Nil, Nil))
       \/ /\ enable_demo_login
          /\ users[u].role # account
          /\ Return(w, Reply("demo_data_missing", Nil, Nil, Nil))
       \/ /\ enable_demo_login
          /\ users[u].role = account
          /\ Return(w, Reply("token", Nil, Nil, u))
    /\ UNCHANGED <<enable_demo_login, users, profiles>>

\* The process or the connection fails before the commit.
Fail(w) ==
    /\ call[w] # Idle
    /\ Return(w, Reply("lost", call[w].email, call[w].password, Nil))
    /\ UNCHANGED <<enable_demo_login, users, profiles>>

Next ==
    \E w \in Workers :
        \/ \E s \in Spellings, p \in Passwords :
              (\E role \in Roles : RegisterCheck(w, s, p, role)) \/ Login(w, s, p)
        \/ \E u \in Users : RegisterCommit(w, u)
        \/ \E account \in Roles : LoginDemo(w, account)
        \/ Fail(w)

Spec == Init /\ [][Next]_vars

-----------------------------------------------------------------------------
TypeOK ==
    /\ enable_demo_login \in BOOLEAN
    /\ users \in [Users -> UserRow \cup {NoUser}]
    /\ profiles \subseteq Users
    /\ call \in [Workers ->
            {Idle} \cup [email : Mailboxes, password : Passwords, role : Roles]]
    /\ reply \in [Workers -> [kind     : ReplyKinds,
                             email    : Mailboxes \cup {Nil},
                             password : Passwords \cup {Nil},
                             user     : Users \cup {Nil}]]

Mailbox(email) == IF email \in Spellings THEN Canon[email] ELSE email

\* One person's mailbox never holds two accounts, however it is typed and
\* however many registrations overlap; so login always finds one row at most
\* (register_user, login_user, ix_users_email).
OneAccountPerMailbox ==
    \A u, v \in Users :
        /\ users[u].email # Nil
        /\ users[v].email # Nil
        /\ Mailbox(users[u].email) = Mailbox(users[v].email)
        => u = v

\* An organizer always has an organizer profile, and only organizers have one,
\* whenever the process dies (register_user; event publication and the
\* ownership checks resolve the organizer through it).
OrganizersHaveProfiles == profiles = {u \in Users : users[u].role = "organizer"}

\* Whoever was given a token for an address and a password can log in with
\* them from then on: nobody else's registration takes the account over.
TokenHolderCanLogin ==
    \A w \in Workers :
        reply[w].kind = "token" /\ reply[w].email # Nil =>
            /\ Holders(reply[w].email) = {reply[w].user}
            /\ users[reply[w].user].password = reply[w].password
=============================================================================
