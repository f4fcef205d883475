# EventEase: a verification project

EventEase is a FastAPI backend (`src/app`) over PostgreSQL. Attendees with accessibility
needs look for events, ask an event's organizer for accommodations, accept or decline the
answer, and report after the event whether the promise was kept. This directory holds TLA+
models of that backend, the TLC runs that check them and proofs that TLAPS checks.
`PROJECT.json` lists components, runs, mutants, hazards, theorems and, for every definition
that models code, the lines it models.

## 1. Inventory

One process runs many requests at a time: every endpoint is a plain `def`, so FastAPI calls
it on a thread of its pool, with a database session of its own (`core/dependencies.py`,
`core/database.py`). There are no background jobs, no queues and no locks in the code. The
components interact through the database only: a handler reads rows, decides, and writes at
`session.commit()`, and PostgreSQL runs each statement at READ COMMITTED. So what is hard in
this code is what happens *between* a handler's read and its commit, and what a client that
lost an answer does next. Around the handlers lie two pools (threads and connections), which
every call goes through, and `start.sh`, which every instance runs before it serves.

| Component | State | Operations | Hard part | What makes it correct |
|---|---|---|---|---|
| Accessibility requests (`modules/accessibility_requests`) | `accessibility_requests` | create, respond, confirm, list | check and write in separate statements; updates by id alone | one active request, frozen promises, documented lifecycle |
| Verification (`modules/verification`) | `verifications`, request status | submit | existence check against a UNIQUE constraint; status read early | verified exactly with a verification row; only after the event |
| Events (`modules/events`) | `events`, `venues`, `accessibility_claims` | create, detail | three flushes before one commit; status decided once | an event is never half there; status that follows the clock |
| Event list and search (`modules/events`) | none (reads) | list, filters, two sort orders | total and page in two statements; paging by offset while events are published and the ranking profile changes | total order; nothing missed without a reason |
| Match score (`modules/events`) | none (reads) | score | floating-point sum, rounding at half | the weighted-sum formula, monotone in the claim |
| Need profiles (`modules/users`) | `need_profiles` | get, put | column-wise UPDATE, first PUT inserts | all seven values replaced together |
| Accounts (`modules/auth`, `core/security.py`) | `users`, `organizers` | register, login, demo login | existence check against a unique index; two rows in one commit | one account per mailbox, an organizer has a profile |
| Media (`modules/events/media_controller.py`, `core/storage.py`) | `event_media`, objects in the bucket | upload | two stores and no transaction over both | no dead links, orphans only after a failure |
| Organizer reliability (`modules/organizers`) | none (reads) | score | window of the last 20, rounding | one formula, newest verifications |
| Dashboard (`modules/dashboard`) | none (reads) | summary | three statements, no snapshot; a match that may raise | its parts differ only by what happened between them; it never fails |
| Sessions and pool (`core/database.py`, `core/dependencies.py`) | connections, threads | check out, return | a call queues for a thread three times and keeps its connection meanwhile | every call is answered; an error is not a false alarm |
| Seed, migrations and start (`seed.py`, `cli.py`, `migrations`, `start.sh`) | schema, demo rows | upgrade, seed, serve | several starts at once, errors and kills in between, no lock and no retry | everybody serves in the end, over whole data, and nothing is overwritten |

Interactions. A request is created only for an attendee with a need profile and copies it; it
belongs to an event and through it to an organizer profile, which registration creates with
the user. Verification reads the event's end and status and feeds reliability, which every
event list and detail embeds. The dashboard and the list sorted by match score call the match
formula with the same profile. The seed writes rows of all tables.

## 2. Modules

| Module | What it is |
|---|---|
| `RequestTables` | Rows, seed rows, and the writes of the request handlers as operators; shared by the next two |
| `RequestContract` | The documented lifecycle with atomic steps (abstract) |
| `RequestService` | The handlers as they run: load, check, commit, on concurrent workers (detailed); instantiates `RequestContract` |
| `AtomicRegister` | A register that concurrent, failing calls replace (abstract) |
| `NeedProfile` | PUT of a need profile on concurrent workers; instantiates `AtomicRegister` per column and for the row |
| `Registration` | register, login and demo login on concurrent workers |
| `MediaUpload` | Upload to the bucket, then the row |
| `MatchScore` | `_compute_match` as a loop over attributes, for several events with one profile |
| `EventCatalog` | `create_event` flush by flush, and a client that pages through `list_events` |
| `RequestReads` | The request list and the dashboard, statement by statement, over requests that others change |
| `ConnectionPool` | The threads and connections every call goes through |
| `Startup` | `start.sh` on several instances: migrations, seed, serve |
| `RequestServiceProofs`, `NeedProfileProofs`, `RegistrationProofs`, `MediaUploadProofs`, `MatchScoreProofs`, `EventCatalogProofs`, `RequestReadsProofs` | theorems about the module of that name (the first one also about `RequestContract`) |
| `PlatformProofs` | theorems about what surrounds the handlers, `ConnectionPool` and `Startup`; it extends both, which is why the former's specification is called `PoolSpec` |
| `MC...` | instances for TLC |

### How the code becomes actions

A *worker* is a thread with a session. `call[w]` is what the running handler has read so far
and where it stands, `reply[w]` how its last call ended: `ok`, `refused` (an `APIError`, which
changes nothing), `conflict` (an `IntegrityError` that `core/errors.py` has no handler for, so
a 500), or `lost` (the client learns nothing). Where only a few outcomes matter a module names
those. A handler is cut into steps exactly where another session's commit can become visible
to it:

* **Load**: the row it decides on is read; every guard that uses only this row and rows that
  never change is decided here. A call that would be refused here returns at once.
* **Check**: a later query whose answer can have changed (`create_request` looks for an active
  request, `submit_verification` for a verification row). `submit_verification` compares the
  status it *loaded*.
* **Commit**: the writes appear all together. SQLAlchemy writes the changed columns with
  `UPDATE ... WHERE id = :id`, so a commit neither re-reads nor re-checks the row; this is why
  `RespondCommit` and `ConfirmCommit` have no guard on the status. A commit whose answer is
  lost is a choice of every commit action.
* **Fail**: the process or its connection goes away before the commit; the session is rolled
  back.

In `RequestService` two handlers are one step. `create_event` reads nothing that changes and
commits once (`EventCatalog` takes its flushes apart). `PUT /api/me/needs` replaces a profile
that is an opaque value there; its own races are in `NeedProfile`, and `Needs` may be read as
all profiles, mixed ones included.
`MatchScore` has one action per iteration of the loop (the loop that adds up weights and the
one that adds up terms are taken together, since numbers are exact) and one for rounding.

*Readers.* A read-only handler is cut at its statements: `EventCatalog` and `RequestReads` have
one action per statement (the guards and the first one together) and a client that goes from
page to page. A client stops at a page that is not full or when the total is reached; both are
common, and they differ in what can go wrong. `ORDER BY`, `LIMIT` and `OFFSET` are ranks: the
rank of a row is the number of rows before it. History variables remember what matched at the
first statement and what changed since; no action reads them. In `RequestReads` a writer is its
commit alone and may do whatever `StaleWritesContained` allows a commit to do, which is why it
needs no workers; only an insertion has two steps, since `created_at` is read at the flush.

*Pools.* `ConnectionPool` follows a call through its jobs: open the session, check the token,
run the endpoint, read again after the commit if the endpoint does, close. Between jobs it is
in the queue for a thread. Kinds of calls differ in which of these they have. *Starts.*
`Startup` gives each instance the program it runs; a transaction's rows are its own until it
commits, and whoever inserts the same key waits for it. The session factory leaves autoflush on,
so the query of each `session.get` in `seed.py` first inserts the row added before it: the seed
takes the tables one at a time, in the order of the code, and passes over one that has its rows.

### Abstractions

Free text, timestamps that no guard compares, labels, wording and response layout are left
out. `confirmed_at` is kept as a Boolean because `RowsCoherent` relates it to the status. A
need profile is one value in the request modules, a function from columns in `NeedProfile`, and
a record in `MatchScore`. A mailbox and its spellings are model values with the normalisation
as a function (`Canon`). File contents are their size. Scores are exact: fulfilments count in
halves, weights in quarters. The float computation of the code agrees with the exact one
except where the exact score lies half-way between two integers (37.5, 62.5, 87.5); there the
model lets `round` fall either way, the same way for claims with equal terms, which the code
adds in the same order. `_compute_match` also accepts a missing claim and scores it like one
that leaves all attributes unknown; no event without a claim exists (`EventsAreWhole`), so
that input is not used. In `EventCatalog` one facility stands for six, a title is matched or
not, and the score is any function of profile and claim into 0..100. In `Startup` the demo rows
of one table stand or fall together, since one transaction inserts them.

## 3. Runs

| Run | Module | Bounds | Distinct states | What it shows |
|---|---|---|---|---|
| Races | RequestService | 2 workers, 3 new requests, clock 0..2 | 463,089 | what survives every interleaving of two handlers |
| Serial | RequestService | 1 worker, 2 attendees, 2 organizers, 3 events, clock 0..2 | 94,717 | with one worker the service implements the contract |
| Fair | RequestService | 2 workers, 1 new request | 6,706 | requests come to rest; an ended completed event is verified |
| Columns | NeedProfile | 3 workers, 2 columns | 33,716 | each column is an atomic register |
| Accounts | Registration | 2 workers, 3 spellings of 2 mailboxes, 5 users | 88,935 | one account per mailbox, no half organizer |
| Media | MediaUpload | 2 workers, 3 paths, 2 events, sizes 0..4 around a limit of 2 | 1,456 | no dead links; orphans are failures |
| Score | MatchScore | all 7 attributes, all claims; a second event with the same claim disclosed or one grade better | 645,981 | percentages; the documented formula; honest 0 and 100; monotone in the claim |
| Catalog | EventCatalog | 7 events (2 seeded, 2 that cannot be stored or accepted), 2 profiles, 14 queries, pages of 1 and 2 | 78,037 | what a paging client can miss; a quiet list is exact; no event is half there |
| Reads | RequestReads | 2 attendees, 3 events, 3 new requests, clock 1..3; 2 dashboards, 3 lists with pages of 1 and 2 | 1,847,481 | what a client that pages through requests can miss or see twice; the dashboard's parts |
| Pool | ConnectionPool | 5 calls of 5 kinds, 2 threads, 1 + 1 connections | 179,313 | standstills need full load and end; whoever is turned away has met a full pool |
| Start | Startup | 3 instances, 1 kill, all earlier schemas | 1,083,474 | everybody serves in the end, over whole data; nobody waits in a circle |
| NeverVerified (violation) | RequestService | 1 worker, 1 new request, clock 0..2 | | section 5 |

**Bounds.** Every race of the writers is between a handler that has read and one that commits,
so two workers show each of them; the third request of Races is there so that two overlapping
`create_request` calls still leave room for another. `MaxTime` stops the clock after the seeded
upcoming event has started or, in Races, Serial and NeverVerified, ended: there it is over by
the clock while its status is still `upcoming`, which is where the two guards of verification
differ. In Reads the clock starts after the time of the seeded request, which is days old when
anybody calls, and new requests have equal or different times. Its `MCBound` keeps apart what
the two kinds of reading turn on: a list sees new requests of one attendee for one event, at up
to three different times, and of their statuses those it tells apart; a dashboard sees new
requests for two events at two times, at most one of them somebody else's. `IdsLeft` in
`RequestService` starts a creation only while an unused id is left; users in `Registration`,
paths in `MediaUpload`, events in `EventCatalog` and requests in `RequestReads` run out in the
same way (paths are why Media allows deadlock: a system whose paths are used up stops; so does a
finished score). Serial publishes one event, with every window. Distances of `MatchScore` lie on
both sides of each limit and on it, and facilities differ by name only, so one input per
multiset of them is used. The second event of Score claims what the first claims with everything
unknown told at its worst, or with one facility a grade higher: the smallest steps, where
rounding is most likely to turn a ranking round; the theorem of section 6 covers all pairs.

Pages of one and two rows over five events that can be published give lists of up to five pages,
so a row can move from any page to its neighbour; the theorems of section 6 hold for any page
size. In Reads the dashboard shows two recent requests of up to four, so both a full and a
partial list occur, and the lists have room for a request that leaves the filter, one that it
hides, and one that comes in front. Nothing is written between the end of one reading and the
start of the next, which could not change what was shown. Pool needs more calls than threads and
connections together to show a standstill and how it ends; one call of each kind that differs is
there (`login` differs from `register` in having nothing to commit). `KillLimit` bounds kills,
and `StopsCounted` a history variable, just above the value the property allows. Start allows
deadlock since all may serve for ever.

**Fairness.** *Fair and NeverVerified:* a thread goes on with its handler (`WF` on
`WorkerStep`), the clock moves on (`WF` on `Tick`), and people do their part: an organizer whose
answer is accepted in principle does answer, an attendee confirms, an attendee tries to verify
(`SF`, since a busy server may make them wait again and again). Failures stop at some point
(`<>[]` no `Fail`); without that no call would ever have to end. Nothing forces a client to
*create* requests. Fair shows that even stale writes, which reopen closed requests, run out;
NeverVerified shows that even such clients wait for ever for the verification of an event that
was upcoming when it was published. *Pool:* a free thread is given to the head of the queue, and
a call that has a thread goes on (`WF` per call): statements and the storage request have time
limits, and so has the wait for a connection (SQLAlchemy's `pool_timeout`). Nothing forces calls
to come or to find a connection. *Start:* the platform starts an instance that is down, and a
program that is not waiting goes on (`WF` on `Restart` and `Step`); kills are finite by
`KillLimit`.

**Mutants.** Every property of a passing run is broken by a definition marked "Faulty on
purpose", each a mistake one could make in the mapped code: a status that is not compared, an
index that is missing, an address that is not normalised, a read of one byte too few, an
attribute that falls out of the denominator.

## 4. Properties worth reading first

* `StaleWritesContained`: which moves stale commits can cause at all. A request never becomes
  pending again, a pending one is only ever answered, and a verified one stays verified; among
  `responded`, `confirmed` and `closed` a stale commit can move it any way.
* `ActiveBound`: `create_request` does not keep its promise of one active request, but what it
  leaves is bounded by the number of sessions, through reopened requests too.
* `VerifiedIffVerification`: status and row never part, whichever commits come last.
* `ImplementsContract` and `ColumnsAreAtomic`: the detailed handlers against what they promise.
* `OrphansAreFailures`: the disagreement of bucket and database that ADR-0005 accepts, and no
  other.
* `ScoreIsMonotone`: claiming more never costs an event its rank, whichever way halves round.
* `MissesExplained`: offset paging over a table that only grows shows rows twice, but loses one
  only if the ranking profile changed between pages or the client trusted a stale total. A client
  that reads on until a page is short loses nothing. `PagesExplained` is the list of requests,
  where rows also leave the filter: each one that leaves moves those behind it one place forward
  and so hides at most one from the next page. Apart from that a request is missed only if two
  rows of the list have equal times (`ORDER BY created_at` alone) or the client trusted a stale
  total, and seen twice only if another joined the list or, again, among ties.
* `FiguresAddUp`: the pending count and the recent requests of a dashboard disagree exactly by
  what happened between their statements; it holds because nothing becomes pending again.
* `StandstillNeedsLoad`: threads that wait for connections and connections that wait for threads
  do block each other here, but never with fewer calls in flight than both pools have places.
* `TurnedAwayUnderLoad`: a call is turned away only while as many others are in flight as there
  are connections, so no call that has ended keeps one. An error of create, respond or confirm
  for want of a connection means that nothing happened. Publishing an event, uploading media,
  putting needs, verifying and registering refresh a row after their commit, on a second
  connection, and may report an error for what they have done.
* `WaitersHoldNothing`: seeds that overlap meet at the first table, and the one that waits holds
  no key yet, so no two wait for each other. The order of the code is what does it.
* `StoppedAtMostTwice`, `AllServe`: without a lock or a retry in `start.sh`, restarting is
  enough, and soon so.

## 5. Where code and documentation disagree

| Run | The code | The documentation |
|---|---|---|
| NeverVerified | an event's status never changes, so a request made through the API is never verified | `docs/architecture.md:100`: attendee verifies after event ends |

Other sentences of the documentation hold for one session at a time and not for two. They follow
from what the passing runs and the theorems say, and changing one constant of a run shows each:

* Two overlapping `create_request` calls both insert (`docs/architecture.md:106`: only one active
  request per attendee-per-event). Serial with `Workers = {w1, w2}` violates `OneActiveRequest`;
  `ActiveBound` is what remains.
* Of two overlapping answers the later commit replaces the earlier (`docs/architecture.md:83`:
  never overwritten after the fact), and a stale confirmation can reopen a rejected request
  (`docs/flows.md`: no confirmation step follows a rejection). Serial with two workers violates
  `ImplementsContract`; `StaleWritesContained` and `RowsCoherent` are what remains.
* Of two overlapping verifications one ends in an unhandled `IntegrityError`, the reply
  `conflict` of `VerifyCommit` (`docs/flows.md:133`: fails with 409 `ALREADY_VERIFIED`). Nothing
  is written wrongly: `VerifiedIffVerification`. Two registrations of one address end alike.
* Two overlapping PUTs that change different columns leave a mix of both
  (`users/service.py:40`: atomically replaces all seven profile values). `ReplacesAtomically`
  holds of one worker (SerialReplacesAtomically); `ColumnsAreAtomic` is what remains.

## 6. Proofs

Every safety property that a run checks is a theorem: for any number of users, events, requests,
columns, facilities, instances and workers, under the assumptions named in the modules that
declare the constants. Where the table says so a theorem assumes more: one worker, for what the
handlers promise one session at a time, or at most eleven facilities. The assumptions on
constants are few, and the runs evaluate all of them:

* `ConstantsAssumption`, `WorkersAssumption`: finitely many requests and workers, at least one
  worker, the seed's rows among the constants.
* `ProfileAssumption`, `PoolAssumption`, `CatalogAssumption`, `ReadsAssumption`, `StartupAssumption`:
  finite sets of calls, events, requests and instances; pools of at least one place, pages of at
  least one row, start times that are numbers, the seeded event completed.
* `MatchAssumption`: facilities are distinct, and none is the walk.
* `RegistrationAssumption`: normalising an address twice changes nothing more (`strip` and
  `lower`), the two demo users are different.
* `MediaAssumption`: every event has an owner, sizes are numbers.
* `ViewsAssumption`: a list asks for at least one row; a dashboard is an attendee's and counts what
  is pending.
* `NilAssumption` and its like: `Nil` is not data.

| Theorem | Module | Property | Argument |
|---|---|---|---|
| TypeCorrect, VerificationsMatchStatus, RowsStayCoherent, ApiRequestsNeverVerified, VerifiedEventsAreOver, StaleWritesAreContained | RequestServiceProofs | TypeOK, VerifiedIffVerification, RowsCoherent, OnlySeedVerified, VerificationAfterEnd, StaleWritesContained | one inductive invariant, `IInv` |
| ActiveRequestsBounded | RequestServiceProofs | ActiveBound | counting, `BInv` |
| SerialImplementsContract | RequestServiceProofs | ImplementsContract | step simulation, assuming one worker |
| ContractOneActive, ContractRejectionFinal, ContractPromiseFrozen, ContractFollowsDiagram | RequestServiceProofs | four promises of the documentation, of the contract itself | `CInv` |
| SerialOneActive, SerialKeepsPromises | RequestServiceProofs | OneActiveRequest, and the other three promises, of the service | the simulation and the promises, assuming one worker |
| ProfileTypeCorrect, ColumnsAreAtomicRegisters, SerialReplacesAtomically | NeedProfileProofs | TypeOK, ColumnsAreAtomic, ReplacesAtomically | step simulation, the last assuming one worker |
| AccountTypes, MailboxesHaveOneAccount, OrganizersAreWhole, TokensAreHonest, AccountsStay | RegistrationProofs | TypeOK, OneAccountPerMailbox, OrganizersHaveProfiles, TokenHolderCanLogin, `[][AccountStays]_vars` | the unique index, `RInv` |
| UploadTypes, LinksAreAlive, PhotosAreWhole, OrphansAreExplained, UploadsStay | MediaUploadProofs | TypeOK, NoDeadLinks, StoredWhole, OrphansAreFailures, `[][WrittenOnce]_vars` | who owns a path, `MInv` |
| ScoresArePercentages, BetterClaimsNeverScoreLower | MatchScoreProofs | TypeOK, ScoreIsMonotone | loop invariant, `ScoreInductive` |
| LoopIsFormula | MatchScoreProofs | ImplementsFormula | loop invariant, `Summed` |
| RoundingIsHonest | MatchScoreProofs | ExtremesAreHonest | loop invariant, `Extremes`, assuming at most eleven facilities |
| CatalogTypes, PublishedWhole, MissesAreExplained, QuietPages | EventCatalogProofs | TypeOK, EventsAreWhole, MissesExplained, QuietPagesAreTheList | ranks only grow, `CatalogInductive` |
| ReadsTypes, PagesAreExplained, FiguresMatch, QuietDashboards, DashboardsAnswer | RequestReadsProofs | TypeOK, PagesExplained, FiguresAddUp, QuietDashboardIsOnePicture, DashboardAnswers | ranks and the set that was counted, `ReadsInductive` |
| PoolTypes, TurnedAwayByOthers, StandstillTakesLoad | PlatformProofs | PoolTypeOK, TurnedAwayUnderLoad, StandstillNeedsLoad | where every call is, `PoolInductive` |
| StartTypes, ServersAreWhole, WaitersAreFree, StopsAreFew, StartsKeepChanges | PlatformProofs | TypeOK, ServesOnlyWhole, WaitersHoldNothing, StoppedAtMostTwice, NeverOverwrites | what each program counter knows of schema and rows, `StartInv` |

*`IInv`.* A commit writes on the strength of an older read, so none of the safety properties
is inductive alone: the proof must say what is still true of a row when the commit comes.
`InFlight` says it per step (a row about to be answered exists and is not verified; a row
about to be confirmed has been answered and is not verified; only the seeded request can be
about to be verified). It holds because rows made through the API belong to upcoming events
(`ApiRows`), because the seeded row stays confirmed or verified (`SeedRow`), and because no
row becomes pending again (`RowsCoherent`).

*`BInv`.* For one attendee and event, the requests that are active or that a call in flight
can still reopen, plus the creations past their check, are no more than the workers. Passing
the check needs an empty set of active requests; what is left of the first count is then held
by calls in flight, on other workers than the creations.

*Simulations.* With one worker nothing commits between a load and its commit, so the guard
decided at load still holds (`SInv`) and the commit is the contract's step; every other step
is a stutter. A column of a profile takes a PUT's value when the UPDATE commits, or, if the
row already had that value, when it was read.

*The promises.* The service with one worker is a behaviour of the contract, and the promises
speak of the shared tables only, so the theorems about the contract are theorems about the
service (SerialOneActive, SerialKeepsPromises). SerialReplacesAtomically is the same for the
profile as a whole.

*`RInv`.* What `register_user` read before its commit may be out of date by then, so the check
carries no part of the argument. What the table keeps is what the unique index on `users.email`
makes it keep (`UniqueEmails`), and it is the normalised address that is stored, so one address
per row is one account per mailbox. An account that has an address is never written again,
which is why a token, once given, stays good for the password it was given for.

*`MInv`.* No two calls in flight hold the same path (`PathsApart`), and a path is new when it is
given, so nobody else touches the object or the row of a call in flight: before the row is
inserted there is none, and the object is there exactly from the storage's answer on
(`InFlight`). An object without a row therefore belongs to a call in flight or to one that
failed after storing.

*`ScoreInductive`.* The loop's own induction: after `i` attributes the better claim's sum is
not behind, and equal sums mean equal terms so far; the sum is at most twice the total.
Rounding keeps the order of different exact values, half-way ones included, and equal terms
round alike.

*`Summed`.* The documented formula is one sum over a set of attributes, the code a loop over a
list. The two meet in `SumStep`: the sum over a set is any member's part plus the sum over the
rest. The library's induction theorems cannot be used (they take an operator as a parameter),
so `SumExists` and `SumStep` look at a smallest counterexample, by cardinality and by inclusion.
After `i` iterations the running sums are those of the formula over the attributes visited, and
after the last one every attribute has been visited, once (`AttributeOrder`).

*`Extremes`.* The running sum is twice the total exactly if every attribute so far is claimed in
full, and zero exactly if none is. A score of 100 with something missing would need a total of
100 quarters or more, of which eight are the most an attribute weighs: with up to eleven
facilities and the walk that cannot be. The code has six.

*`CatalogInductive`.* Rows are published and never withdrawn, and each order is total, so the
rank of a row only grows (`RankGrows`): a row that was before the offset and is not shown yet
cannot exist while one order ranks all pages (`NotSkipped`). A page with fewer rows than its
limit is the last one (`ShortPageIsLast`, from `FewLowRanks`: the ranks below a number are taken
by at most that many rows), and so is one that reaches a total counted over the same rows
(`LastIsLast`). If nothing came in between, each page is cut from the same order and the pages do
not overlap (`ShownSoFar`).

*`ReadsInductive`.* The same idea with rows that come and go. While nothing leaves the filter
ranks only grow, so what is still to be shown stays behind the offset (`NotSkipped`); while
nothing joins they only fall, so what was shown stays in front of it (`NotRepeated`); and every
change of the filter's rows is in the histories (`Recorded`). When rows do leave, and leave for
good, each lowers the ranks behind it by one, and without ties no two rows have the same rank
(`RanksDiffer`), so at most one row gets past the offset unseen (`OneMoreMissed`), and those
missed are never more than those that left (`FewMissed`). For the dashboard the set that was
counted is compared with the set that matches now: their difference is what joined and what
left, and what left is never pending again, so the two figures differ by as much (`Figures`).

*`PoolInductive`.* Where every call is: a call in flight that is not closing is on a thread or
once in the queue, never both (`QueueOnce`, `SomewhereElse`); a connection belongs to a call in
flight (`HeldInFlight`); an answer that is committed has been given (`AnswerGiven`). Only
the pool's timeout turns a call away (`OnlyTimeouts`), and it comes while every connection is
another's. At a standstill every call on a thread waits for a connection, so the holders are in the queue; the
two sets are disjoint and full, and their sizes add up to the load.

*`StartInv`.* What an instance knows at each program counter (`Local`): whoever seeds or serves
has seen the last revision, and the schema never goes back; who is about to upgrade has read a
schema that is still the same or is already the last. One instance upgrades at a time
(`OneUpgrade`), no two hold the same key uncommitted (`KeysLocked`), and an uncommitted seed holds
exactly the tables before the one it is at. So all that hold anything hold the first table, which
only one can, and one that waits for it holds nothing. An instance stops at most once for losing
the upgrade, after which the schema is the last, and at most once for losing a key it was about to
insert, after which all rows are there (`Stops`).

Only model-checked: liveness (`Settles`, `OverIsVerified`, `EndedIsVerified`, `Answered`,
`AllServe`), which rests on fairness and is beyond the prover; the finding of section 5, which is
a liveness property; and what the bounds of the runs add to the theorems, that the states the
properties speak of do occur (the mutants show that as well).

## 7. Not modelled

*Organizer reliability* (`modules/organizers`). Its window of the 20 newest verifications is
hard only when there are several: at most one verification can ever exist (`OnlySeedVerified`,
theorem ApiRequestsNeverVerified), so neither the limit nor the order by `submitted_at` ever
matters, and what is left is the average of seven values. Should the finding of section 5 be
mended, this becomes the next module: verifications whose `submitted_at` order differs from their
commit order, and a window smaller than their number.

Token signatures and expiry, password hashing, validation of parameters, CORS and routing are
library code without state of this program. Downgrades of the schema are run by nobody. The
open-data import (BE-007) is documented and does not exist.

## 8. Plan

Done, in this order: request lifecycle and verification; need profiles; accounts; media; match
score; events and their list; the request list and the dashboard; threads and connections;
migrations, seed and start; proofs of all safety properties.

What is left, in order of weight:

1. What a service with several workers still guarantees of the contract, as a refinement: a
   contract whose steps are the stale writes too (`StaleWritesContained` is its step relation,
   `ActiveBound` its bound).
2. The safety half of the liveness properties: that whatever is enabled stays enabled until it is
   done (a call at a step keeps that step until it takes it), from which only fairness remains.
3. `Reliability`, once more than one verification can exist (section 7).
