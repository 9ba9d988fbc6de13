# A formal model of the OlympiadNext backend

OlympiadNext is a Go HTTP service in front of PostgreSQL that runs an academic
olympiad: students sign up, prove an email address, hand in an identity
document, pay for an event by a mobile transaction id, get an admit card and sit
a sequence of timed rounds; admins review, schedule and decide. This directory
holds TLA+ models of the parts that carry that logic, TLC configurations that
check them on small instances, and TLAPS proofs of the safety properties for
all instances.

Contents: [how the program runs](#how-the-program-runs) ·
[inventory](#inventory) · [modules and code](#modules-and-code) ·
[runs](#runs) · [fairness](#fairness) · [proofs](#proofs) ·
[disagreements found](#disagreements-found) ·
[not modelled](#not-modelled) · [plan](#plan)

## How the program runs

Every request is a goroutine. Handlers (`internal/http/handler`) validate, call a
service (`internal/auth`, `internal/app/*`) and through it repositories
(`internal/repository/postgres`). Nearly every repository method is one SQL
statement outside any transaction: the statement is atomic, and between two
statements of a request anything may happen. The exceptions are
`RoundRepository.UpsertParticipants` and the migrations, which open a
transaction. There are no queues, no lock but that of the rate limiter's map, and no background
workers except the detached goroutine of `upsertDeviceAsync` and the rate limiter's janitor.
`main.go` stops the process after a graceful shutdown of ten seconds; a crash can
come at any time. What makes the code hard is therefore always the same: a
decision is taken on a row that was read by an earlier statement, and only
conditional updates, unique constraints and re-reads stand between that and a
corrupted table.

All modules share one form because of it. A request is a record with a
*phase*; each action is one SQL statement or one call to storage, with the
guards of the code around it; requests of any number of callers interleave; and
an `Abort` (or, in `Sessions`, a failing statement, a lost reply or a crash)
may end a request after any statement, with everything it did kept.

## Inventory

| Component | State | Operations | Hard behaviour | What makes it correct |
|---|---|---|---|---|
| Sessions (`internal/auth`, `refresh_token_repository.go`, `cookie.go`) | `refresh_tokens`, `users.active_device_fingerprint`, `user_devices`, the browser's cookie | Login, AdminLogin, GoogleLogin, Refresh, Logout | racing refreshes, crash between revoke and insert, lost replies, a goroutine nobody awaits | one usable token per login; closed is final; reuse ends the sessions; cookies are persisted |
| Accounts (`internal/auth`, `user_handler.go`, `admin_handler.go`, `user_repository.go`) | one row of `users` | Register, VerifyEmailOTP, ResendEmailOTP, authenticatePassword, GoogleLogin, SubmitProfile, VerifyUser | check-then-mark, Google overwriting a mark, edits racing reviews | verified addresses were proved; decisions stand for what was reviewed |
| Registrations (`internal/app/registrations`, `registration_handler.go`) | `exam_registrations`, `uploads/admit-cards` | Register, Review, Unreject, UploadAdmitCard | duplicate submissions, two reviewers, stale checks, partial failure | one per student and per payment; approval final; cards only for approved |
| Rounds (`internal/app/rounds`) | `rounds`, `round_participants` | Create/Update/Delete/Start/EndRound, SetParticipants, EnterRound, YourStatus, GetCandidates | check-then-write, deletes under way, a gate made of five reads | one final per level, decisions only after the end, ranks unique, entry in order |
| Notify (`internal/app/notify`) | notification columns of `users` | SetPreference, VerifyPhoneOTP, ResendPhoneOTP, NotifyAdmitCardReady | check-then-mark, resend of an older number | only proved numbers are verified and texted |
| Prizes (`internal/app/prizes`) | `prizes` | Create, Update, Delete | check-then-write without a constraint | ranges of a level do not overlap |
| Events, notices, important dates | one table each | create, update, (delete) | nothing relates two rows, except "one active event" | – |
| Access gate and roles (`internal/http/middleware`, `internal/auth/jwt`) | access tokens in the hands of devices; reads `users.active_device_fingerprint` and `users.role` | GenerateAccessToken, RequireAccessToken, RequireAdmin, serveProtectedFile | three checks that are three reads; a login elsewhere, a demotion or a logout between them; tokens that are stored nowhere | whoever is served was entitled to it while the call was under way; a closed session's tokens fade within their life |
| Rate limiter (`ratelimit.go`) | a map of buckets in the memory of each process | getLimiter, Allow, janitor | the janitor between a request's lookup and its token; buckets dropped though emptied | dropping buckets changes nothing for a client |
| Migrations (`internal/platform/db`) | the schema, `schema_migrations` | Migrate | instances that boot together, of two releases; a crash or an unheard commit | each file takes effect once and in order; nobody serves without its files; every start succeeds in the end |
| Process (`main.go`) | – | start, serve, stop | | – |
| Storage, email, SMS, config, dto, origin and CORS checks | files, outside services | | pure I/O, or stateless | – |

Interactions: `Sessions` starts from an account `Accounts` admitted
(`issueSessionAfterAuth`); the exam gate of `Rounds` reads the level and
verification status that `Accounts` writes and the approval `Registrations`
writes (`Journey` composes the three); the access tokens of `Access` come out of
the logins and rotations of `Sessions`, through their common abstraction
`SessionLifecycle`; a process migrates the schema before it serves, and its rate
limiters live and die with it (`Instances`); the admit-card upload of `Registrations`
calls `Notify`; `Registrations` reads `events.is_active`. The hazards of each, with their lines, are listed under
`hazards` in `PROJECT.json`.

## Modules and code

The `map` of `PROJECT.json` gives the lines of every definition. Mutant
definitions (`Mutant of ...`) stand next to the definition they spoil: each is a
plausible bug that the property it is paired with must catch.

**`Sessions`** – `rows` is `refresh_tokens`, `activeDevice` and `devices` the
single-device columns, `jar` the cookie of each browser, `req` the requests,
`upserts` the detached goroutines. A row carries two history fields, the login
its chain of rotations began with and the device of that login. `FindForRefresh`,
`RevokeForRefresh`, `RevokeAllForUser` and `IssueToken` are the statements of
`Service.Refresh`; the guard `revoked_at IS NULL` of the update is the number of
rows `RevokeForRefresh` looks at. `FailStatement`, `LoseReply` and `Crash` are
enabled by the constant `Faults`. Devices are honest: a browser sends the cookie it
holds when it sends. A `Device` stands for a browser together with a console,
since the student and the admin site have cookies of their own.
`ErrDuplicateTokenHash` does not occur: `newJTI` draws a random id for each
token, so that no two hashes agree (the comments in `domain/token/errors.go` and
in `Service.Refresh` that tokens have no random component describe an earlier
version).

**`SessionLifecycle`** – the promise: a login goes from none to live, back and
forth between live and rotating, and to closed for good. `SessionsRefinement`
reads the state of a login off the table and the requests (`LoginState`) and states
`ImplementsLifecycle`.

**`Registrations`** – `regs` is `exam_registrations` with its two UNIQUE
constraints (`Conflicts`) and the status defaulted by the table (`NewRow`), `files`
the stored cards, `notified` the registrations whose student was told. `Unreject`
is two statements (the check of `Service.Unreject`, the guarded update),
`UploadAdmitCard` four: check, save the file, attach, notify.

**`Enrolment`** – the promise seat by seat (student and event): submit once with
an unused payment, decide, reopen only a rejection, card only when approved.
`ImplementsEnrolment` in `Registrations` maps rows to seats; it says among other
things that approval is final and that no payment is ever used twice.

**`Rounds`** – the rounds of one event (events share nothing here).
`checkNoOtherFinal` and the insert or update are separate statements, with the
two unique indexes as `Conflicts`. `Record` is the transaction of
`UpsertParticipants`: `After` gives the table after the first `k` upserts,
`Accepted` checks the rank index after each of them, as PostgreSQL does.
`EnterRound` is spread over `LoadForEnter`, `CheckUser`, `RecheckUser`,
`CheckRegistration`, `FindPrevious` and `CheckDecision`, each a read of its own
compared with the copy of the round read first (`seen`). `student` is what the
gate reads of other components; `StudentChanges` lets it change at will, but
for an approval, which `Registrations` shows to be final. `YourStatus` and
`MayEnter` are the views, evaluated at one instant.

**`Notify`** – `row` holds the notification columns; `alert` the alerts under way
on behalf of an admin; `issued` and `submitted` are history that gives `Proved`
its meaning: a code issued for that very number came back. `replaced` is history too: the
students whose number was replaced after a code was checked and before its mark
(`CheckedOther`).

**`Accounts`** – `row` is `users`; requests for sign-up, codes and sign-in are in
`req`, profile submissions in `sub`. `issued`, `submitted`, `vouched` and
`reviewed` are history, and so is `overtaken`: the accounts whose details one submission
changed after another, without a document, had passed its check (`Overtakes`). One address has at most one Google account. `VerifyUser`
is one unconditional update, and the admin is taken to decide on the row as it
then is.

**`Prizes`** – tiers of several events; the event and the tier of an update come
independently from the path. `careless` is history: it records that two requests
were in flight at once or that an update named a tier by another event.

**`Journey`** – extends `Registrations` and takes instances of `Accounts` and `Rounds`
over the same students. The variable `student` of `Rounds` becomes `AsRead`, what
`isEligibleForRound` selects from `users` and `exam_registrations`, so that the
actions of the other two take the place of `StudentChanges`; that they are no more
than it allows is `ImplementsRounds`. All of `Registrations` and of `Rounds` is composed,
of `Accounts` the submissions and the reviews; sign-up is over. `RoundCall` bounds the
requests about rounds that arrive. `vetted` is history: the levels an admin has verified a
student for.

**`Access`** – `bearer` is the access token a device holds, with an age in place of
`exp`; `state` the life cycle of each login, moved by the actions of `SessionLifecycle`;
`active` and `admins` the two columns of `users` the gate reads. A login or a refresh
runs through *sign*, *store*, *bind* and *reply*, a call through *token*, *device* and
*role* to *serve*, according to its route: a student's route stops after the device, an
admin's goes on to the role, and a protected file skips the device and looks at the role
only of somebody who is not the owner. `closedFor` and `since` are history: how long a
login has been closed, and which of the facts the gate asks for have held since a call
arrived.

**`Migrations`** – `recorded` is `schema_migrations`, `applied` counts how often each
file took effect, `boot` where each process is in `Migrate`. A file and its record
commit together (`TakesEffect`). What another instance has committed since the check
may or may not make the file's statements fail (many are `IF NOT EXISTS`, some are
not); the `INSERT` waits for the other transaction and fails on its key. `CREATE TABLE
IF NOT EXISTS` can fail when two instances run it on an empty database; that failure
is one of the `Fault`s. Files are numbered here in the order `Migrate` takes them, that of
their names (two of them begin with 0011), and releases carry a prefix of them: that a new
release only adds files behind the old ones is an assumption, which nothing in the code
enforces. Without it a file could be applied after one that follows it.

**`RateLimit`**, **`TokenBucket`** – the map of one limiter per process, and the promise:
a bucket per client. The router makes four limiters for four groups of routes
(`router.go` 54, 91, 114, 140), closures that share no variable; the module is any one of
them. A tick is short against `staleAfter`, and may come between a request's `getLimiter`
and its `Allow`, `MaxHold` times at most (in the code they are one expression); the bucket
of `golang.org/x/time` is external and gains `Refill` tokens a tick.

**`Instances`** – processes with the state of both: a process that exits takes its
limiters and the requests in them along; limited routes answer once it serves.

## Runs

| Run | Instance | Shows |
|---|---|---|
| `sessions` | 1 account, 2 devices, 2 requests, 3 tokens, faults | rotation is exclusive, the gate and the cookies are backed by rows, and the life cycle is implemented |
| `sessions_live` | 1 device, 2 requests, 3 tokens, no faults, fair | a detected reuse ends the sessions; the device row is written |
| `sessions_race` | same, safety only | **violated**: an honest race runs the theft response |
| `registrations` | 2 students, 2 admins, 2 transaction ids, 2 rows, 2 files, 3 requests | table invariants and refinement |
| `rounds_admin` | 3 rounds, 2 students each with 2 profiles, lists in which one takes the first place from the other, a clock of two instants, 2 requests | one sequence and final per level, decisions only after the end, ranks unique, entry in order, list and gate agree |
| `journey` | 2 rounds of one level, 1 student, 2 levels and details, 1 admin, 2 submissions, one slot each for desk and gate, a clock of two instants | entrants were vetted, and the composition implements `Rounds` |
| `rounds_winner` | 3 rounds | **violated**: a winner in a round that is no longer final |
| `notify` | 2 numbers, 2 codes, 2 requests, 1 alert | only proved numbers are verified and texted, unless a number was replaced between check and mark |
| `accounts` | 1 account, 2 codes, details and documents, 2 requests and 2 submissions, two of them in flight | addresses are proved, decisions match documents, verified details were reviewed unless one submission overtook another |
| `prizes` | 2 events, 4 ranges, 3 ids, 2 requests | tiers stay apart unless careless |
| `access` | 1 account, 2 devices, 2 logins, tokens that live 3 ticks, 1 call beside 1 login or refresh | the served were entitled, the tokens of closed sessions fade |
| `instances` | 3 processes of 2 releases, 2 files, 2 faults, 1 client, 2 requests, buckets of 2 | migrations take effect once and in order, serving waits for them, starting succeeds, pruning is invisible |

Bounds. Two requests are enough for every race between a statement and a
conflicting one, three are used where a review, a reversal and an upload meet.
Three tokens allow a login, its rotation and a second login or rotation, which
is what a theft response has to sweep. Three rounds give a first round, the one
after it and a competitor for its place. Two codes, numbers, documents and details
make "the other one" possible. `Token` bounds logins and rotations (`Room`),
`RegId`, `File`, `RoundId` and `PrizeId` the rows and files; `MaxTime` and
`MaxRank` the clock and the ranks, `MaxFaults` the failures of `Migrations` that have no
cause in the model. In `journey` one request about
rounds is in flight at a time, beside the starts and ends, since races among several are
what `rounds_admin` is about, and either two submissions or one desk request beside it
(`DeskApart`). `RoundCall` leaves edits, deletions and finals of rounds to `rounds_admin`,
the empty `File` and `NoCards` leave cards and closed events to `registrations`. The other
parts of its action constraint: what arrives takes its first step at once, which loses
nothing (`Prompt`); of two submissions in flight one has a document (`OneWithout`), since
two alike race in `accounts`; profiles are verified or left alone, since to the gate a
rejected profile is like one with a new document (`NoRejection`); the second round is made
when the first is over (`InTurn`). In `accounts` `MaxInFlight` lets two of the requests and
submissions overlap; sign-up and profiles share nothing but the existence of the row. In
`access` the second login is the login elsewhere, and with a life of three ticks a
token can age during its exchange, its delivery and the closing of its session. Three
processes make two of a new release race beside one of the old. None of these bounds
appears in the theorems: they hold for every value (`RateAssumption` asks that a
bucket fills up before it is dropped, even if it was asked `MaxHold` ticks late, which 10
tokens at 30 a minute and 20 at 60 do in 20 seconds, against 15 minutes). The runs check deadlock: in all of them a request
or the environment can always go on. `journey` has a `VIEW` that leaves out the history
`reviewed` of `Accounts`, which nothing in it reads.

Symmetry is used only over sets whose members no definition tells apart and never
in the run with liveness properties.

## Fairness

Two runs assume any. `sessions_live`: weak fairness of the statements of each request
and of each detached goroutine. The Go scheduler runs every runnable goroutine,
statements return because every context has a deadline or ends with the
connection, and no statement of this component waits for another request. Nobody
is obliged to send a request and time need not pass. The run has
`Faults = FALSE`: `upsertDeviceAsync` and `RevokeAllForUser` are best effort
(their errors are logged), and a graceful shutdown does not wait for the former,
so neither property would hold otherwise.

`instances` assumes weak fairness of each process's way through `main` and `Migrate`,
starting again after an exit included: the code exits with status 1 so that the platform
restarts it. It is not assumed that requests come, that the janitor does, that time
passes or that anything fails or is stopped. `StartedServes` is not obvious although
every step is fair: a process fails because another has got a file further, and has to
start over. A limit on the faults is part of it; without one the database could fail
for ever.

## Proofs

Each `*Proofs` module proves its component's properties for any constants that
satisfy the named assumptions (that `None` is not a member of the sets, that
bounds are natural numbers, that inputs have passed the validation of the
code). The argument has one shape: `IInv` (`Base` in `SessionsProofs`) joins the type
invariant, the properties, and *coherence*, a statement of what each request in
flight may still rely on in each phase although it let go of the database. Then
`Init => IInv`, `IInv /\ [Next]_vars => IInv'` with one lemma per conjunct and one
step per action, and the theorem follows by temporal logic.

| Module | Theorems | The strengthening, and why it is needed |
|---|---|---|
| `SessionsProofs` | `TypeCorrect`, `CookiesAreStored`, `GateBelongsToLogin`, `RotationExclusive`, `LifecycleImplemented` | a refresh in flight presents a stored token of its own device; rows are never removed (`RowsKept`). Exclusion is proved by three kinds of steps: those that only shrink the set of usable tokens, those that start a rotation, the insert that ends one |
| `JourneyProofs`, of `Registrations` | `TypeCorrect`, `RegistrationsUnique`, `DecisionsAnsweredFor`, `CardsSound`, `NotificationsSound`, `ApprovalsAreFinal`, `EnrolmentImplemented` | an upload that passed its check still finds the row approved, since approval is never undone: this is what the guard of `Unreject` buys |
| `JourneyProofs`, of `Journey` | `RoundsImplemented`, `RegistrationsWithin`, `RoundsWithin`, `EntrantsAreRegistered`, `EntrantsAreVetted` | see below |
| `RoundsProofs` | `TypeCorrect`, `SequencesStaySound`, `DecidedAfterEnd`, `RanksStaySound`, `GateInOrder`, `ListAgreesWithGate`, `StatusesMoveForward`; with `FinalStays`: `WinnersWhileFinalsStay` | statuses only move forward and ids are not reused (`Forward`), so a round seen ended is ended or deleted when decisions are written, and a round seen ongoing was started |
| `NotifyProofs` | `TypeCorrect`, `CodesAreUsedUp`, `NumbersAreProved`, `AlertsGoToProvedNumbers` | an outstanding code was issued for the number on file; a number whose code was found right has been proved when it is marked, or its student is in `replaced` |
| `AccountsProofs` | `TypeCorrect`, `EmailsAreProved`, `AdmissionNeedsProof`, `DecisionsFollowDocuments`, `OnboardingNeedsDocument`, `VerifiedWasReviewed` | a request about to mark an address has a proof on record; a claim of Google is recorded; a submission without document is for an account that has one, and brings its details, or the account is in `overtaken` |
| `PrizesProofs` | `TypeCorrect`, `TiersStayApart` | while nobody was careless, the one request in flight that has passed the check still collides with nothing |
| `AccessProofs` | `AccessTypeOK`, `ServedInGoodStandingHolds`, `ClosedSessionFadesHolds` | what the gate would find right now for a call under way is noted in `since`, whatever the columns said before or say later; a token of a closed login, held or on its way, is at least as old as the closing, for which nothing may be signed for a login but by the one exchange that opens or rotates it |
| `InstancesProofs` | `InstancesTypeOK`, `AppliedOnceInOrderHolds`, `ServesMigratedHolds`, `PruningInvisibleHolds` | a process has passed only recorded files, and one about to commit alone holds the key of an unrecorded one; a bucket has been refilled for as long as its client has not been seen, so that it is full when it may be dropped, but for the lag of a late `Allow`, and the entry of a request between `getLimiter` and `Allow` is younger than that lag |

Four properties hold of the code with an exception, which is part of their statement and
recorded by a history variable: `replaced` for `VerifiedNumberProved` and
`AlertsToProvedNumbers`, `overtaken` for `VerifiedAsReviewed` and `EntrantVetted`. Each is
one step of one request at one place of another, and the theorems say that nothing else
goes wrong: requests and submissions of a student overlap at will, and a student leaves
the theorems only when that very step has been taken. The proofs turn on it: what a request
read is still so when it writes, or the step that changed it put the student in the set.

The proofs about the composition rest on those about its parts. `JourneyProofs` takes
instances of `AccountsProofs` and `RoundsProofs`, shows that a step of the whole is, seen
from each part, a step of that part or a stutter (`RegistrationSteps`, `AccountSteps`,
`NextImplementsRounds` with `RoundStep`), and cites their lemmas with the whole's
constants and variables in place. For `ImplementsRounds` two facts about the parts
matter: a profile submission, a review and a step of `Registrations` each write one row
at most (`OneRowWritten`), so that one student changes at a time, and approval is final
(`Kept`). For `EntrantVetted` the strengthening is `VettedInv`: the status on file is one
an admin gave with the level on file (`StatusVetted`), which a submission without document
keeps only because the details it was compared with are still there, or the student is in
`overtaken`; from the moment
`CheckUser` lets a request pass, its student and the level it read are in `vetted`.
`EntrantRegistered`, stated in `JourneyProofs`, is the same for the payment: a first round
is entered with an approved registration only, and not one that was approved when the gate
looked and is not any more.

`WinnersWhileFinalsStay` is the positive half of a disagreement below: `WinnersOfFinals`
fails only by an edit that takes the final mark from a round that is over (`FinalStays`
excludes it); creations, other edits, deletions and races between lists cannot break it,
since a list that was valid for a round stays so (`StillValid`).

Only model-checked: the liveness properties `TheftEndsSessions`,
`DeviceEventuallyRecorded` and `StartedServes` (liveness under fairness is out of the
prover's reach), and the violations. Every invariant, action property and refinement
of a passing run is a theorem. The provers' verdict covers every obligation down to
the leaves.

## Disagreements found

Two properties state what a comment or a test of the repository says, and the code does
otherwise (`findings` in `PROJECT.json`):

1. `NoTheftResponseToBenignRace` – two tabs that refresh at once make the loser of
   the conditional update revoke all sessions of the account, the winner's included.
2. `WinnersOfFinals` – `SetParticipants` checks the final mark and writes later; an
   update in between removes the mark. `WinnersWhileFinalsStay` proves that there is
   no other way.

Behaviour that a property excepts or no run checks, because the code has no
defence:

* "`notification_phone_verified` - true once that number passed OTP check" (migration
  0016): `VerifyPhoneOTP` marks the number on file when the mark is written
  (`service.go:115`), not the one whose code was checked. If a `SetPreference` for another
  number, or a resend that had read an older one, is written in between, a number nobody
  proved counts as verified, and alerts are texted to it. Happens in `notify`, whose
  `VerifiedNumberProved` excepts exactly the students in `replaced`; without the exception
  it is violated.
* The candidates `GetCandidates` lists for a first round are all approved registrations
  of the event, whatever the student's level (`service.go:425`), although its comment
  speaks of eligible students. The gate keeps the others out, which `EntrantVetted` checks.
* The comment of `SubmitProfile` on "identity details an admin never actually reviewed"
  (`user_handler.go:141-143`): one submission without document and with unchanged details
  passes the check; the other changes the details with a document, and an admin verifies
  it; then the first is saved, puts the old details back and keeps the status. Happens in
  `accounts` and `journey`, whose `VerifiedAsReviewed` and `EntrantVetted` except exactly
  the students in `overtaken`; without the exception both are violated.
* `NoOverlap` of `Prizes` fails when two requests overlap, and also one at a time:
  `PUT` of a tier under the path of another event is checked against that
  event's tiers and written to the tier's own event. `TidyUnlessCareless` is what
  remains.
* Exchanging the ranks of two winners in one request collides with the unique index
  half-way and is answered as a duplicate (`rankTaken`), although a comment in
  `domain/round/errors.go` expects that only from a race. No state is spoiled.
* A crash between revoking a token and storing the next closes the login: the
  browser still holds the spent cookie, and its next refresh is taken for theft.

## Not modelled

Handlers that only read; the contents of rows that no decision depends on (names,
texts, images); JSON and form parsing, size limits and file sniffing; the signature of an
access token (an honest device sends the one it got); the origin and CORS checks,
which are functions of the request; `RequireCompleteProfile`, which is mounted on no
route; the arithmetic of the token buckets below a tick; notices, important dates
and the contents of events, which are independent rows written by single statements;
delivery of mail and SMS. Dropped writes of the database itself are not
considered: a statement either fails without effect or takes effect. (A statement
whose effect is committed while its reply is lost is covered where requests may
abort right after it, and by `CommitUnheard` in `Migrations`.)

## Plan

The order follows what would hurt most if wrong. Done: `Sessions` with
`SessionLifecycle`, `Registrations` with `Enrolment`, `Rounds`, `Notify`,
`Accounts`, `Prizes`, `Access`, `Migrations` and `RateLimit` with `TokenBucket` in
`Instances`, `Journey`, and the proofs of all of them. Left, in this order:

1. An abstract specification of a student's progress through the rounds, which
   `Rounds` implements; the admin's page in `Accounts` (a decision on what was shown).
2. `Access` over `Sessions` itself in place of `SessionLifecycle`.
3. Liveness of requests: one that is sent ends.
4. The single active event of `Events`, and what `FindActive` promises without it.
