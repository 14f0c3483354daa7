# A TLA+ verification project for seiza-server

seiza-server accepts astronomical images, stores them, queues one plate solve
per image, hands the solves to workers under leases, and serves the results to
anonymous clients and to accounts. This directory models the parts of it that
keep state, above all where several requests, processes or machines touch that
state at the same time; checks them with TLC on small instances; and proves the
central results about all of them with TLAPS, for every size of the instance.

Line references are to the repository (`src/src/*.rs` is the Rust source).
`PROJECT.json` maps every definition to the lines it stands for.

## 1. Inventory

| Component | State it keeps | Operations | Talks to |
|---|---|---|---|
| Job store, SQL (`repository.rs`) | `jobs_v2` rows (status, lease token, lease expiry, result), `queue_outbox_v2`, `client_service`, donations; older numeric tables | enqueue, claim (with reclaim_expired and candidate selection), heartbeat, input_key, complete, donate_validation, pending_notifications, mark_notification_delivered; upgrade at start-up | API handlers, dispatcher, workers through the API |
| Job store, DynamoDB (`dynamodb_repository.rs`) | one item per job, index items, a lagging status index | the same trait, with conditional writes | the same |
| Submission and dispatch (`api.rs`) | none of its own | enqueue_stored; dispatch_outbox (poll, publish, acknowledge, for ever) | job store, SQS |
| SQS transport (`transport.rs`) and queues | messages carrying a job id, in a normal and a priority queue | publish; receive, hide, redeliver, delete | dispatcher, SQS workers |
| Remote workers (`worker.rs`) | the lease they hold, the position in the queue schedule | poll, claim, fetch input, heartbeat, complete, acknowledge | API, SQS |
| Embedded workers (`api.rs`) | a registered wake-up | claim, sleep, wake up or poll, solve, complete | job store, object store |
| Resumable uploads (`api/tus.rs`, `uploads.rs`) | a manifest and its chunks per upload; an in-process lock per upload | create, PATCH, DELETE, GET result, concatenate | object store, finalization |
| Finalization (`finalize_resumable` in `api.rs`) | none | compose, enqueue, commit job id, clean up chunks, compact | object store, job store |
| Object store (`storage.rs`) | objects | put, get, compose, copy, delete, retention sweep | everything |
| Re-solve, donation, retention (`api.rs`, `storage.rs`) | images under the upload and the validation prefix | resolve_solve, donate_validation_image, cleanup_expired_uploads | object store, job store |
| Rate limiters (`rate_limit.rs`) | token buckets; seven rolling mail budgets | check, sweep | API, authentication |
| Email sign-in (`auth.rs`, `sqlx_identity.rs`, `dynamodb_identity.rs`) | challenges, the tracker of an address, accounts | start_email, complete_email, purge | API |
| Credentials (`auth.rs`, `api/auth.rs`, identity stores) | sessions, API keys, passkeys, WebAuthn challenges | authenticate, touch, log out, revoke, log in with a key, register, sign in | API |
| Store migration (`store_migration.rs`) | progress of a copy | snapshot, validate, import, resume, verify | both job stores |
| Plate solver (`solver.rs`, `models.rs`) | the options of a job, the blind index of a worker | promotion of image metadata, validation, hinted and blind searches, options of a re-solve | workers, API |
| Satellite tracks (`satellites.rs`, `annotations_for` in `api.rs`) | a cache of predictions, two locks | lookup of elements, prediction | API |
| Catalogue annotations, overlays, star names, content region, email delivery, configuration, web client | none that is shared | computation, rendering, formatting | – |

What is hard here: leases expire while their holders work and call back late;
a claim, a dispatcher's reclaim and a heartbeat interleave inside database
transactions; the same job is announced by the API, by every replica's
dispatcher and by redeliveries; a worker or the API may die between any two
calls; upload requests are dropped at any await point and their locks exist per
process only; a sign-in, a revocation or a migration is several writes on one
back end and one transaction on another; what a client said and what an image
says reach the solver in the same fields. `PROJECT.json` lists these hazards at
the lines where they bite, with the properties that would catch them.

## 2. Modules

| Module | Models | Role |
|---|---|---|
| `JobLifecycle` | the contract of the `JobRepository` trait | abstract specification |
| `WeightedLru` | the scheduling score shared by both stores | pure operators |
| `JobQueue` | `SqlxJobRepository` on SQLite and PostgreSQL | component, implements `JobLifecycle` |
| `JobQueueProofs` | – | theorems about `JobQueue` |
| `DynamoJobStore` | `DynamoDbJobRepository`, request by request | component, implements `JobLifecycle` |
| `DynamoJobStoreProofs` | – | theorems about `DynamoJobStore` |
| `SolveDelivery` | `enqueue_stored`, `dispatch_outbox`, two SQS queues, HTTP and SQS workers | composition around `JobLifecycle` |
| `SolveDeliveryProofs` | – | theorems about `SolveDelivery` and about `RateLimits` |
| `ResumableUpload` | TUS uploads, chunks, locks, finalization | component |
| `ResumableUploadProofs` | – | theorems about `ResumableUpload` |
| `SolveArtifacts` | submission, re-solve, donation, retention sweep, embedded workers | composition of stores, requests and workers |
| `SolveArtifactsProofs` | – | theorems about `SolveArtifacts`, and about `SolvePlan` with `SatelliteTracks` |
| `OneTimeCode` | what email sign-in promises about codes | abstract specification |
| `EmailSignIn` | start_email and complete_email on three back ends | component, implements `OneTimeCode` |
| `EmailSignInProofs` | – | theorems about `EmailSignIn` |
| `AccountCredentials` | sessions, API keys, passkeys on two back ends | component |
| `AccountCredentialsProofs` | – | theorems about `AccountCredentials` |
| `RateLimits` | request and mail limiters | component |
| `StoreMigration` | start-up upgrade and `migrate-store`, with the service around them | component |
| `StoreMigrationProofs` | – | theorems about `StoreMigration` |
| `SolvePlan` | preparation, validation and searches of a solve and of its re-solve | component |
| `SatelliteTracks` | requests for tracks of those jobs | extends `SolvePlan` |
| `MC...` | – | instances for TLC |

### JobLifecycle

A job is absent, queued, solving, succeeded or failed. `Submit` queues it and
puts it in the outbox; `Requeue` takes leases away and re-arms notifications;
`Grant` hands one job out under a fresh token (and may take leases away first);
`Finish` stores the result under the current token; `Acknowledge` clears an
outbox row unconditionally. There is no time: any lease may be lost at any
moment. This is what the trait promises to the rest of the program, and all that
`SolveDelivery` relies on.

### JobQueue

State: the columns of the tables (`status`, `created`, `lease`, `expires`,
`result`, `donation`, `outbox`, `lastServed`), a `clock`, the open transactions
`txn`, and `leases`, every lease ever handed out with the expiry its holder was
last told. Any of those holders may call `Heartbeat` or `Complete` at any time:
that is how stale workers enter the model.

`claim` and `pending_notifications` are two steps each, because `reclaim_expired`
first selects expired rows and then updates them. `BeginClaim` and
`BeginPending` take the SELECT; `GrantClaim` and `CommitReclaim` do the updates
and commit; `Rollback` is a crash or an error inside the transaction. On SQLite
the write reservation (`BEGIN IMMEDIATE`, and a pool of one connection) keeps
other writers out in between. A `pending_notifications` of another SQLite
process that loses its snapshot fails, which is a `Rollback`. On PostgreSQL at read
committed only claims exclude each other, through the advisory lock.

Time: an operation uses a reading of the clock at most `Lag` behind the fastest
replica's clock. The same slack covers a claim on PostgreSQL, which reads its
time before it waits for the advisory lock, so that claims commit in another
order than their times. Scores use integers; weights are in hundredths so that the
floor of 0.01 is 1. `complete` with both a solution and an error stores the
solution, so that the outcome is one of the two terminal states.

Times are stored as RFC 3339 text and compared as text by the database. The
encoding always ends in `+00:00` and drops trailing fraction digits in groups of
three; `+` sorts before `.` and before the digits, so the order of the text is
the order of the times and the model compares numbers.

### DynamoJobStore

The same columns as item attributes, and `call`, the claims in progress. DynamoDB
gives no transaction around a read and the write that depends on it, so `claim`
is one step per request: `BeginClaim` reads the clock; `ReadNamed` is the
consistent read of a named job; `ListSolving`, one `ReclaimOne` per listed job
and `Pick` are the path of an unnamed claim; `Grant` is the conditional write;
`GiveUp` ends a call without a lease, because there was no candidate, the
condition failed, a request failed or the process died. The single reading of
the clock travels with the call and may be arbitrarily old when it is used.
`view` is what the status index and the reads that do not ask for consistency
show of a job; `CatchUp`, which may never happen, brings it up to date. A query
of several pages is taken as one look at `view`. `Pick` may take any job listed
as queued: the score that orders them (`WeightedLru`) is computed from stale
reads of `last_served_at`, which no property here depends on, so neither the
attribute nor the order is modelled. `mark_notification_delivered` would create an item for a
job that does not exist; its callers only pass stored jobs.

### SolveDelivery

The store is an instance of `JobLifecycle` (its actions are called, not
copied), with `lapsed`, the jobs whose lease has run out. The API's submission,
each dispatcher and each worker is a small process whose steps are the calls the
code makes. `fleet`, chosen at the start, is the deployment: its back end, its
workers, the dispatchers of its replicas, whether there is a priority queue and
which jobs go there. On SQLx the dispatcher's poll reclaims expired leases and
returns every undelivered row; on DynamoDB it reclaims nothing and returns only
queued jobs, and a claim for a named job takes an expired lease over in place.
`faults` counts crashes, failed calls, lost responses and missed heartbeats.

An SQS worker polls the queue that its schedule prefers (`cursor`, one normal
poll after `weight` priority polls) and the other one if that is empty;
`PollNothing` is a poll that finds neither. A message is hidden while a worker
has it and may become visible again at any time, which covers every choice of
the visibility timeout. The recovery delay of the DynamoDB dispatcher only
postpones a row to a later pass and is not modelled.

### ResumableUpload

A manifest is a record of offset, length, chunk list and whether a job id has
been committed; chunks are stored per `<<upload, offset>>`; an object is the
sequence of bytes composed into it, a byte being `<<upload, position>>`, so that
"the object is the file" is an equation. A request is a process whose steps are
the store operations of the handler, including every chunk that compose copies
and every chunk that cleanup deletes, and `Drop` ends it at any of them. The lock
is per API process (`Replica`). A final upload takes no lock, as in the code.

The local store writes and removes files on a pool of threads that the end of a
request does not stop. `Abandon` ends a request, and frees its lock, while such a
write is under way; `Land` lets it happen at any later time, whatever manifest the
next request has loaded by then; `Tear` leaves the file empty, as after the death of
the process or on a full disk. An unreadable manifest is refused like a missing one.
Only writes under the lock need this: after `Commit` nobody writes the upload, and a
final upload has no lock, so that a late write equals that of a request dropped
later. The local composition goes to a temporary file of the request; a late rename
of it puts the same bytes at the same key. On S3 a PUT of a dropped request is taken
to have had its effect by then or never (external). `spoiled` remembers the uploads
whose lock did not protect them: a request started on one while another process, or
a write left behind, was at work on it, or its manifest was torn.

A delete that fails inside `cleanup_chunks` is only logged: `Compact` may happen
with chunks left over. GET result of a complete *partial* upload fails in compose
because its object key is empty, so it changes nothing and has no action.

### SolveArtifacts

Objects are `<<prefix, job>>` keys with an age and a state: absent, torn (being
written in place, which only the local store does) or whole, and `by`, the last to
truncate the file. A submission, a
re-solve or a donation is one step per call to the object store or to the job
store; it may fail at a call, fail although the call took effect, or stop, and a
local write goes on although its request is `gone`. Donations of one job may
overlap on either store; `contested` remembers the local files that were written
again while somebody else was writing or had recorded them. The
sweep may delete any object outside the protected prefix once it is old enough.
An embedded worker registers for the wake-up, claims, and sleeps if there was
nothing; `Enqueue` stores the job and wakes exactly the workers that are
registered, as `notify_waiters` does; `Fallback` is the timer that polls anyway.

### EmailSignIn and OneTimeCode

The codes of one address. Each back end has the actions its code has: SQLite one
transaction; PostgreSQL the statements of a read committed transaction, with the
row locks and the unique index that make another one wait; DynamoDB consistent
reads followed by one conditional transaction that is retried when it is
cancelled. `before` in a request is the set of codes issued when it arrived.
Each request that signs in inserts a session of its own (`by`).
`OneTimeCode` has only the usable codes and the sign-ins, who and by which code, so
that a second sign-in by one code is another sign-in and not a stutter; the mapping
computes them from the rows and the sessions.

### AccountCredentials

A request first authenticates (session or key, account, touch; for a session of
a key also the key) and then performs one operation, one store call per step.
Revoking a key and logging out everywhere are one transaction on SQLx and a
listing followed by single writes on DynamoDB. `cut` remembers whether the
credential of a request was already dead when the request arrived: the
properties say that such a request is never let in. A request that was let in
before the revocation may finish, as in the code. Its `TypeOK` documents the
shapes of the records and is not part of a run; it is proved.

### RateLimits

`subject` chooses which of the two limiters a behaviour is about. Time is in
ticks, `Second` of them to a second, and the waits told to callers are whole
seconds, rounded as the code rounds them (`RoundedUp`, `RoundedDown`); a bucket
gains one unit per tick and a request costs `Cost`. The sweeps
are those of the code, at a threshold of one entry. The mail limiter reads the
clock before it awaits the lock, so that a call may be applied up to `lag` ticks
late. `granted` is the history that the properties compare with the budgets.

### StoreMigration

Both layouts of the SQL store, the DynamoDB table with its index items, the
start-up upgrade loop by loop and row by row, and `migrate-store` with its
schema checks, snapshot, plan, writes and verification. A crash may come after
any write; servers are stopped during an attempt and the deployment moves only
after success, as README.md says. `truth` is what the service has stored.
An attempt may be made on whatever state the stores are in, a first start that was
cut short included; `overlooked` remembers that such a store was copied from (see
the observations below).

### SolvePlan and SatelliteTracks

A case fixes what the image and the client's options are like: which keyword
groups a header has, whether dates are reversed, which parts of a hint a client
sent. Times are offsets from the true opening of the shutter, and a value that
names its source stands for the value itself, so that "no part of a hint is
mixed with values of the image" is an equation. What a search finds is open.
`SatelliteTracks` adds requests that look up elements under a lock with a
timeout, predict under another lock, and share a least-recently-used cache,
while the image expires and the elements are refreshed.

## 3. Runs

| Run | Question | Instance |
|---|---|---|
| `job_store_sql` | do results come from the newest lease, are owners served in turn, is the contract implemented? | 2 jobs, 2 owners of different weights, 2 connections, PostgreSQL, lease of 1 tick, lag of 1 tick, 4 ticks, 2 leases, jobs created by tick 2 |
| `lease_exclusive_postgres` | is a lease exclusive on PostgreSQL? (no: finding) | 1 job, equal weights, 2 connections, no lag, 3 ticks, 3 leases |
| `job_store_dynamodb` | do conditional writes keep the contract and exclusivity on stale reads? | 1 job, 2 concurrent claims, 3 leases, lease of 1 tick, lag 1, 3 ticks |
| `solve_delivery` | is every job announced, taken from its worker only by a fault, and finished, and every message removed? | 1 job, 5 fleets on both back ends, at most 1 fault and 3 messages, liveness |
| `resumable_upload` | is the queued object the file, is an acknowledged byte ever lost, is a complete upload always queued? | 4 bytes in chunks of 1 or 2 through one process on the local store with 2 drops, late and torn writes, and in chunks of 2 through two processes on S3 with 1; 2 parts, 1 final request through 2 processes on S3, 2 final requests through one process on either store, 1 drop; liveness |
| `concat_queued_twice` | is an image queued once? (no: finding) | 1 part, one request at a time, 1 drop |
| `solve_artifacts` | do images of jobs and donated images survive all but their age; is a wake-up lost; is every queued job finished? | 2 jobs, 2 requests, 1 embedded worker, local and S3, retention 1, 1 tick, 1 fault, liveness |
| `email_sign_in` | does every store implement one-time codes; one account per address? | 3 codes, 2 completions, 3 back ends, 2 live codes, 1 attempt |
| `account_credentials` | does anything revoked let somebody in; are logins bounded; can a live passkey sign in? | 3 requests, 2 keys, 2 passkeys of 1 authenticator, 4 sessions, 2 back ends |
| `rate_limits` | do the limits hold over the whole history although the maps are swept and calls overtake each other? | 2 identities, 2 sources, 2 recipients, seconds of 2 ticks, 5 ticks, lag 0 and 1 |
| `store_migration` | is anything lost, changed or announced again by upgrades and interrupted migrations? | 3 jobs (2 from a numeric store), 3 attempts, 2 operations of the service |
| `solve_plan` | are clients' hints honoured, exposures normalised, provenances true; does a cached track fit the request? | all listed cases of hints, Astrometry uploads and observations; 3 requests for tracks, a cache of 2, 2 versions of the elements |

### Bounds

Job stores: with a lease of one tick, four ticks are enough for a lease to be
granted, renewed, expired, reclaimed, granted again and expired again while the
first holder is still calling, with a clock that is one tick behind. Two leases
are a stale one and a current one, or the two services that would overtake an
owner. The constraint leaves out two dispatchers' passes open at once, which
`lease_exclusive_postgres` has. `job_store_sql` runs the PostgreSQL dialect, because
SQLite's write reservation only removes behaviours: what holds there holds on SQLite.
Its claims are unnamed, because a worker that claims by name takes its job out of
turn. A claim's time may be up to the lag older than its commit, so `ServedAhead`
counts services that the lag can tell from the creation of the waiting job and from
the last service of its owner; without that slack a claim that waited for the lock
moves `lastServed` back and the owner behind it is passed over twice. A job whose own
lease still runs is not passed over by others, which `ServedAhead` says with its last
conjunct. Named claims, any lag and number of connections and exclusivity on SQLite
are covered by the theorems. `job_store_dynamodb` has one
job because every condition of the store is on one item; its theorems cover any
number.

`solve_delivery`: one job, because processes meet only at a job and its
messages. One fault is enough for a crash at any point followed by a full
recovery, and up to three messages for duplicates of the API's and of two
dispatchers' announcements. The fleets with two SQS workers and with two
dispatchers on SQLx have no fault: they are there for duplicates. The theorems
about delivery have neither bound.

`resumable_upload`: three drops would only repeat what two do to a request and
its retry, and one process is where the lock is put to the test: the drops there
leave a write behind, tear one, or do neither. The scenarios with two processes use
one chunk size (see the observations). `email_sign_in`: three codes exceed the bound of two live ones,
so that eviction happens; one attempt makes a code lock after one wrong guess.
`account_credentials`: three requests, so that a login, a revocation and a later
use of the session overlap; a bound of one login per key makes every second
login recycle. `rate_limits`: windows and budgets keep the order of the
defaults, a second of two ticks is the least that rounds, and the clock reaches the
end of the longest window. `solve_artifacts`: one tick makes every object old enough
to be swept. `store_migration`: three
attempts are an interrupted one, its resumption and one in the other direction.
`solve_plan`: the observation cases run without a star catalogue, so that every
solve fails at once and the run is about metadata only.

Deadlock is checked for the job stores and `solve_delivery`, whose processes
never end. The other runs stop when all requests, attempts or solves are over
or a bound is reached, and say `CHECK_DEADLOCK FALSE`. Symmetry is used where
there is no liveness property and where the permuted values are only compared:
`job_store_sql` (connections), `job_store_dynamodb`, `email_sign_in`,
`account_credentials`, `rate_limits`.

### Fairness

`SolveDelivery`: the API call, the dispatcher's loop and the worker loops
(polls that find nothing included) go on unless a fault stops them, since they
are tasks of a runtime or supervised processes; a lease nobody works under runs
out; SQS makes hidden messages visible again (weak fairness) and serves each
message that is visible again and again to some worker (strong fairness). A
lease somebody works under runs out only as one of the bounded faults: the
heartbeats are assumed to arrive. `ResumableUpload`: requests that are not
dropped go on; the client of a complete upload keeps asking for the result and
Tokio's mutex, which is first-come first-served, lets it in (strong fairness).
`SolveArtifacts`: the loop of each embedded worker goes on, its fallback timer
included, and an abandoned lease runs out. Requests get no fairness: they may
stop for good. The other modules state no liveness.

## 4. Findings

1. **PostgreSQL reclaim revokes a live lease** (`lease_exclusive_postgres`).
   `pending_notifications` does not take the advisory lock and the UPDATE of
   `reclaim_expired` does not check the expiry again. Between its SELECT and its
   UPDATE another transaction can reclaim the same job and lease it to a new
   worker; that lease is then cleared although it has not expired, and the job
   is leased a third time. Results are not corrupted (`StaleWorkerNeverWins` and
   `TerminalIsFinal` are proved for PostgreSQL as well): the cost is a wasted
   solve. On SQLite exclusivity is proved.
2. **A repeated concatenation queues the image twice** (`concat_queued_twice`).
   Every final request draws a new object key and enqueues before it touches the
   parts. A client that lost the response and repeats the request gets a second
   job.

### Observations

Met while modelling; no run is about them, and each is a place where a property
is stated more narrowly than one might expect.

- Uploads: on S3, chunks of different sizes written through two processes can
  lose acknowledged bytes, because the multipart copy does not compare chunk
  lengths with the manifest (`storage.rs:384`). The two-process scenario uses
  one chunk size, as the web client does.
- Delivery: embedded workers never renew their lease, and `lease_seconds` may be
  smaller than the heartbeat interval (`config.rs:292`); a longer solve then
  never finishes. The liveness properties count a lapse under a working holder
  as a fault. A remote worker whose image has been swept drops the job and
  claims it again for ever (`api.rs:2130`). The dispatcher sees the 100 oldest
  rows only (`api.rs:299`).
- Uploads, local store: a request that is dropped, as its client disconnects,
  frees the lock while `tokio::fs::write` goes on (`storage.rs:113`). If the next
  request loads the manifest first, the late write takes its work back: a manifest
  without the job id over one that has it, or a chunk of another size than its
  manifest says. `AcknowledgedBytesSurvive` and `ResultStaysAvailable` fail in the
  run without the exception for `spoiled` uploads. A torn manifest is read as missing
  and the upload has to start again.
- Donations: on the local store two donations of one image that both find it without
  one copy it to the same file (`api.rs:1553`). The copy that the first has recorded
  is torn while the second writes, and stays so if that is cut short;
  `DonatedImageKept` excepts these files (`contested`). A repeated
  donation replaces the licence version on DynamoDB and keeps the first on SQL.
- Sign-in: on PostgreSQL overlapping starts do not see each other's code and may
  leave more than the maximum alive until the next start; `LiveCodesBounded`
  speaks of SQLite and DynamoDB.
- Credentials: a session that a request read just before its idle expiry is
  extended by that request's touch and comes on top of `LoginsBounded`. Logging
  out everywhere asks for no recent authentication, although
  `docs/accounts-authentication.md:409` lists it. Two sign-ins with one passkey
  both write the credential they loaded, so that its stored counter can go back.
- Migration: `migrate-store` decides by the existence of `jobs_v2`; a source
  whose first start was cut short is read as almost empty, and the command
  reports success (`store_migration.rs:452`), although README.md:635-646 and
  docs/architecture.md:102-110 say that the complete snapshot is copied and legacy
  numeric stores are converted. The trace: the first start creates `jobs_v2` and is
  interrupted before it has copied the numeric rows; `migrate-store` finds `jobs_v2`,
  copies what it holds and verifies it against itself; the deployment moves and the
  numeric jobs are gone. `NothingIsLost` fails there, and states its promise up to
  that point (`overlooked`). A resumed copy into a DynamoDB table of the numeric
  layout puts UUID items beside numeric ones, after which the table cannot be read
  (`UnderBothKeys`).
- Solve options: the site in a header is not checked before it is promoted, so
  that a latitude out of range refuses the upload; a client's exposure without a
  time is replaced by DATE-END minus DATE-BEG while the provenance still says
  explicit. A cached answer about tracks may carry another request's reason for
  missing pixel evidence.

## 5. Proofs

`JobQueueProofs` is checked by TLAPS for every set of jobs, owners and
connections, every lease length, lag and bound, and both dialects unless a
theorem says otherwise. The only assumption is `JobQueueAssumptions` (types of
the constants, `AnyJob` is not a job, the clock bound is positive).

- `TypeCorrect`: the type invariant, action by action.
- `LeaseDisciplineHolds`: the inductive invariant of both dialects. "Results come
  from the newest lease" is not inductive: to see that `Complete` keeps it one
  needs that the token in a solving row is the newest ever handed out for the job,
  that tokens never exceed the counter, that a row holds a token exactly while it
  is solving, and that only existing rows are ever selected for reclaim.
- `StaleWorkerNeverWinsHolds`, `SolvesOnlyOriginalsHolds` are parts of it.
- `TerminalIsFinalHolds` is an action property: every action is shown to respect it
  in a state of the invariant.
- `LeaseExclusiveHolds` (SQLite): needs more. At most one transaction is open
  (`OneWriter`), the leases it selected are still expired (`SelectedStillExpired`),
  tokens identify leases (`TokensIdentify`), and a lease whose holder still counts
  on it is the current one or the one that finished the job
  (`CountedOnIsCurrent`). `SelectedStillExpired` is exactly what PostgreSQL
  lacks.
- `ImplementsLifecycle`: every step of `JobQueue` is a step of `JobLifecycle` or
  leaves its variables alone. `GrantClaim` is `Grant` with the reclaimed and the
  re-armed jobs as its sets, `CommitReclaim` is `Requeue`.
- `NoOwnerOvertakenTwiceHolds`, for any weights, owners, lease length and lag, on both
  dialects, under `Scheduled`: claims name no job, as in the run.
  The claim picks a job of the highest score, and between two owners of whom one
  waits longer at no smaller weight the score decides for that one
  (`LongerWaitGoesFirst`). That this happens at most once per waiting job needs the
  same statement about jobs that are being solved, since their lease may run out and
  put them back (`ServedAheadOnce`), that one claim is open at a time although its
  time may be old (`ClaimsInOrder`), and that what a claim has not selected for
  reclaim is not over by more than the lag (`LeasesInOrder`). The proof attempt
  corrected the property: an
  earlier statement also counted services granted while the job itself was being
  solved under a long lease. Those do not overtake it, and with leases of three ticks
  TLC refuted that statement.

`DynamoJobStoreProofs` proves the counterparts for any number of concurrent
claims, from `DynamoAssumptions` (types of the constants, `NoJob` is not a job):
`TypeCorrect`, `StaleWorkerNeverWinsHolds`, `SolvesOnlyOriginalsHolds`,
`LeaseExclusiveHolds` and `ImplementsLifecycle`. `LeaseDiscipline` is the same
invariant without transactions. `ExclusionDiscipline` needs one fact more: a
claim's reading of the clock is never ahead of the clock, so that a lease that a
claim finds expired, however late it writes, is one its holder no longer counts
on. Nothing is assumed of `view`: the proofs hold for an index that never
catches up. Exclusivity, which PostgreSQL lacks, holds here because the
condition of the reclaim repeats the expiry.

`SolveDeliveryProofs`, for any jobs, workers, dispatchers, messages and number of
faults, on both kinds of store.

- `DeliveryInvHolds`, `NoJobStrandedHolds`. That an unfinished job has an outbox
  row or a message is not inductive: a worker deletes the message it holds, and a
  dispatcher clears the row. `DeliveryInv` adds that a message id stands for one
  job, that a worker about to delete its message knows the job of that very
  message to be finished (not merely the job of some older one), and that whoever
  is about to mark a notification as sent has sent it.
- `TokensDifferHolds`, `LostSolvesAreFaultsHolds`: a token is drawn by one claim, so
  that the row names one worker; and whatever takes that lease away (a dispatcher's
  reclaim, a claim that gives up on others, a takeover in place) does so only once it
  has lapsed, which is a fault if its holder is still at work. Workers solving in vain
  are therefore counted by the faults (`LostCounted`).

The same module proves the rate limiters, for any identities, sources, recipients,
limits, thresholds and waits for the lock.

- `LimiterInvHolds`, `BurstBoundedHolds`. From each request of the history on, what
  was let through plus what the bucket still holds is at most a full bucket plus
  what flowed in (`NothingFromNowhere`); an identity without a bucket counts as one
  with a full bucket, and the sweep forgets full buckets only, so that sweeping
  changes nothing (`SweepIsHarmless`).
- `RetryAfterIsTrueForRequests`: whoever was told to wait has a bucket that does not
  pay a second or more before that time (`ToldTrue`). The answer is rounded up to
  whole seconds and is at least one, so that inside the last second a caller may be
  let in earlier than told.
- `MailInvHolds`. Each list of the mail limiter is a memory of the history (`Memory`,
  `Remembers`): an injective map takes its events to sends that were let through, of
  the same time and recipient, and every send that may still count is hit. Dropping
  old events keeps this although calls arrive late and events are not in the order
  of their times, because a list is only shortened at its front by events that no
  window holds any more. Hence counting a list and counting the history agree, and
  every budget that was respected when a send was let through is respected around it
  for ever (`InBudget`, `BudgetStep`). That the limit-th newest event exists, and a
  least or largest one, follows from the well-foundedness of `<` (`NthNewest`,
  `LeastPosition`).
- `MailBudgetsHoldAlways`, `OnlySendsAreChargedAlways` follow from it.
- `NoSprayingHolds` assumes a source budget of at most three, which is the documented
  default and the case the property is about: with four, TLC finds two recipients in
  a window of four messages. The lists of the sources are orderly (`Orderly`): in the
  order of their times, and between two sends to different recipients that are less
  than a window apart one counted double, although the recipient that is charged
  less has to be found in a list whose older events leave the window one by one. The
  sum that `weighted_retry_after` forms is the number of recent sends plus the number
  of double ones (`SpentIsWeight`); its recursion is unfolded from the
  well-foundedness of `<` (`RunningSums`).

`ResumableUploadProofs`, for any uploads, sizes, lists of parts, chunkings,
requests and number of dropped requests. Three invariants, each on top of the one
before.

- `Base` (`BaseHolds`, `TypeCorrect`, `CommittedHasJobHolds`; any number of API
  processes): the job row comes before the manifest that names it, in storage and
  in what every request has in hand; the chunks of every open manifest follow each
  other from byte 0 to its offset, and those a concatenation has gathered go from
  part to part in the order of the list.
- `LockInv` (`LockInvHolds`, `AcknowledgedBytesSurviveHolds`,
  `ResultStaysAvailableHolds`; any deployment): for every upload that is not
  `spoiled`, requests on it
  exclude each other, the manifest a request works with is the stored one, a
  complete part stays complete, and no chunk that a manifest names is overwritten
  with another size. `AcknowledgedBytesSurvive` needs all of these at the put of a
  chunk. A write that is still under way counts as a holder of the upload: as long as
  no other request starts, it finds the manifest that it was made from, so that
  landing late is landing in time (`LandEffect`), and a torn chunk is one that no
  manifest names. POST of a final upload takes no lock; that two of them may still run
  on the same parts is covered by the facts about complete parts.
- `ObjectInv` (`ObjectInvHolds`, `ObjectIsWholeHolds`; under `Trusted`, that is, on
  the local store with any number of processes and late writes, or on S3 while no
  upload is spoiled):
  every object is a sequence of bytes that starts with the upload's first byte,
  goes from each byte to its successor and ends with the last. On the local store
  compose itself compares every chunk with the manifest, so that two processes
  cannot spoil an object there; a multipart copy does not, and needs `LockInv`.
  The file itself, `FileBytes`, is a `FlattenSeq`, a recursive function. What it
  computes is obtained without induction over data: a position where two such
  sequences differ, or a number of parts that cannot be joined, would have a
  least one (`LeastNat`, by the well-foundedness of `<` on the naturals), and the
  least one is impossible. Two sequences of successors from the same first to the
  same last byte are therefore equal (`SameFile`).

`SolveArtifactsProofs`, for any jobs, requests, workers and retention, on the
local store and on S3, without further assumption.

- `ImageInvHolds`: what a request has read of a job or a source image cannot be
  taken back before it acts; a file that is torn is one that a request is writing or
  that nobody relies on, unless it is contested, and nothing is contested on S3; a
  row, and a request about to store a row, has its image, unless the sweep took it.
- `DonatedImageKeptHolds`, `OwnedImageKeptHolds` follow from it.
- `NoLostWakeupHolds`: a worker that registered before it looked and is not
  notified has seen every announced job.

The same module proves `SolvePlan` and `SatelliteTracks`, for any cases of images and
options, any findings of the searches, any requests, cache size and elements.

- `PlanInvHolds`: a client's part of a hint is never replaced and a hint that is not
  the client's is the image's as a whole (`HintKept`); the searches made and those
  left are, in this order, the ones planned for the stored options
  (`SearchesInOrder`); and an observation is the client's, or the image's with its
  interval normalised (`ObservationKept`).
- `HintsAreHonouredHolds`, without further assumption.
- `ExposureIsNormalisedHolds` assumes that headers are `Truthful`: a header may have
  its two dates the wrong way round, but then it has both. `ProvenanceIsTrueHolds`
  assumes also that a client's values can be told from the image's (`Recognisable`),
  without which the question has no meaning. The run's cases satisfy both.
- `TracksInvHolds`, `AnswerFitsRequestHolds`: whatever is in the cache is a prediction
  for the key it is filed under, so that it does not matter which request put it
  there; a request without pixels has a reason from the moment it looked.

`EmailSignInProofs`, for any codes, requests, limits and lifetimes, on all three
back ends.

- `SignInInvHolds`, `SignInVoidsEarlierCodesHolds`, `OneAccountPerAddressHolds`. On
  PostgreSQL the invariant says which rows a request has locked and that the code
  under the lock still works; on DynamoDB, that the tracker names every working
  code and that who still holds the tracker's version holds its list, so that a
  conditional write that succeeds consumes everything that was issued before.
- `FewLiveHolds`, `LiveCodesBoundedHolds`: on SQLite the number of rows alive is
  bounded by the eviction in the same transaction, on DynamoDB by the length of the
  tracker. PostgreSQL is excluded (section 4).
- `CodesAreOneTimeHolds`: every step of every back end is a step of `OneTimeCode`
  or leaves its variables alone. The transaction that completes a sign-in adds one
  sign-in and voids other codes in a single abstract step, which is only a step of
  `OneTimeCode` if no other request has signed in by that code. That needs
  `SpentCodesHolds`: the code of every session has stopped working, whatever a request
  read of it before.

`AccountCredentialsProofs`, for any requests, sessions, keys, passkeys and
ceremonies, on SQLx and DynamoDB.

- `CredentialInvHolds`, `TypeCorrect`, `RevokedKeyCutsOffHolds`,
  `EndedStaysEndedHolds`: keys and sessions only ever close, so that a request
  whose credential was dead on arrival, and has not been turned away yet, is still
  before the read that does so. That session ranks are fresh is part of it, as a
  login must not bring an ended session back.
- `PasskeyLookupAgreesHolds`: live passkeys belong to different authenticators, and
  on DynamoDB an authenticator's lookup item and its live passkey name each other;
  both directions are needed, since each revocation deletes the item it finds.
- `LoginInvHolds`, `LoginsBoundedHolds`. The bound counts working sessions while
  logins that have read the sessions, but not yet stored their own, will both add to
  them and delete from them. The invariant bounds, for each login that has drawn a
  rank, the older sessions it will leave behind together with the logins that drew a
  lower rank (`WaitersFit`), and for each working session the older ones beside it
  (`FreshFit`), by one less than the limit plus the overlapping logins. The newest
  working session then has all others behind it. A greatest rank exists because
  there are finitely many requests, which is assumed.

`StoreMigrationProofs`, for any jobs, attempts, interruptions and operations of the
service, in whatever order. What is promised ends where a half upgraded store was
copied from (`overlooked`); what the actions change is covered beyond that point too.

- `MigrationInvHolds`, `TypeCorrect`, `NothingIsLostHolds`. That a running service
  reads what was stored says nothing of a store that is half upgraded or half
  imported, so the invariant speaks of the content of a store (`SqlContent`,
  `DynContent`): a numeric row counts until the notification of its job has been
  carried over, the last of the three loops, so that no step of the upgrade changes
  the content, and reading a store that is not half upgraded gives it. The store in
  use holds the truth, and so does one that was reported verified; no store holds
  a job or a donation that is not part of it.
- While a command writes, its snapshot is still the content of the source, and the
  destination holds part of it. Each write takes a field from the source or leaves
  it (`Advances`), and a destination that holds the truth already holds all of its
  source (`NothingToAdd`): it is not changed, even where the command was given the
  wrong direction.
- `InterruptedImportResumesHolds`: what an attempt leaves behind is part of its
  source until a service writes.
- `MigrationOnlyAddsHolds`, an action property: where the destination has a record,
  the snapshot has the same.

Apart from the conditions named above, the proofs rest on the named assumption of
each component and on nothing else.
Most are about the types of constants. Those of `ResumableUpload` also say that
ids are unique and that a list of parts is neither empty nor repeats one, which
`parse_concat_part_ids` enforces; those of `AccountCredentials` that there are
finitely many requests, room for two sessions, and names that differ from the
empty set; that of `StoreMigration` that `None` is neither a record nor a store; that of
`RateLimits` that the fields of `EmailSendRateLimits` are positive and that a bucket
holds at least one request.

Only model-checked:

- All liveness: the prover has no rules for fairness.
- `ObjectIsWhole` on S3 with two processes at work on one upload: it holds in the
  run's scenarios, in which chunks have one size, and not in general (section 4).
- `RetryAfterIsTrue` for sign-in mail. It is about the instance, not about every
  value of the limits: with a source budget of one a message that counts double is
  told to wait for the whole window, and counts once as soon as the older one has
  left it.

## 6. Not modelled, and the plan

- Catalogue annotations, overlays, star names and the content region: read-only
  floating-point geometry and rendering without state. The numerical part of
  the plate solver (star detection, the searches themselves): in `SolvePlan` it
  may end either way.
- Email delivery, configuration parsing, the shapes of responses, the web client:
  formatting without state; the models take success or failure as given.
- SQS message groups and the arithmetic of visibility timeouts; `last_served_at`
  on DynamoDB, whose order is left open; the content of WebAuthn ceremonies and
  the formats of tokens.

What would extend the project furthest: the two-process scenario of uploads as a
theorem, with the size of chunks as an assumption; liveness, once a prover has rules
for fairness.
