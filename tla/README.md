# A verification project for outbox-dispatcher

TLA+ models of the dispatcher, TLC runs that check them on small instances, and
TLAPS proofs, for every value of the constants, of every safety property the passing
runs check. Paths below are relative to the repository root; file
names without a directory are in `crates/core/src`.

## The system

Publishers insert rows into `outbox_events` inside their own transactions. A
replica of the dispatcher

1. *schedules*: reads events after its in-memory cursor and writes one
   `outbox_deliveries` row per callback (`scheduler.rs`, `callbacks.rs`),
2. *dispatches*: fetches due rows, takes a lease (`locked_until`) on each, sends a
   signed request to the receiver and writes the result back (`dispatch.rs`,
   `retry.rs`, `crates/http-callback`, `keyring.rs`),
3. *sweeps*: resets external rows that were accepted and never completed
   (`timeout_sweep.rs`),

each time its loop is woken by NOTIFY or the poll timer. Beside the loop run an
optional retention worker (`retention.rs`), the admin API (`crates/admin-api`) and a
statistics sampler; `crates/bin/src/main.rs` loads the configuration (`config.rs`),
migrates and checks the schema, spawns all of these and stops them. Its `rescan`
command schedules again from a point in time. All processes meet only in the
database (`repo.rs`, `migrations/`).

`PROJECT.json` lists every part with its sources and how far it is modelled.

## Modules

| Module | Models | State and actions |
|---|---|---|
| `Dispatch` | `dispatch_due`, `dispatch_one`, the sweeper, admin operations, the repo statements they use | `row` is `outbox_deliveries`; `task[r][d]` is where replica r's `dispatch_one` for row d is; `sweep[r]` is a sweep statement between snapshot and update; `now` is the database's clock. One action per SQL statement or outcome of the request. |
| `Lifecycle` | what `Dispatch` promises | `life[d]`: pending, accepted, done or dead, whether a request went out, successes recorded. Leases, attempts, clocks and batches are not part of it. |
| `Retry` | `compute_next_available_at` | operators; jitter is the set of possible instants, `NULL` the panic beyond `LastInstant`, the last one a `DateTime` can hold |
| `Scheduler` | `schedule_new_deliveries`, `recover_cursor`, `rescan`, retention, publishers' transactions, and what dispatch and operators do to the rows | `event`, `deliveries`, `proc[p]` (cursor and fetched batch), `doomed` (the snapshot of a running retention statement), `revived` (rows that became pending again since that snapshot) |
| `WakeLoop` | `run_scheduler_with_cycle_tracker` and `/ready` | `pc` of the loop, the listener and the notifications in its buffer, timers, shutdown, `since_cycle` (the age of `last_cycle_at`). `DrainNote` and `DrainEnd` are the drain loop over sqlx's `try_recv`. |
| `Callbacks` | `parse_callbacks`, `validate_named_callback`, `is_private_host` | operators; each check is a reason or "ok", and the first that fails decides. An address is its octets, a domain its labels, a header the bytes in its name and value. |
| `Webhook` | `HttpCallback::deliver`, `sign`, `parse_retry_after`; the receiver's `verify_header` | operators; HMAC is an injective function |
| `KeyRing` | `KeyRing::load`, `get` | operators |
| `Config` | `AppConfig::load`, `validate`, `to_dispatch_config` | operators; a source is a partial function from settings to values, `Over` lays one over another, and signing keys are merged one by one |
| `Expansion` | an event's callbacks from array to row to signed request to the receiver's decision, across configurations and keys | the rows of one event, the configuration in force, requests in flight and what was recorded |
| `Process` | `main`: commands, start-up, migrations, workers, shutdown | `pc[p]` of each process, its JoinSet `workers[p]`, `token[p]`, `tracer[p]`, `exit[p]`; `schema` and the migration `lock` in the database |
| `Admin` | the routes of the admin API and the statistics sampler | `rows`, the events `published` and those retention `deleted`, the request in progress with what it has read so far, the gauges. One action per SQL statement; between two, events are published and any row may change. |
| `MCDispatch`, `MCScheduler`, `MCExpansion`, `MCProcess`, `MCAdmin` | constants of the small instances | |
| `DispatchProofs` | theorems about `Retry`, type correctness of `Dispatch`, what each of its steps does to one row | |
| `AttemptProofs` | attempts, backoff and dead letters in `Dispatch` | |
| `LifecycleProofs` | leases, recorded successes and the refinement of `Lifecycle` | |
| `SchedulerProofs`, `WakeLoopProofs`, `ExpansionProofs`, `ProcessProofs`, `AdminProofs` | theorems about the module of that name; `ExpansionProofs` also about `Callbacks`, `KeyRing` and `Webhook`, `ProcessProofs` also about `Config` | |

How they fit together: `Dispatch` extends `Retry` and uses the delays it computes; the
Retry-After values it is given are those `Webhook` parses. `Expansion` composes
`Callbacks`, `Config`, `KeyRing` and `Webhook`; what it finds about an event is the
pair of constants `Valid`, `Invalid` in `Scheduler`, and what it finds about a row is
`Poison` in `Dispatch`. `Process` composes `Config` and `KeyRing` with the life of the
process. `Scheduler` sees dispatch as a row's lock, the end of its request and its
rejection, one request per row at a time, which is what `LeaseHeld` and
`OneCallAtATime` of `Dispatch` give it; `Admin` sees dispatch as the changes a row can
go through. `WakeLoop` runs the three steps as atomic outcomes and
says when they run; the other modules let them run at any time.

### Choices in the models

* A single-statement UPDATE is one step. The sweep and the retention DELETE
  are two steps: under READ COMMITTED they decide from a snapshot and then write by
  id, and rows they join with may have changed in between. A row that changed
  while the statement waited for it is only tested again on `id`.
* Time in `Dispatch` is a counter. Timestamps written with SQL `now()` use the
  database's clock, those written with `Utc::now()` the replica's, which is
  `Skew[r]` ahead. `LockLatency` and `WriteLatency` bound the database calls
  around a request; the code has no such bound, so results that use them are
  conditions on a deployment.
* `lastSent` and `acks` in `Dispatch`, `seen` in `Process` and the pages a list has
  returned in `Admin` are history variables for the properties.
* Error paths are actions: a lock that fails before or after it took effect, a
  lost write-back, a failed poison-pill update, a crash at any point, a request that
  is altered, late, redirected or unanswered, an admin server that fails to bind, a
  worker that panics. A panic of `compute_next_available_at` unwinds the scheduler's own
  task and with it `main`: in `Dispatch` it is the `Crash` of the replica.
* A text (a URL, a header, a secret, a setting) is a record or model value with what
  the checks tell apart: the octets of an address, the labels of a domain, the bytes that
  occur in a header, the alphabets a secret decodes with, its number of bytes.
* `U32` in `Config` stands for 2^32, scaled to the checker's integers.
* Receivers, publishers, the network, sqlx and its migrator are environment.
* Left out everywhere: `last_error`, `last_attempt_at`, counters and histograms,
  logging, event payloads (an oversized payload is a flag).

## Runs that pass

| Run | Checks | Shows | Bounds |
|---|---|---|---|
| `managed_pair` | `TypeOK`, `LeaseHeld`, `OneCallAtATime`, `AcksBounded`, `NoPrematureDeadLetter`, `ImplementsLifecycle` | leases of two replicas exclude each other, one success is recorded, dead letters are not early although decisions use fetched values, and every step is one `Lifecycle` allows | one row, two attempts, clocks one tick apart, database calls that just fit in `lock_buffer`, completions, two faults, 9 ticks: both attempts, an expired lease and a stale batch fit |
| `solo` | `AttemptsBounded`, `BackoffRespected`, `DeadLetterByAttempts`, `RedeliveryRaisesAttempt` | with one replica and one request at a time, attempts, backoff and dead-lettering follow the documented rules | three rows in batches of two, one of them rejected, every kind of Retry-After, two faults, 4 ticks |
| `external_solo` | `AcksBounded`, `ImplementsLifecycle` | cycles bound deliveries; sweeping, completing and retrying leave the life cycle | two external rows, two requests at a time, two cycles, one fault, 4 ticks |
| `schedule` | `TypeOK`, `NoEventSkipped`, `EventuallyScheduled`, `RetentionSparesPending` | neither a crash, an error, retention, an operator nor a rescan from the start leaves an event behind a cursor or without its rows, and retention takes no pending row it could have seen | three events in batches of two, one with a valid and a rejected callback; a replica and a rescan that overlap, retention, and one disturbance (`MaxDisturbances`: a database error, a crash or an operator's request) at any point |
| `expansion` | `TypeOK`, `AcceptsExactly`, `TargetWithinLimits`, `RowPerCallback`, `LookupFindsOwn`, `VerifiesExactly`, `DispatchedWasAccepted`, `SentIsAllowed` | the chain of checks accepts exactly the well-formed callbacks; rows and dispatch agree; receivers accept exactly what was signed with their key, unaltered and in time; a delivery is recorded as dispatched only if its receiver accepted; the configuration in force decides | each field at 0, 1, its limit, its limit + 1, absent and of the wrong type; addresses at and beside the ends of every private range; domains with and without trailing dots; header names and values with each kind of byte; arrays of two or three with different names or the same one; configurations at both ends of their ranges, rotated and wrong keys; a delay up to one beyond the allowed age |
| `wake_loop` | `TypeOK`, `ReadyFollowsLoop`, `BacklogDrains`, `HungSwept`, `ShutdownCompletes` | as long as the connection keeps failing, the poll timer suffices, the sweep is not starved and shutdown is reached; always, `/ready` is true of a loop that keeps its pace and false of one that stopped | three events in batches of two, two faults, cycles of up to 5 ticks with a deadline of 4 |
| `process` | `TypeOK`, `StartsExactly`, `ServesWhole`, `CleanExit`, `SchemaComplete`, `NeverServesAhead`, `StopsOnceCancelled` | a process starts with exactly the sound configurations, serves with its workers on a complete schema that was not ahead, and exits with 0 only when told to stop and drained | two processes, two versions, every command, three starts; six sound environments that spread their secrets over all layers, 37 broken ones with one setting at fault each |
| `admin` | `PagesComplete`, `AnswersFit`, `StatsAgree`, `GaugesFresh` | a listing misses and repeats nothing that was there throughout, answers fit a state the row was in, statistics add up, no gauge shows a backlog that is gone | four tables of three or four rows, one new event and two inserts; limits of -1, 0, 1, 2 and 201; four changes between statements, three samples with failed fetches |

The conditions that separate these from the behaviours below are constants:
`CommitInOrder` (publishers commit in id order), `RescanFrom`, `LongWindow`
(retention windows outlast a scheduling backlog), latencies within `lock_buffer`. Two
are premises of properties: `ConnectionFails` in `WakeLoop` (the LISTEN connection is
lost again and again, or is down for good) and `WindowsInReach` in `ServesWhole`.
`EventuallyScheduled` and `NoEventSkipped` ask for the rows the first INSERT of an event
writes: those of its valid callbacks, or of its rejected ones when none is valid.

**Fairness.** `Scheduler` assumes weak fairness of a replica's restart and of its
own steps: the loop wakes at every poll interval and a supervisor restarts the
process. Nothing is assumed of publishers, rescans or retention. `WakeLoop`
assumes that the process starts, that its task is polled and that timers fire;
nothing of notifications, reconnection or publishers. The premise `ConnectionFails` of
its liveness properties is not fairness the code provides: it marks the case in which
the drain loop ends (`drain_waits` is the other one). `Process` assumes that the
runtime polls its tasks and that a worker's work in hand ends, which for the admin
server includes its open connections; nothing of signals, and nothing of the
scheduler's return, which may be waiting in its drain loop. Faults are bounded in all
three, so a database that fails for ever is not covered. `Dispatch`, `Expansion` and
`Admin` state no liveness.

Deadlock is checked in every run except `process` and `admin`, where the end of the
last process and of the last request is a proper end. `Horizon` in `Dispatch` is the
stutter at the last instant explored.

## Where code and documentation disagree

Each of these runs finds a behaviour of the code that a line of the repository
denies. The line is quoted under `findings` in `PROJECT.json`.

| Run | Behaviour |
|---|---|
| `abandon_in_flight` | a failing request clears an operator's abandon: `mark_failure` writes `dead_letter` by id alone |
| `commit_out_of_order` | an event committed after a higher id is never scheduled |
| `retried_rejection` | a rejected external callback that is retried is never swept |
| `drain_waits` | after a wake-up the drain loop (`scheduler.rs:167`) waits for the next notification, because `try_recv` of the locked sqlx 0.8.6 returns `None` only when the connection is lost. While the connection is up and quiet nothing is scheduled, dispatched or swept, the poll timer is not looked at, and neither is the shutdown token |

### Behaviours outside the conditions

The same models show the following when the constants or the property
of a run above are changed. They have no run of their own; the constants say how to
obtain the trace with TLC.

| Change | Property that fails | Behaviour and the line that says otherwise |
|---|---|---|
| `managed_pair` | `BackoffRespected` | a replica locks a row another has just put into backoff: `lock_delivery` (`repo.rs:408`) does not repeat `available_at` (`migrations/0001_initial_schema.sql:91`) |
| `external_solo`, `Replica = {r1, r2}`, `Delivery = {1}` | `AcksBounded` | overlapping sweeps count one cycle for two deliveries (`repo.rs:514`; `docs/webhook-protocol.md:171`) |
| `managed_pair` without faults | `DeadLetterByAttempts`, `AttemptsBounded` | a row that used up its attempts returns to pending, and is sent once more, because the failing replica fetched an older count (`dispatch.rs:18`) |
| `managed_pair`, `AdminOps = {"complete", "retry"}` | `NoPrematureDeadLetter` | a row that is retried while it waits in a fetched batch is judged by the attempts read before the reset, and is a dead letter after one failure (`docs/operations.md:93`) |
| `solo` | `CompletedNotRedelivered` | a row completed while it waits in a batch is sent (`docs/operations.md:108`) |
| `external_solo` | `RedeliveryRaisesAttempt` | a redelivered external request is numbered 1 again (`docs/webhook-protocol.md:169`) |
| `managed_pair`, `WriteLatency = 3` | `OneCallAtATime` | database calls longer than `lock_buffer` lead to two requests at once (`README.md:26`) |
| `schedule`, `RescanFrom = {0, 1, 2}`, `Retention = FALSE` | `EventuallyScheduled` | a rescan and a restart skip the backlog before it (`docs/operations.md:202`) |
| `schedule` | `RecoversHighest` | a rescan, or a second replica, inserts a row of an older event last (`repo.rs:90`) |
| `schedule`, `Unstorable = {2}` | `OthersScheduled` | an event whose rows the table refuses blocks all later ones (`scheduler.rs:233`) |
| `schedule`, `LongWindow = FALSE` | `RetentionSparesPending` | an old event is selected before it has rows, and deleted with the ones it gets meanwhile, or without ever having any (`docs/operations.md:250`) |
| `wake_loop` | `StatusRecovers` | `listener_status` stays false after a reconnect until a notification (`scheduler.rs:62`) |

What the models take over from the code and a reader may not expect:

* *Callbacks of one name.* An event has one row per name. `RowPerCallback` therefore
  demands a row of its own only for the first accepted callback of a name
  (`README.md:9` promises one for every callback), and `LookupFindsOwn` excepts a
  valid callback behind a rejected namesake, which dispatch dead-letters
  (`callbacks.rs:21`).
* *Mixed events.* Valid and rejected callbacks of one event are written by two INSERTs.
  After a crash in between, `recover_cursor` takes the event for finished and the
  rejected callbacks never get their dead letters (`callbacks.rs:20`). The properties of
  `Scheduler` ask for the first INSERT only.
* *Retention beside operators.* A row that an operator retries, or that the failure of a
  late request turns back into a pending one, while retention's statement runs is
  deleted with its event (`retention.rs:6`). `RetentionSparesPending` excepts exactly the
  rows in `revived`.
* *Headers and modes.* `docs/webhook-protocol.md:194` lists `User-Agent` among the headers
  a callback may not set; `RESERVED_HEADERS` (`callbacks.rs:548`) does not, and the model
  follows the code. A callback in external mode without `external_timeout` is rejected at
  `callbacks.rs:365`, where `docs/operations.md:212` and the comment at `repo.rs:79` speak
  of deliveries without one. `AcceptsExactly` compares the checks with a definition of
  well-formedness that agrees with the code on both points.
* *Waiting.* The jitter is applied after the maximum with Retry-After (`retry.rs:51`),
  so the wait can be a quarter shorter than Retry-After, which
  `docs/webhook-protocol.md:123` calls a floor; the test at `retry.rs:96` expects this.
  Any `u64` is accepted as Retry-After (`crates/http-callback/src/client.rs:207`); one that
  leads beyond the last `DateTime` panics at `retry.rs:53`, which ends the process. The row
  keeps its lease and is sent again after the restart.
* *Signatures.* `verify_header` accepts timestamps of the future
  (`crates/http-callback/src/signing.rs:85`), where `docs/webhook-protocol.md:97` has
  `|now - t|`. A callback whose key is not in the keyring fails as a transient error
  and is retried.
* *Configuration.* `dispatch_concurrency as u32` (`config.rs:550`) compares a value
  modulo 2^32 with the pool's size.
* *Start and stop* (`crates/bin/src/main.rs`). When the admin API cannot bind, the
  process shuts down and exits with 0. When the scheduler cannot start, it exits with
  1 without draining its workers or flushing its spans; the commands that end early do
  not flush either. A flush that fails is logged, and the exit code is 0 all the same. A
  worker that panics does so unnoticed until the drain: the signal task when it cannot
  install its handler (`crates/bin/src/main.rs:617`), and the retention worker when a
  window reaches back beyond chrono's first `DateTime` (`retention.rs:128`), which
  `validate` does not exclude (`config.rs:593`). After the first signal, further ones change nothing. The schema is
  checked at start only, and `--skip-migrations` serves on a schema that is missing or
  behind; `SchemaComplete` and `NeverServesAhead` say no more than that.
* *Readiness.* The first cycle runs after the first notification or poll interval, and
  `/ready` is 503 until it ends. A cycle whose scheduling fails does not count, so
  errors can make a live loop unready.
* *Admin reads.* An event and its deliveries are two statements
  (`repo.rs:725`), so an event that retention deletes in between is answered without
  deliveries; the statistics are several statements too, and `StatsAgree` compares
  them only when no row moved. A negative `older_than_secs` ends the handler without
  an answer (`crates/admin-api/src/routes.rs:175`).

## Proofs

Every safety property of the passing runs is a theorem for all values of the
constants: any sets of replicas, rows, events, requests and environments, any sizes of
tables, arrays and batches, any clocks, limits and numbers of faults. The only
assumptions are the module's own (`DispatchAssumption`, `SchedulerAssumption`, ...,
which say what kind of value each constant has and are evaluated by TLC on the
instances) and those listed with a theorem, which describe a deployment or, for
`StartsAsMeant`, say what a label means.

### Backoff and dispatch

* `DispatchProofs!WaitBounds`: for every attempt number, schedule and Retry-After, zero
  and empty ones included, the wait is at least three quarters of the schedule's entry
  and of Retry-After, and less than five quarters of the longer. It rests on
  `DelayIsMax`: the delay before jitter is the larger of the two. No instant beyond
  `LastInstant` is returned, and there is no panic as long as five quarters of the delay
  fit before it.
* `DispatchProofs!TypeCorrect`: `Spec => []TypeOK`, one lemma per kind of update. The
  other lemmas of the module (`LocalStep`) say what any step does to one row and one
  replica's task for it; the proofs below reason with those few cases.

With several replicas (`LifecycleProofs`), assuming

- `LeaseCovered`: `LockLatency + WriteLatency =< LockBuffer + Skew[r]`,
- `SameConfig`: replicas accept the same callbacks (a replica that rejects a row
  clears its lease, `repo.rs:375`),
- `SweepsAlone`: rows are managed, or there is one replica (a sweep of another
  replica clears leases, `repo.rs:536`):

* `LeaseSafety` and `DispatchExclusive`: `Spec => []LeaseHeld`, `Spec => []OneCallAtATime`.
  `LeaseHeld` is not inductive: that the lease is unexpired at the write-back
  depends on when every earlier phase began. `LeaseInv` adds, for each phase, that
  its deadline plus those of the phases to come lies within the lease.
* `AckSafety`: `Spec => []AcksBounded`. `AckInv` ties the number of recorded successes
  to `dispatched_at` and `completion_cycles`, in rows and in pending sweeps; it needs
  `LeaseInv`, which says that a request in flight still finds `dispatched_at` empty.
* `Refinement`: `Spec => ImplementsLifecycle`, assuming `NoAbandon` too
  (`abandon_in_flight` is the reason). The refinement mapping reads a delivery's status
  off its row. That each step maps to a step or a stutter needs `LeaseInv`, `AckInv` and
  `AliveInv`: a row that is in flight or being swept is not a dead letter, so that no
  late write revives one.

A larger `WriteLatency` and the two sweeping replicas (see the table above) show that
these conclusions fail without `LeaseCovered` and `SweepsAlone`.

The attempts charged to a row (`AttemptProofs`):

* `DeadLettersJustified`: `Spec => []NoPrematureDeadLetter`, assuming `SweepsAlone`,
  `NoRetry` and `NoAbandon`. The lease is not needed: what a replica has fetched, and
  its own attempt, never exceeds what the row was charged (`CountsAtMostRow`), so a
  decision from a stale count is late, never early.
* `AttemptsLimited`: `Spec => []AttemptsBounded`, assuming `OneReplica`. `BoundInv` says
  that conversely the single dispatcher knows of every attempt that was charged, and that
  a row at its limit is finished or in flight, with room for one attempt per fault.
* `DeadLetterExact`: `Spec => DeadLetterByAttempts`, assuming `OneReplica` and `NoRetry`:
  fetched and charged attempts are equal (`ExactInv`).
* `BackoffKept`: `Spec => BackoffRespected`, assuming `OneReplica`: the time of a row in
  the batch has come and is not put off before its lock (`BackoffInv`).
* `AttemptNumbersRise`: `Spec => RedeliveryRaisesAttempt`, assuming `OneReplica`, `NoRetry`
  and `AllManaged`: the latest number sent is at most the number charged and, until the
  next call, at most the number fetched (`SentInv`).

The table above has traces without these assumptions: two replicas break the second to
fourth, retries beside two replicas the first, external rows the last.

### Scheduling, retention and the loop

* `SchedulerProofs!SchedulerTypeCorrect`: `Spec => []TypeOK`, without further assumptions.
  `TableInv` adds that rows belong to events that are there and that a batch being
  written is not empty, so that the cursor always has an event to move to.
* `SchedulerProofs!NothingSkipped`: `Spec => []NoEventSkipped`, assuming `CommitInOrder`
  and `RescanFrom \subseteq {0}` (a rescan starts before the first event).
  `NoEventSkipped` speaks of cursors, but a cursor is recovered from the row
  inserted last. `SkipInv` therefore says the same of every row, that all visible events
  before its own have theirs, and its own too, as one INSERT writes them (`RowsInv`);
  that a fetched batch leaves no gap after the cursor (`ProcOK`); and that no event can
  still become visible behind one that is (`CommitInv`).
* `SchedulerProofs!PendingRowsSurvive`: `Spec => RetentionSparesPending`, assuming
  `LongWindow`. What a running retention statement has selected stays scheduled, and its
  rows stay terminal except those in `revived` (`RetentionInv`). The order of commits, the
  start of rescans and what operators do does not matter.
* `WakeLoopProofs!WakeTypeCorrect` and `ReadinessSound`: `Spec => []TypeOK`,
  `Spec => []ReadyFollowsLoop`, for every `poll_interval` and length of a cycle.
  `WakeInv` relates the age of `last_cycle_at` to the sleep and the cycle under way: it is
  at most their sum while no error intervenes (`Punctual`), and at least the time the
  cycle has taken (`BusySinceCycle`).

### Callbacks and requests

`ExpansionProofs`, for arrays of any length, with any elements, settings and keys.
`ExpansionInv` is one invariant for all of them: `RowsInv` says that rows are written
once, one per name, each for an element of that name, and cover every element;
`WireInv` that a request in flight belongs to a pending row, is signed with the key
its element names, and carries an answer that is true of the receiver.

* `ExpansionTypeCorrect`, `LimitsHold`, `NoCallbackLost`, `LookupSound`,
  `VerificationExact`, `DispatchIsAcceptance`: `TypeOK`, `TargetWithinLimits`,
  `RowPerCallback`, `LookupFindsOwn`, `VerifiesExactly` and `DispatchedWasAccepted` are
  invariants.
  `LookupFindsOwn` is about the configuration the event was scheduled with, and excepts a
  callback behind a rejected namesake.
* `ValidationExact` and `OnlyAllowedSent`: `Spec => []AcceptsExactly` and
  `Spec => SentIsAllowed`. `AcceptsExactly` compares the ordered checks with `WellFormed`,
  which is defined without them: private addresses are ranges of octets, local names end
  in a reserved suffix before any trailing dots, a header name is visible ASCII without
  delimiters. The lemmas `Ipv4Value`, `Ipv6Value`, `DomainValue` and `HeaderValue`
  relate the two.

### The process

`ProcessProofs`, for any processes, versions, command lines and environments.

* `ProcessTypeCorrect`, `ServersAreWhole`, `ExitsAreClean`, `SchemasAreComplete` and
  `DowngradeGuarded`: `TypeOK`, `ServesWhole`, `CleanExit`, `SchemaComplete` and
  `NeverServesAhead` are invariants. `ProcessInv` adds what each phase hands to the next:
  the configuration passed its checks (so the admin address parses and its task cannot
  panic), the schema only grows, only a process that migrates holds the lock, the workers
  that cannot panic run until the token is cancelled, and an exit code of 0 belongs to a process
  that is down. `LockInv` adds that the lock has one holder.
* `StartsAsMeant`: `Spec => []StartsExactly`, assuming `Labelled`. `Settings` says without
  any merging what the six sources of `AppConfig::load` amount to: each setting
  has the value of the highest source that gives it, a signing key that of the highest
  source that gives that key, and blank credential variables do not count. `Labelled`
  says that an environment is called sound when those settings, over the defaults, pass
  the checks. `MergedIsEffective` proves that merging any number of sources in their
  order yields just that. `Labelled` holds of all environments of the `process` run.
* `RunsWithinLimits`: a process past its start-up checks runs with positive attempts,
  cycles, timeouts, lock buffer, batch size and backoff entries, within the limits of
  `config.rs`: what `DispatchAssumption` and `SchedulerAssumption` assume of those
  constants. It also has a connection for every delivery in flight, if
  `dispatch_concurrency` is below 2^32 (`config.rs:550`).

### The admin API

`AdminProofs`, for tables of any size, any requests and any changes between two
statements.

* `PagesListed`: `Spec => []PagesComplete`. The pages so far descend to the cursor, and
  what was listed all the time and lies above the cursor is on one of them (`PagesOK`).
* `AnswersSound`: `Spec => []AnswersFit`. What a request has seen is still there or went
  with its event (`AnswerOK`); it uses the foreign key, a delivery is deleted with its
  event only (`Sound`).
* `StatsSound`: `Spec => []StatsAgree`. Until a row changes, the totals of the first
  statements and the groups of the last count the same table (`StatsInv`). That the
  totals are then the sums over the callbacks is `TotalsAreSums`.
* `GaugesSound`: `Spec => []GaugesFresh`. A gauge that is not of the last fetch is unset or
  zero (`GaugesInv`).

### Sums, merges and orders of any size

No induction theorem of the library can be applied to a given property. Where a
proof needs induction over the size of a set or a sequence (a sum over groups is the size
of their union, a merge of sources, the first event of a batch, the next page), it
takes the least counterexample instead, which exists as the order of the naturals is well
founded (`HasLeast`, from the library's `WFMin`), and refutes it by the one before.

### Only model-checked

* All liveness: `EventuallyScheduled`, `BacklogDrains`, `HungSwept`, `ShutdownCompletes`,
  `StopsOnceCancelled`. They rest on fairness and ENABLED, which the prover does not
  handle.
* That each environment of the `process` run is sound or not as its label says.
* The behaviours in "Where code and documentation disagree", which are single traces.

## Not modelled

* Logging, counters and histograms, among them the ages sampled by
  `sample_external_pending_ages` and retention's gauge `oldest_terminal_event_age`:
  nothing in the program reads them back. `init_tracing` is the provider's state only.
* Retention's two windows: an age is a nondeterministic choice, which covers every
  pair of windows and does not tell them apart.
* Characters: callback names and secrets are classes of texts, and a header is the set of
  bytes that occur in it, so the code's loops over characters are taken as the sets they
  accept.
* A retention window is a `u64` of days that the code casts to `i64`; values of 2^63 and
  more, which wrap, are not explored.
* The wire: TLS, connections, HTTP framing and the bytes of HMAC and Base64 belong to
  libraries. Indexes and descriptive columns of the schema have no behaviour here.
* A sweep uses the same `max_completion_cycles` for all rows.
* The tests inside the source files and their fakes.

## Possible extensions

1. Models: retention with its two windows and dispatch in one module; a composition of
   `Scheduler` and `Dispatch` for end-to-end delivery.
2. Proofs: `AttemptsBounded` for several replicas, with a bound that counts the batches
   that were stale; the liveness properties, with a prover that handles fairness.
