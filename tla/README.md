# A TLA+ model of pgspawn

pgspawn is a job queue for Rust on PostgreSQL: callers insert rows into
`pgspawn.jobs`, worker processes claim them with `FOR UPDATE SKIP LOCKED`, run a
handler and record the outcome.  This directory models it, checks the models with TLC
on small instances and proves their main invariants with TLAPS.

Source paths below are relative to the repository (`src/queue.rs` is the file of
the crate).  `PROJECT.json` maps every definition to the lines it models, and lists
the hazards of the code with the properties that would catch each of them.

## Inventory

| Component | State | Operations | Interacts through |
| --- | --- | --- | --- |
| Jobs table (`migrations/0001_init.sql`, `src/job.rs`) | rows; two partial unique indexes: one running job per named queue, one unfinished job per key | the statements of `src/queue.rs` | every other part |
| Queue API (`src/queue.rs`) | none | enqueue (single, batch, in the caller's transaction), cancel, retry, permanently_fail, complete, reschedule, prune_finished, force_unlock_worker; get, recent, workers and counts read | SQL |
| Claim loops (`src/worker.rs`) | lock owner `worker_id:index:uuid`, the claimed job | claim_next, run the handler, renew_lock, complete_locked, fail_locked | SQL, the shutdown flag, the local `Notify` |
| Worker lifecycle (`src/worker.rs`) | a set of tasks, the shutdown flag | validate, register, spawn, drain for the grace period, abort, release, deregister | SQL, tasks |
| Heartbeat and recovery | `pgspawn.workers` | register_worker, recover_dead_workers, recover_stale, prune_finished | SQL, timers |
| Wakeups | `Notify`, `LISTEN` connection, poll deadline | notify triggers, listener loop, next_runnable_in, idle_wait_duration | NOTIFY, timers |
| Cron (`src/worker.rs`, `src/queue.rs`) | `pgspawn.crons` | enqueue_due_crons, try_enqueue_cron | SQL, clocks |
| Schedules (`src/schedule.rs`) | none | latest and next daily, monthly and interval occurrence | - |
| Job summaries (`src/worker.rs`) | counters per job name | record_job_*, drain_job_summaries | a mutex |
| Registry and startup (`src/registry.rs`, `src/worker.rs`) | the handlers and cron list of an application | register, build, with_crons, the checks of run_until_shutdown | - |
| Environments, row decoding, migrations runner | none | parsing, formatting, DDL | - |

What is hard about it: everything happens concurrently and meets only in single SQL
statements.  Between a claim and its report the lock can be taken away (a late
heartbeat, a stale lock, an operator, a colleague with the same `worker_id`) while
the handler keeps running; a loop can die with a statement in flight that
PostgreSQL still executes; the check that a named queue is free reads rows the
claim does not lock.  Whether a lock survives, a sleeper wakes or an occurrence is
met depends on intervals, clocks and failures together.  Batches hold row locks across
statements.

What makes each part correct:

* table and API: status, lock columns and `finished_at` agree; a job key is held by
  one unfinished job; a finished job stays finished unless retried; a batch is atomic;
* claim loops: one running job per named queue; only the holder of a lock settles
  the job, and settles the attempt it ran; a definition does not change under a
  running handler;
* lifecycle: a stopped worker holds no lock; a crash loses no job; what is wrong with
  the definitions shows at startup, everywhere;
* recovery: an orphaned job is eventually queued again, a live job is not taken;
* wakeups: an idle loop misses no notification, and the safety poll bounds the rest;
* cron: each occurrence is enqueued at most once, and not lost between workers;
* schedules: the occurrences are those of the calendar, across transitions;
* summaries: the running gauge is exact, nothing is reported twice.

## Modules

| Module | What it is |
| --- | --- |
| `JobTable` | the rows of `pgspawn.jobs`, and the SET and WHERE clauses of the statements as operators on a row or a table |
| `JobQueue` | Queue API, claim loops, heartbeat, recovery, shutdown and crash, untimed |
| `JobLease` | abstract specification: leases on jobs, taken indivisibly, settled by their holder only |
| `WorkerLease` | heartbeats, renewals, recovery rounds and the grace period against `stale_after`, with time |
| `Wakeup` | how idle loops learn of work, with time and faults |
| `Cron` | the cron loops of several workers against `pgspawn.crons`; extends `JobTable` |
| `Schedule` | occurrences as pure operators |
| `ScheduleClock` | the schedules that can be made, and a clock that reads them against a reference definition |
| `EnqueueMany` | abstract specification: atomic batches of single enqueues; extends `JobTable` |
| `BatchEnqueue` | `enqueue_many` and `enqueue_many_in` row by row, with locks and errors; extends `JobTable` |
| `JobSummary` | the lifecycle counters and the summary loop |
| `WorkerStartup` | registry, cron list, and the validation of every process of an application |
| `JobQueueProofs`, `JobLeaseProofs`, `WorkerLeaseProofs`, `WakeupProofs`, `CronProofs`, `JobSummaryProofs`, `BatchEnqueueProofs`, `DefinitionProofs` | inductive invariants and theorems |
| `MCJobQueue`, `MCWorkerLease`, `MCWakeup`, `MCCron`, `MCBatchEnqueue`, `MCJobSummary`, `MCDefinitions` | instances for TLC; `MCCron` gives `Cron` the intervals of `Schedule`, `MCDefinitions` puts `WorkerStartup` and `ScheduleClock` into one instance |

Each module looks at one question and reduces the others to what it needs of them:
`JobQueue` lets timers fire at any time, `WorkerLease` says when they do; a row is all
its columns in `JobTable` and three fields in `WorkerLease`.  A definition with the
comment "Mutant" is not part of a model: it is another definition changed the way a
bug would change the code, and `PROJECT.json` names the property it breaks.

### JobQueue

`jobs` is a function from the ids of the existing rows to rows; `nextId` the next
id, so that ids are ordered like `created_at`.  `heartbeat[w]` is the
`last_heartbeat_at` of worker id `w`, `NULL` when it has no row.  A process `p` is
one call of `Worker::run_until_shutdown`; `phase[p]` says where it is and
`result[p]` whether it has an error to return.  A claim loop is identified with its
lock owner: `Home[l]` is its process and `IdOf[Home[l]]` the prefix of its
`locked_by`.  `loop[l]` says what the loop, or the last statement it sent, is doing,
with the job, attempt and definition it read when it claimed; `live` holds the
loops whose task still runs.  `now` is the clock of the database.

The columns that one CASE of the upsert overwrites together (name, payload,
queue_name, priority, max_attempts) are one record, `def`.  Error texts,
started_at, queued_at and updated_at guard nothing and are left out.

Every SQL statement is one step, because each is a single autocommitted statement
under READ COMMITTED, with two exceptions.  `claim_next` is two steps
(`ClaimSelect`, `ClaimCommit`): its subquery reads rows that are not locked, and
the unique index decides at the UPDATE.  While a claim is between its two steps its
row is locked, and statements that want to change it wait (`RowLocked`).  And a
statement is separated from the loop that sent it: aborting or crashing a process
ends handlers, but a `claim_next`, `complete_locked` or `fail_locked` already sent
may still execute or be lost (`EndLoops`, `ClaimCommit` with a loop that is not
`live`, `ReportFails`).  The answer of a committed claim may be lost too, which
leaves a running job nobody works on.

| Code | Actions |
| --- | --- |
| `Queue` | `Enqueue`, `Cancel`, `Retry`, `PermanentlyFail`, `Complete`, `Reschedule`, `PruneFinished`, `ForceUnlockWorker` |
| `run_claim_loop`, `claim_next` | `AskForJob`, `ClaimSelect`, `ClaimCommit`, `ClaimNothing`, `LoopExits` |
| `run_claimed_job` | `HandlerReturns`, `RenewLock`, `CompleteLocked`, `FailLocked`, `ReportFails` |
| `run_until_shutdown` | `Start`, `RequestShutdown`, `Drained`, `AbortTasks`, `ReleaseWorkerJobs`, `DeregisterWorker` |
| `run_heartbeat_loop`, `run_recovery_loop` | `Heartbeat`, `RecoverDeadWorkers`, `RecoverStale` |
| environment | `Tick`, `Crash` |

At a shutdown request the heartbeat and recovery loops stop sleeping but finish what they
are at, so `Heartbeat`, `RecoverDeadWorkers` and `RecoverStale` may still come while the
process drains (`Supervised`).

A statement that matches no row, and one that fails, changes nothing; where the
caller does nothing else either, it is a stuttering step and has no action.  Timers
are not modelled here, so the safety properties hold for every setting of the
intervals, sensible or not.

### WorkerLease

Rows have ages (`worker[p]` of the heartbeat, `job[j].age` of `locked_at`); every loop has a
timer that counts down to its next statement, which is on its way while the timer is
between 0 and `-Latency`.  What it does and what its sender learns are apart in time, as in
the code: its `now()` is that of some tick since it was sent (`Ago`), its effect comes at
any tick until the timer is at `-Latency`, and the next sleep starts at the answer, which
may take the rest of the time (`Rest`).  So two renewals may be an interval and two
latencies apart.  A heartbeat, a renewal and `recover_stale` fail at most `MaxMisses` times
in a row; `recover_dead_workers`, a claim, a report, a release and a deregistration may
fail always, and a claim's answer may be lost.  `Tick` ages everything, and waits while
something is overdue (`Urgent`).

| Code | Actions |
| --- | --- |
| `run_until_shutdown` | `Start`, `RequestShutdown`, `EndDrain`, `LoopFails`, `ReleaseWorkerJobs`, `DeregisterWorker` |
| `run_heartbeat_loop` | `Heartbeat` |
| `run_recovery_loop` | `RecoverDeadWorkers`, `RecoverStale`, `PruneFinished` |
| `run_claim_loop` | `AskForJob`, `Claim`, `ClaimNothing` |
| `run_claimed_job` | `RenewLock`, `HandlerReturns`, `Report` |
| environment | `Tick`, `Crash` |

A shutdown ends the sleeps of the heartbeat and recovery loops; a heartbeat or a round in
progress is finished, and a `claim_next` on its way may still start a handler while the
process drains.  Tasks that are aborted or lost leave what they have sent on its way
(`EndTasks`): a renewal may still set `locked_at`, a claim may still lock a job, after the
release too.  A process is started again, under its worker id, when nothing it has sent is
on its way.  `validate` is the part of `WorkerConfig::validate` on these intervals.

`orphaned` and `missed` are there for the properties: how long a running job has been
without a handler while a process of `Watched` stayed up, and how often in a row its
`recover_stale` has failed.  `Budget` is the longest time from the `now()` of a heartbeat or
renewal to the next one being sent, so `TimingAssumption` has a latency on top of it, for
the next one's effect; `RecoveryRound` has the answers to four statements; `OrphanBound` is
`stale_after`, a latency for the last renewal, and a round for each failure and for the
success.  `orphaned` stops counting one beyond that bound.

### Wakeup

`job[j]` is a row with the ticks to its `run_at`; `held` the queued rows a caller's open
transaction has locked; `loop[l]` a claim loop with the timer of its statement or sleep
and `woken`, whether its `Notified` future has fired; `pending` a notification between
PostgreSQL and `recv`; `listener` the listener loop with its backoff.  `blind`, `news`
and `deaf` record for the property whether the wait was chosen without a deadline,
whether something that notifies has committed since the claim, and whether that
notification was lost; `neglect` and `setbacks` how long claimable work has been left
beside an idle loop.

`BeginClaim` registers the `Notified`, `ClaimSelect`, `ClaimUpdate`, `ClaimNone`,
`ClaimLosesRace` and `ClaimErr` are `claim_next`, `Inspect` and `InspectErr` are
`next_runnable_in` with `idle_wait_duration`, and `Wake` is the end of the `select!`.
`Connect`, `ConnectFails`, `ListenerBreaks`, `ReconnectTimer` and `Deliver` are the
listener loop; `ListenerBlips` is the reconnection inside `PgListener::recv`.
`Insert`, `Reschedule`, `CallerLocks`, `CallerEnds`, `RemoteClaim` and `RemoteReport` are
the rest of the world, firing the two triggers as the migration defines them.
`notify_waiters` wakes exactly the loops whose future exists.

### Cron

One cron definition; `cron` is its row, `jobs` its jobs, `worker[w]` the cron loop of a
worker whose clock is `Skew[w]` ahead of the database's.  `ReadClock` reads the clock
and computes `due_at`; `Send` starts the statement of `try_enqueue_cron`, which looks
in its snapshot whether the definition existed; `Commit` resolves the conflict on the
current row, claims the occurrence and inserts the job, in one statement; `Fail` is its
failure.  A worker may stop with its statement on its way (`Stop`).  The schedule is the
pair of operators `LatestDue` and `NextAfter`.  `first` and `enqueued` are kept for the
properties.  Definitions share nothing but the clock reading, so one is enough.

### Schedule

`latest_due_at` and `next_after` are the search loops over 8 and 370 days, with
`at_time_zone` the compatible disambiguation of `jiff` in a zone with one transition, a
gap or a fold.  Intervals divide seconds since the epoch, at least 1; `as_second`, as in
`jiff`, truncates toward zero, so a fraction of a second before the epoch counts as the
second that follows it, and the latest occurrence may lie in the future by that fraction.  `ScheduleClock`
has the schedules that the constructors accept and a clock over all instants between two
bounds; at each, `due` and what follows it are compared with `Occurrences`, the set of
instants that the calendar or the interval gives.

### BatchEnqueue

`caller[c]` is a transaction: the rows it `wrote`, the rows `saved` at the savepoint of
`enqueue_many_in`, the indices of the requests `left`, `ids_by_job_key`, and the calls it
has `answered`.  `Turn` is the index whose row comes next: the statements in the order of
the modes, each with its rows in the order of the batch.  A row written and a key inserted stay locked until the
transaction ends; `Upsert` waits while another transaction holds its key or row
(`WaitsFor`), and `ResolveDeadlock` fails one of a cycle.  `Fail` rolls back to the
savepoint, or everything for `enqueue_many`; `Rollback` covers a dropped future and a
caller who gives up.  Workers take and finish the same jobs meanwhile.

### JobSummary and WorkerStartup

A record under the mutex is a step, and so is a drain; an execution spans several, and
`loop[l].carried` says that an emission fell into it.  A loop reads the shutdown flag before
it sends `claim_next` (`AskForJob`), so a claim in flight still starts a handler after the
request.  `short` and `reported` sum what happened and what was logged, `shown` is the
running gauge of the last line.  A window in which nothing started and after which nothing
runs is dropped, with the endings counted in it: `EndingsFollowFromLog` says that they
follow from the lines around it all the same.  In `WorkerStartup` an application registers names and
attaches schedules, then each process `Run`s: the checks in the order of the code, then
the filter by its environment.  `enabled` holds positions in the list, so two equal
schedules are two.

### What the models assume

* A statement that returned an error to a live loop has no effect afterwards.
* A handler stops with its loop.  In the code the abort takes effect at the
  handler's next await; what it does until then is outside the tables.
* `length(worker_id)` prefixes match by worker id.  An id that extends another one
  by a colon (`a` and `a:b`) would match more; give such processes one `IdOf`.
* Rows of `JobQueue` never have equal `created_at`; those of a batch do, and a tie then
  only decides which job is claimed first.
* In `Wakeup` and `WorkerLease` a statement takes at most a bounded time, of which an answer
  and an effect may need different parts in `WorkerLease`; local
  computation and the delivery of a notification take none.  In `Cron` the clocks
  differ by a constant.
* PostgreSQL: a claim skips locked rows, an upsert waits for them, a deadlock is
  resolved by failing a statement, a NOTIFY is sent at commit to who listens then.

## Runs

| Run | Instance | Shows |
| --- | --- | --- |
| `queue_api` | 2 rows, 1 key, 1 process with 2 loops, the whole API | rows stay consistent, the key is unique, finished jobs stay finished |
| `queue_fleet` | 2 jobs of one named queue, 2 processes with 1 loop each, all lifecycle steps | named queue exclusive, reports match attempts, execution is serial, a stopped worker leaves late claims only, the leases are implemented |
| `queue_shared_id` | 1 keyed job, everything at once, both processes under one worker_id | rows consistent, reports match, leases implemented |
| `lease` | 2 processes, the first with a claim loop, 1 job; intervals, latency and grace period 1, one failure in a row, `stale_after` 5 = 2 · (1 + 1) + 1 | a live handler keeps its lock; an orphan is queued again, within a bound and in the end |
| `wakeup` | 1 loop, 2 jobs of a named queue and 1 outside, another process, a caller's transaction, one fault of any kind | nothing is missed, the poll bounds what is, every job is taken up |
| `cron` | 2 workers two ticks apart, interval 4, poll 1, clock to 10; no key, a deduplicating key, a replacing key | once per occurrence, none lost, none from before, every enqueue moves the row forward |
| `batch` | 1 `enqueue_many` and 1 transaction with 2 `enqueue_many_in`, 2 keys in crossing orders, all modes | batches are atomic, every call ends |
| `summary` | 3 loops, 2 names, 2 executions of each | gauge exact, starts reported once, short executions reported, dropped endings follow from the log |
| `definitions` | 4 processes, 2 handlers, 2 schedules; and 16 calendar schedules × 28 zones and 7 intervals over two weeks around the epoch | one verdict everywhere, none skipped, one row each; occurrences are the reference's |
| `attempts_beyond_max`, `lock_after_stop`, `wakeup_deadline` | small | violated: see below |

Bounds.

* Queue runs: two loops are what a race needs, and two rows what a key or a named queue
  needs to be contended.  The clock runs from 0 to 1 with `StaleAfter = Retain = 0`: a
  lock, heartbeat or finished row of tick 0 is stale at tick 1, one of tick 1 is not, so
  both answers of every comparison occur.  `MaxAttempt = 2` lets a job fail once with and
  once without a retry left and be claimed again after a recovery.  Interchangeable
  processes and loops are identified by symmetry; these are safety properties, for which
  that is sound.
* `lease`: `StaleAfter` is exactly the bound of `TimingAssumption`, with its latency: at 4
  TLC finds a handler without its lock, by a late heartbeat and by a late renewal.  In a
  behaviour one kind of loop is `troubled`: only the heartbeats and the drain of the first
  process, the statements of its claim loop, or the recovery rounds of the second take time
  and fail, because each bound is about one of them; the others are answered at once.  The
  second process is up first and stays up, which is what the bound and `NoOrphanForever`
  suppose of one process (`Watched`); its heartbeats, always in time, come first in their
  tick.  The first process stops, crashes and starts again at any time.
  An orphan is seen to wait up to two ticks less than `OrphanBound`, which adds what the
  kinds of loop may do at worst.  Ages stop counting at 7, which even a statement begun a
  tick ago finds stale; every other counter is bounded by its timer or its bound.
* `wakeup`: the poll (2) is longer than the retry (1); a job becomes due one tick ahead,
  and a statement takes up to one, so before, during or after an `Inspect`.  One job is touched once more (requeued, rescheduled or locked).  One fault in a run; more
  would only repeat the sleep that `setbacks` counts.  That more loops change nothing
  for `NoLostWakeup` is proved.
* `cron`: the interval equals `Delay + MaxSkew` = 4 exactly, the tightest schedule for which
  no occurrence may be lost.  Ten ticks see occurrences 0, 4 and 8, and the deadline of the second;
  `MaxJobs = 3` is one job each.  The steady worker is behind, the other ahead and
  coming and going.
* `batch`: the crossing batches deadlock; the table has a job on one key that workers
  take and finish; a repeated key and an empty batch are refused.
* `definitions`: weeks, months and the search bounds are the real ones, a day has four
  ticks; the clock runs from before the end of February of a leap year to after the epoch,
  which the instance puts on the second of March, through a transition at each tick of that
  day, by a tick, half a day or a whole day.  Intervals count half seconds, so the instants
  before the epoch that `as_second` rounds up are among those the clock visits.
* The runs with `CHECK_DEADLOCK FALSE` stop by themselves: ids, calls or executions are
  used up, or the clock is at its end.  `wakeup` and `lease` check deadlock: time never
  stops there.

### Fairness

* `Wakeup!Fairness`: time passes, tokio schedules each claim loop and the listener (one
  `WF` per task: its next step is some step of it, a failure included), and whoever holds
  a job or a row lets go of it, without which nothing could be promised.  Faults and
  callers' requests are not forced.  `EveryJobRuns` does not need strong fairness: a job
  that is locked, outrun or rescheduled is bounded by `MaxTouches`.
* `WorkerLease!Fairness`: time passes (strongly fair, because a statement that is overdue
  disables `Tick` until it executes), what has been sent executes or fails, and a drain
  ends.  Nothing is said of `Start`, `AskForJob`, `HandlerReturns`, `RequestShutdown` or
  `Crash`: a handler may run forever, and `NoOrphanForever` promises something only if a
  process stays up.
* `BatchEnqueue!Fairness`: a statement that need not wait executes, PostgreSQL's
  deadlock detector runs, and a transaction whose calls have returned is ended by its
  owner.  No fairness of `Begin`, `Fail` or the workers.

### Disagreements with the documentation

* `attempts_beyond_max`: `README.md:252` says "`max_attempts` includes the initial
  execution attempt."  Only `fail_locked` looks at `max_attempts`.  A job whose
  worker is lost, aborted or forced to unlock is requeued and claimed again however
  often it has been tried, so a job that takes its process down is never given up.
* `lock_after_stop`: `README.md:218` describes awaiting the worker as "Wait for the
  worker to finish in-flight jobs and release its locks."  When the grace period
  ends while a `claim_next` is executing, the loop is aborted,
  `release_worker_jobs` runs on another connection and sees nothing, and then the
  claim commits.  The worker has returned `Ok`; the job stays locked until
  `recover_stale` of another worker finds it.  `OnlyLateClaimsLeft` is what remains
  true: one such job for each claim loop at most, and nothing it had claimed before.
* `wakeup_deadline`: `README.md:508` says a loop "sleeps until that deadline or
  `poll_interval` ..., whichever comes first", the interval covering outages "without
  delaying known scheduled work."  A job that becomes due after `claim_next` and before
  `next_runnable_in` gives a deadline of zero, which `idle_wait_duration` replaces by the
  whole `poll_interval`; nothing notifies, and the job waits that long.

Three more that the models show without a run of their own, as conditions that the
properties needed:

* `README.md:512` describes a reconnection after which all claim loops are woken.
  `PgListener::recv` replaces a lost connection without returning, so `worker.rs:584`
  never sees it and wakes nobody: `NoLostWakeup` excepts such loops (`deaf`), and
  `PollBoundsDelay` covers them.
* `README.md:488` says that a handler "that returns before the grace period elapses
  completes its job normally".  Heartbeats end when the drain begins, and
  `WorkerConfig::validate` does not relate `shutdown_grace_period` to `stale_after`: with a
  longer grace period another worker requeues a draining handler's job.
  The second conjunct of `TimingAssumption`, a heartbeat's `Budget` and the grace period
  within `stale_after`, is there for this.
* `src/schedule.rs:167` says the worker warns when a schedule is capped by the poll.  The
  test at `worker.rs:325` is `every < cron_poll_interval`; an interval equal to the poll,
  or somewhat above it, loses occurrences too, because the polls are the interval plus a
  statement apart.  `NoOccurrenceLost` asks for `Delay + MaxSkew`.

## Proofs

For every set of processes, loops, jobs, ids, keys and definitions, and every value of
the intervals and bounds:

| Module | Theorem | Statement |
| --- | --- | --- |
| `JobQueueProofs` | `TypeCorrect` | `Spec => []TypeOK` |
| | `ConsistentRows` | `Spec => []RowsConsistent` |
| | `UniqueKeys` | `Spec => []ActiveKeyUnique` |
| | `ExclusiveQueues` | `Spec => []NamedQueueExclusive` |
| | `ReportsMatch` | `Spec => []LockNamesThisAttempt` |
| | `Serial` | `Spec => []SerialExecution` |
| | `FinishedForGood` | `Spec => FinishedStaysFinished` |
| | `OnlyLateClaims` | `Spec => []OnlyLateClaimsLeft` |
| `JobLeaseProofs` | `QueueImplementsLease` | `Spec => ImplementsLease` |
| `WorkerLeaseProofs` | `TypeCorrect` | `Spec => []TypeOK` |
| | `LiveHandlers` | `TimingAssumption => (Spec => []LiveHandlerHoldsLock)` |
| | `Recovered` | `Spec => []OrphanRecoveredInTime` |
| `WakeupProofs` | `TypeCorrect` | `Spec => []TypeOK` |
| | `NothingMissed` | `Spec => []NoLostWakeup` |
| | `DelayBounded` | `Spec => []PollBoundsDelay` |
| `CronProofs` | `TypeCorrect` | `Spec => []TypeOK` |
| | `Once` | `Spec => []OncePerOccurrence` |
| | `Advances` | `Spec => CronAdvances` |
| | `NoneLost` | `Steady # {} => (Spec => []NoOccurrenceLost)` |
| | `NothingOld` | `Spec => []NothingOldEnqueued` |
| `BatchEnqueueProofs` | `TypesCorrect` | `Spec => []TypeOK` |
| | `BatchesAtomic` | `Spec => AtomicBatches` |
| `JobSummaryProofs` | `TypeCorrect` | `Spec => []TypeOK` |
| | `Gauge`, `Starts` | `Spec => []GaugeIsExecutions`, `[]EveryStartReported` |
| | `ShortJobs`, `Endings` | `Spec => []ShortJobsReported`, `[]EndingsFollowFromLog` |
| `DefinitionProofs` | `TypeCorrect` | `Spec => []TypeOK` |
| | `SameVerdicts`, `NoneSkipped`, `OneRow` | `Spec => []SameVerdictEverywhere`, `[]NeverSkipped`, `[]OneRowPerSchedule` |
| | `LatestGreatest`, `NextLeast`, `TimesKept` | `ClockSpec => []LatestIsGreatest`, `[]NextIsLeast`, `[]LocalTimesKept` |
| | `ScheduleFits` | what `Cron!ScheduleAssumption` says, of any schedule in a zone that never sets the local date back, for an interval at instants that `as_second` does not round up |

Assumptions.  The named `ASSUME`s give the constants their types, and TLC evaluates them
on every run.  These say more:

* `ValidConfig` is `WorkerConfig::validate`; `TimingAssumption`, a hypothesis of its
  theorem, is what an operator has to configure, given how long statements take.
* `Cron!ScheduleAssumption`: `LatestDue(t)` is not after `t`, an occurrence that is not
  after `t` is not after `LatestDue(t)`, and `NextAfter` skips none.  `ScheduleFits` proves
  it of every schedule and all instants of the calendar, provided that no transition sets
  the local date back, and for an interval that the instants are not fractions of a second
  before the epoch.  While a fold across midnight has done so, `latest_due_at` may
  answer an earlier occurrence than before (`LatestIsGreatest` excepts those days, and the
  second before an interval's occurrence that is not after the epoch); the statement
  does not claim one that `last_run_at` has reached, but `Cron`'s theorems do not speak of
  those days.  `ForwardAdvances` has the zones, UTC among them, where this never happens.
* `BatchAssumption`: a table that batches find has one unfinished job per key, which is
  the unique index.
* `ZonesAssumption`: a transition moves the offset by a day at most.  `CalendarAssumption`:
  each of the days 1 to 28 comes within 31 days.  `ClockAssumption`: the clock stays 40 days
  after the beginning of the calendar and 80 before its end (`Date::MIN` and `MAX`), where
  the code would run out of dates.

The inductive invariants, named `IInv` where nothing else is said:

* `JobQueueProofs`: the properties together and `RowLocksHeld`: the row a claim in
  progress has locked is still queued and locked once, which the UPDATE of `claim_next`
  relies on, for its WHERE clause names only the id.  `LockNamesThisAttempt` needs
  `RowsConsistent` (a row with an owner is running, so no upsert, cancellation or other
  claim touches it), and `RowsConsistent` needs `RowLocksHeld` for the claim.  Most
  statements *settle* rows (`Settles`): they activate nothing, leave finished rows alone,
  and a row they leave running keeps its owner, attempt and definition.
  `SettlingPreserves` shows once that such a step preserves `IInv`; for each of these
  actions only the shape has to be shown (`OneRow`, `RequeueRows`, `DeleteRows`,
  `NoRow`).  The steps that bring a row into play have proofs of their own.
  `OnlyLateClaims` rests on `IInv` and `Late`: the loops of a process that cleans up are
  gone, and once its release has succeeded each holds one row at most, and none while its
  claim is still to commit.  `TableStep` says of every step, by the same shapes, that only
  a `ClaimCommit` gives a loop a row (`Unlocking` otherwise), and for a loop that is gone
  that one is its last.
* `JobLeaseProofs` rests on the same invariant.  The table determines the state, queue,
  key and holder of a lease; what a loop executes is its work.  A statement on one row
  changes one lease (`OneLease`), one on many rows revokes or prunes them together.
  `ClaimSelect` is invisible and `ClaimCommit` is the whole `Grant`, which needs
  `RowLocksHeld`: the row is still waiting when it is granted.
* `WorkerLeaseProofs`: the age of a row and the time left until the next attempt is sent add
  up to no more than the failures so far have used up (`Budget`, in `Beats` and `Fresh`);
  timers go down to `-Latency`, so the row is at most a latency older when that attempt is
  done.  While a process drains, the age of its heartbeat and what is left of the grace
  period add up to no more than the budget and the whole of it (`Drains`).  A row is
  therefore never older than `stale_after` while its owner lives, whatever earlier tick a
  recovery statement's `now()` is of, so neither `Silent` nor `Stale` holds it.
  For `Recovered` (`Orphans`): what `orphaned` counts is covered by the age of the lock until
  that is stale for the next `recover_stale` (`Young`), and from then on by the rounds of the
  recovery loop, of which each failure uses up one (`Counted`, `Until`; between two
  statements of a round there is at most an answer, `Resting`).  A renewal that outlives its
  process makes the lock young again, but no later than a latency after (`Late`), and a job
  that a loop executes has not been an orphan since its claim.  No timing assumption is
  needed.
* `WakeupProofs`: a loop that has claimed or selected a job is its only owner (`Owns`), and
  (`Informed`) from its claim to the end of its wait either it has been woken, or what was
  committed since is on its way or lost, or its wait ends no later than the first
  runnable job becomes due.  For `DelayBounded` (`Timely`): while jobs are neglected, some
  idle loop is so close to its next claim (`TimeLeft`) that what has been neglected and what
  is left to it fit into the rounds that the setbacks so far account for.
* `CronProofs`: every job is at or before the occurrence claimed last, and one at most
  holds the key (`Rows`); a job's `run_at` is set by the step that claims its occurrence
  (`Given`), which is what `Advances` adds to the row never going back; what a statement carries was due on some clock (`Statement`).
  For `NoneLost`, the steady worker is on its way to each occurrence until it is claimed
  (`OnTime`, with a budget for the failures it may still meet), no clock shows the next
  one before it arrives, and what is passed has been enqueued (`Kept`).  For `NothingOld`,
  what a statement carries was the latest occurrence of a recent instant (`Prompt`), and the
  row was dated soon after an instant whose latest occurrence is claimed (`Dated`): what is
  claimed later was due after that.  The bound is on `created_at`, which is the now() of
  the recording statement.  On the time of its commit there is none: a worker that is
  stopped leaves its statement behind, and TLC finds the occurrence between the two in an
  instance with a short interval.
* `BatchEnqueueProofs`: what a transaction has written is what its answered calls and the
  requests it has done so far make of the committed rows it has locked (`Answers`,
  `Inserts`, `Enqueued`), and another one's rows, keys and ids are apart from it (`Apart`).
  Since the keys of a batch are distinct, its requests commute: `Enqueued` says what each row
  becomes in no order at all, so the order of the modes and that of the requests give the
  same table.  Locks keep the workers from the rows, so at the commit the calls may as well
  be applied to the table of that moment, which is what `EnqueueMany` does.
* `JobSummaryProofs`: an execution no emission has seen was counted in the current window,
  so a window without a start holds no short ending (`StartInWindow`, `ShortInWindow`).
  `Endings` needs only that a dropped window leaves nothing running.
* `DefinitionProofs`: a process that has run has the verdict and the schedules that the
  definitions give it, and those are frozen from the first run on (`Decided`).
  The schedules need no more than that the clock stays in the calendar (`ClockOK`); the work
  is in lemmas about one date.  Later dates are due later, or together (`DatesKeepOrder`);
  two days before today a schedule has been due and two days after it is yet to be
  (`TwoDaysAway`), so seven dates in a row for a weekly and 31 for a monthly schedule
  always have one, and 8 and 370 days are enough (`OnSomeDate`, `LatestSearch`,
  `NextSearch`); a date the clock does not show yet has passed only if the clock was set
  back (`LaterDates`).  Intervals are `Multiples`.

Model-checked only:

* liveness, which is out of the prover's reach: `EveryJobRuns`, `NoOrphanForever`,
  `EveryCallEnds`;
* the violations.

So every safety property that a passing run checks is also a theorem.

## Plan

1. A network between a loop and the database, in which a statement that failed for its
   sender may still execute later.

## Not modelled

* `get`, `recent`, `workers` and `counts` only read.
* `environment.rs`, the enumerations of `job.rs`, row decoding, payload serialisation
  and error formatting keep no state; the environments are a constant of
  `WorkerStartup`, and what a handler's closure does with payloads and errors reaches the
  models as success or failure.
* `db.rs` runs the migrations; a migration in progress beside workers is not modelled.
* A statement that failed for its sender and executes later (`worker.rs:661`), see above.
* Durations in job summaries, logging and tracing.
* `jiff` and its time zone database, beyond one transition at a time.
