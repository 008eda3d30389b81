-------------------------------- MODULE Cron --------------------------------
(***************************************************************************)
(* One cron definition that several worker processes enqueue: run_cron_loop, *)
(* enqueue_due_crons and try_enqueue_cron against pgspawn.crons and        *)
(* pgspawn.jobs.                                                           *)
(*                                                                         *)
(* Every worker reads its own clock, Skew[w] ahead of the database's now.  *)
(* The statement of try_enqueue_cron looks whether the definition existed  *)
(* in the snapshot it starts with, and claims the occurrence in the row as *)
(* it is when the conflict is resolved: two steps.  The schedule enters as *)
(* two operators; the instances use those of module Schedule.              *)
(***************************************************************************)
EXTENDS JobTable

CONSTANTS
    Workers,
    Steady,         \* the workers that are not stopped
    Skew,           \* by how much a worker's clock is ahead (or behind)
    LatestDue(_),   \* CronSchedule::latest_due_at
    NextAfter(_),   \* CronSchedule::next_after
    CronJobs,       \* CronJob: def, key, mode, catch_up
    CronPoll,       \* WorkerConfig::cron_poll_interval
    Latency,        \* bound: how long a statement takes
    MaxMisses,      \* bound: how often in a row it fails
    MaxSkew,        \* bound: on Skew
    MaxJobs,        \* bound: rows ever inserted
    MaxNow          \* bound: the clock

CronRow == [last_run_at : Int, next_run_at : Int, created_at : Nat]

\* What the workers' clocks show.
Clocks == (0 - MaxSkew)..(MaxNow + MaxSkew)

ASSUME CronAssumption ==
    /\ Steady \subseteq Workers
    /\ Skew \in [Workers -> Int] /\ MaxSkew \in Nat
    /\ \A w \in Workers : 0 - MaxSkew <= Skew[w] /\ Skew[w] <= MaxSkew
    /\ CronJobs \subseteq [def : Defs, key : Keys \cup {NULL}, mode : Modes, catch_up : BOOLEAN]
    /\ CronPoll \in Nat \ {0} /\ Latency \in Nat /\ MaxMisses \in Nat
    /\ MaxJobs \in Nat /\ MaxNow \in Nat
    /\ NULL \notin CronRow

\* latest_due_at is the last occurrence that has passed, next_after the one that
\* follows: what module Schedule's operators are checked for.
ASSUME ScheduleAssumption ==
    \A t, u \in Clocks :
        /\ LatestDue(t) \in Int /\ LatestDue(t) <= t
        /\ NextAfter(LatestDue(t)) \in Int
        /\ LatestDue(u) <= t => LatestDue(u) <= LatestDue(t)
        /\ LatestDue(u) = u /\ u < LatestDue(t) => NextAfter(u) <= LatestDue(t)

VARIABLES
    cron_job,  \* the definition, which all workers share
    now,       \* the database clock
    cron,      \* the row of pgspawn.crons, or NULL
    first,     \* when that row was inserted, or NULL
    jobs,      \* pgspawn.jobs: the rows of this definition
    enqueued,  \* the occurrences that were enqueued
    worker     \* per worker: run_cron_loop and its statement

vars == <<cron_job, now, cron, first, jobs, enqueued, worker>>

\* sleeping; due: the clock has been read; sent: the statement has its now() (at) and
\* its snapshot (seen).
Worker == [up : BOOLEAN, pc : {"sleeping", "due", "sent"}, timer : Int,
           due_at : Int, at : Nat, seen : BOOLEAN, misses : Nat]

Down == [up |-> FALSE, pc |-> "sleeping", timer |-> 0,
         due_at |-> 0, at |-> 0, seen |-> FALSE, misses |-> 0]

\* The loop enqueues what is due before it sleeps for the first time.
Up == [Down EXCEPT !.up = TRUE]

Asleep(misses) == [Up EXCEPT !.timer = CronPoll, !.misses = misses]

TypeOK ==
    /\ cron_job \in CronJobs
    /\ now \in Nat
    /\ cron \in CronRow \cup {NULL}
    /\ first \in Nat \cup {NULL} /\ (first = NULL <=> cron = NULL)
    /\ DOMAIN jobs \subseteq 1..MaxJobs
    /\ \A j \in DOMAIN jobs : jobs[j].status \in Statuses /\ jobs[j].run_at \in Int
    /\ enqueued \subseteq Int
    /\ worker \in [Workers -> Worker]

Init ==
    /\ cron_job \in CronJobs
    /\ now = 0
    /\ cron = NULL /\ first = NULL
    /\ jobs = [j \in {} |-> NULL]
    /\ enqueued = {}
    /\ worker = [w \in Workers |-> IF w \in Steady THEN Up ELSE Down]

Start(w) ==
    /\ worker[w] = Down
    /\ worker' = [worker EXCEPT ![w] = Up]
    /\ UNCHANGED <<cron_job, now, cron, first, jobs, enqueued>>

\* Shutdown, abort or crash; a statement on its way may still execute.
Stop(w) ==
    /\ w \notin Steady /\ worker[w].up
    /\ worker' = [worker EXCEPT ![w] = IF @.pc = "sent" THEN [@ EXCEPT !.up = FALSE] ELSE Down]
    /\ UNCHANGED <<cron_job, now, cron, first, jobs, enqueued>>

\* enqueue_due_crons: Timestamp::now() and latest_due_at.
ReadClock(w) ==
    /\ worker[w].up /\ worker[w].pc = "sleeping" /\ worker[w].timer <= 0
    /\ worker' = [worker EXCEPT ![w].pc = "due", ![w].due_at = LatestDue(now + Skew[w])]
    /\ UNCHANGED <<cron_job, now, cron, first, jobs, enqueued>>

\* The statement starts: `existing` looks in the snapshot for a row with
\* created_at < now(); within one tick either order is possible.
Send(w) ==
    /\ worker[w].pc = "due"
    /\ \E seen \in BOOLEAN :
          /\ seen => cron # NULL
          /\ cron # NULL /\ cron.created_at < now => seen
          /\ worker' = [worker EXCEPT ![w].pc = "sent", ![w].at = now, ![w].seen = seen]
    /\ UNCHANGED <<cron_job, now, cron, first, jobs, enqueued>>

NextId == CHOOSE n \in 1..(MaxJobs + 1) : n \notin DOMAIN jobs /\ \A k \in 1..(n - 1) : k \in DOMAIN jobs

\* Mutant: the occurrence is claimed even if it has been.
ClaimsAgain(due_at) == cron = NULL \/ cron.last_run_at <= due_at

\* `claimed`: the row is new, or its last_run_at is before this occurrence.
Claims(due_at) == cron = NULL \/ cron.last_run_at < due_at

\* Mutant: a definition that was just recorded counts as having existed.
ExistedNow(w) == TRUE

\* `existing`, and $9.
Existed(w) == cron_job.catch_up \/ worker[w].seen

\* Mutant: created_at has no default.
RecordedUndated(w) ==
    [last_run_at |-> worker[w].due_at, next_run_at |-> NextAfter(worker[w].due_at),
     created_at  |-> NULL]

\* The row after INSERT, or after DO UPDATE, which leaves created_at alone.
Recorded(w) ==
    [last_run_at |-> worker[w].due_at, next_run_at |-> NextAfter(worker[w].due_at),
     created_at  |-> IF cron = NULL THEN worker[w].at ELSE cron.created_at]

\* `inserted`: as enqueue does, with due_at as run_at.
InsertCronJob(due) == InsertJob(jobs, NextId, cron_job.def, cron_job.key, cron_job.mode, due)

AfterStatement(w, misses) == IF worker[w].up THEN Asleep(misses) ELSE Down

\* Mutant: the claim is decided on the snapshot.
CommitOnSnapshot(w) ==
    LET due     == worker[w].due_at
        claimed == ~ worker[w].seen \/ Claims(due)
        enqueue == claimed /\ Existed(w)
    IN  /\ worker[w].pc = "sent"
        /\ enqueue => NextId <= MaxJobs
        /\ cron' = IF claimed THEN Recorded(w) ELSE cron
        /\ first' = IF cron = NULL THEN now ELSE first
        /\ jobs' = IF enqueue THEN InsertCronJob(due) ELSE jobs
        /\ enqueued' = IF enqueue THEN enqueued \cup {due} ELSE enqueued
        /\ worker' = [worker EXCEPT ![w] = AfterStatement(w, 0)]
        /\ UNCHANGED <<cron_job, now>>

\* The statement commits; whether its answer arrives makes no difference.
Commit(w) ==
    LET due     == worker[w].due_at
        claimed == Claims(due)
        enqueue == claimed /\ Existed(w)
    IN  /\ worker[w].pc = "sent"
        /\ enqueue => NextId <= MaxJobs
        /\ cron' = IF claimed THEN Recorded(w) ELSE cron
        /\ first' = IF cron = NULL THEN now ELSE first
        /\ jobs' = IF enqueue THEN InsertCronJob(due) ELSE jobs
        /\ enqueued' = IF enqueue THEN enqueued \cup {due} ELSE enqueued
        /\ worker' = [worker EXCEPT ![w] = AfterStatement(w, 0)]
        /\ UNCHANGED <<cron_job, now>>

\* Mutant: the occurrence is claimed by a statement of its own, and the INSERT fails.
FailAfterClaim(w) ==
    /\ worker[w].pc = "sent"
    /\ worker[w].misses < MaxMisses
    /\ cron' = IF Claims(worker[w].due_at) THEN Recorded(w) ELSE cron
    /\ first' = IF cron = NULL THEN now ELSE first
    /\ worker' = [worker EXCEPT ![w] = AfterStatement(w, worker[w].misses + 1)]
    /\ UNCHANGED <<cron_job, now, jobs, enqueued>>

\* The statement fails without effect; the next poll tries again.
Fail(w) ==
    /\ worker[w].pc = "sent"
    /\ worker[w].misses < MaxMisses
    /\ worker' = [worker EXCEPT ![w] = AfterStatement(w, worker[w].misses + 1)]
    /\ UNCHANGED <<cron_job, now, cron, first, jobs, enqueued>>

\* A claim loop takes a due job; its handler ends.
TakeJob(j) ==
    /\ j \in DOMAIN jobs /\ jobs[j].status = "queued" /\ jobs[j].run_at <= now
    /\ jobs' = [jobs EXCEPT ![j].status = "running"]
    /\ UNCHANGED <<cron_job, now, cron, first, enqueued, worker>>

FinishJob(j) ==
    /\ j \in DOMAIN jobs /\ jobs[j].status = "running"
    /\ jobs' = [jobs EXCEPT ![j] = Finished(@, "succeeded", now)]
    /\ UNCHANGED <<cron_job, now, cron, first, enqueued, worker>>

\* A worker that is up keeps its cron loop going.
Tick ==
    /\ now < MaxNow
    /\ \A w \in Workers : worker[w].up => worker[w].timer > 0 - Latency
    /\ now' = now + 1
    /\ worker' = [w \in Workers |-> IF worker[w].up THEN [worker[w] EXCEPT !.timer = @ - 1]
                                                    ELSE worker[w]]
    /\ UNCHANGED <<cron_job, cron, first, jobs, enqueued>>

Next ==
    \/ Tick
    \/ \E w \in Workers : Start(w) \/ Stop(w) \/ ReadClock(w) \/ Send(w) \/ Commit(w) \/ Fail(w)
    \/ \E j \in 1..MaxJobs : TakeJob(j) \/ FinishJob(j)

Spec == Init /\ [][Next]_vars
-----------------------------------------------------------------------------
(* Properties *)

\* "PostgreSQL coordinates a single enqueue per occurrence" (README.md:389): no two
\* jobs stand for the same occurrence, however many workers poll, whatever their
\* clocks say and whichever answers are lost.
OncePerOccurrence ==
    \A i, j \in DOMAIN jobs : jobs[i].run_at = jobs[j].run_at => i = j

\* The row never goes back to an earlier occurrence, so an occurrence that was
\* claimed, by a worker whose clock is ahead or before clocks were set back, is not
\* claimed again; and whoever enqueues a job, or moves a queued one, does so for an
\* occurrence later than the row's, to which it moves the row in the same step.
CronAdvances ==
    [][/\ cron # NULL => cron' # NULL /\ cron'.last_run_at >= cron.last_run_at
       /\ \A j \in DOMAIN jobs' :
             \/ j \in DOMAIN jobs /\ jobs'[j].run_at = jobs[j].run_at
             \/ /\ cron = NULL \/ cron.last_run_at < cron'.last_run_at
                /\ jobs'[j].run_at = cron'.last_run_at]_vars

\* How late a steady worker claims an occurrence: it read its clock, which may be
\* behind, just before it was due, and every failed statement costs another poll.
Delay == MaxSkew + Latency + (MaxMisses + 1) * (CronPoll + Latency)

\* "missed occurrences collapse to the latest" (src/schedule.rs:167), but none is missed
\* while a worker is up and the schedule leaves it time: an occurrence after the
\* definition was recorded, with the next one no nearer than the delay on the slowest
\* clock plus the fastest clock's lead, is enqueued, whatever workers with other clocks
\* claim, and whichever of them stop with a statement on its way.
NoOccurrenceLost ==
    \A d \in 0..now :
        /\ LatestDue(d) = d
        /\ first # NULL /\ first + MaxSkew < d
        /\ d + Delay + MaxSkew <= NextAfter(d)
        /\ d + Delay < now
        => d \in enqueued

\* "By default, adding a new cron definition records its current schedule without
\* enqueueing an old occurrence" (README.md:419): no occurrence from before the
\* created_at of the definition's row is enqueued, up to the difference of the clocks and
\* the time between reading one and the statement's now().  The row may be committed
\* later than that, by a statement that outlives its worker.
NothingOldEnqueued ==
    ~ cron_job.catch_up =>
        \A d \in enqueued : cron # NULL /\ cron.created_at < d + MaxSkew + Latency
=============================================================================
