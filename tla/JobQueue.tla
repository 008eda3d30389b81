------------------------------ MODULE JobQueue ------------------------------
(***************************************************************************)
(* pgspawn's core: the jobs and workers tables, the claim loops of the     *)
(* worker processes, the recovery statements, shutdown and crashes, and    *)
(* the Queue API.                                                          *)
(*                                                                         *)
(* A process p is one Worker::run; its claim loops are the l with          *)
(* Home[l] = p, and IdOf[p] is its configured worker_id.  Two processes    *)
(* may share a worker_id (a rolling restart under a fixed id), so locks    *)
(* and registrations are matched by id, as the prefix `worker_id:` does.   *)
(*                                                                         *)
(* Every SQL statement is one step, except claim_next: its SELECT ... FOR  *)
(* UPDATE SKIP LOCKED and its UPDATE are two steps, because the check that *)
(* the named queue is free reads other rows than the locked one.  A        *)
(* statement a loop sent is executed by PostgreSQL whether or not the loop *)
(* still waits for it.                                                     *)
(***************************************************************************)
EXTENDS JobTable

CONSTANTS
    Procs,       \* worker processes
    WorkerIds,   \* values of WorkerConfig::worker_id
    IdOf,        \* the worker_id of a process
    Home,        \* the process of a claim loop (a claim loop is its lock owner)
    Handles,     \* the names a process has handlers for (Registry::names)
    Requests,    \* what callers enqueue: definition, job key, job key mode
    StaleAfter,  \* WorkerConfig::stale_after
    Retain,      \* WorkerConfig::finished_job_retention
    MaxDelay,    \* bound: how far ahead of now a caller's run_at is
    MaxJobs,     \* bound: rows ever inserted
    MaxNow,      \* bound: the clock
    MaxAttempt   \* bound: claims of a job since its last retry

ASSUME QueueAssumption ==
    /\ IdOf \in [Procs -> WorkerIds]
    /\ Home \in [Lockers -> Procs]
    /\ Requests \subseteq [def : Defs, job_key : Keys \cup {NULL}, mode : Modes]
    /\ StaleAfter \in Nat /\ Retain \in Nat /\ MaxDelay \in Nat
    /\ MaxJobs \in Nat /\ MaxNow \in Nat /\ MaxAttempt \in Nat

VARIABLES
    now,        \* the database clock
    jobs,       \* pgspawn.jobs
    nextId,     \* the id of the next inserted row
    heartbeat,  \* pgspawn.workers: last_heartbeat_at by id, NULL when not registered
    phase,      \* where run_until_shutdown is, per process
    result,     \* run_result and cleanup_error of run_until_shutdown, per process
    live,       \* the claim loops whose task is running
    loop        \* what each claim loop, or the statement it sent, is doing

vars == <<now, jobs, nextId, heartbeat, phase, result, live, loop>>

Loops == Lockers

Jobs == 1..MaxJobs

Phases == {"down", "up", "draining", "releasing", "deregistering", "stopped", "crashed"}

\* idle: no statement, no handler; asking: claim_next sent; claiming: its SELECT
\* has row-locked `job`; running: the handler of `job` runs; completing, failing:
\* complete_locked or fail_locked sent.
Pcs == {"idle", "asking", "claiming", "running", "completing", "failing"}

Loop == [pc : Pcs, job : Jobs \cup {NULL}, attempt : Nat, def : Defs \cup {NULL}]

At(pc) == [pc |-> pc, job |-> NULL, attempt |-> 0, def |-> NULL]

TypeOK ==
    /\ now \in Nat
    /\ DOMAIN jobs \subseteq Jobs
    /\ jobs \in [DOMAIN jobs -> Row]
    /\ nextId \in 1..(MaxJobs + 1)
    /\ \A j \in DOMAIN jobs : j < nextId
    /\ heartbeat \in [WorkerIds -> Nat \cup {NULL}]
    /\ phase \in [Procs -> Phases]
    /\ result \in [Procs -> {"ok", "error"}]
    /\ live \subseteq Loops
    /\ loop \in [Loops -> Loop]

Init ==
    /\ now = 0
    /\ jobs = [j \in {} |-> NULL]
    /\ nextId = 1
    /\ heartbeat = [w \in WorkerIds |-> NULL]
    /\ phase = [p \in Procs |-> "down"]
    /\ result = [p \in Procs |-> "ok"]
    /\ live = {}
    /\ loop = [l \in Loops |-> At("idle")]

\* External: the database clock advances.
Tick ==
    /\ now < MaxNow
    /\ now' = now + 1
    /\ UNCHANGED <<jobs, nextId, heartbeat, phase, result, live, loop>>
-----------------------------------------------------------------------------
(* Queue API *)

\* Rows locked by the SELECT ... FOR UPDATE of a claim in progress.  A statement
\* that targets one of them waits for that claim, then sees what it left.
RowLocked == {loop[l].job : l \in {k \in Loops : loop[k].pc = "claiming"}}

OnlyJobs == UNCHANGED <<now, nextId, heartbeat, phase, result, live, loop>>

\* Mutant: a fresh row does not use up its id.
EnqueueSameId(d, k, mode, at) ==
    /\ KeyHolders(jobs, k) \cap RowLocked = {}
    /\ KeyHolders(jobs, k) = {} => nextId <= MaxJobs
    /\ jobs' = InsertJob(jobs, nextId, d, k, mode, at)
    /\ UNCHANGED <<now, nextId, heartbeat, phase, result, live, loop>>

Enqueue(d, k, mode, at) ==
    /\ KeyHolders(jobs, k) \cap RowLocked = {}
    /\ KeyHolders(jobs, k) = {} => nextId <= MaxJobs
    /\ jobs' = InsertJob(jobs, nextId, d, k, mode, at)
    /\ nextId' = IF KeyHolders(jobs, k) = {} THEN nextId + 1 ELSE nextId
    /\ UNCHANGED <<now, heartbeat, phase, result, live, loop>>

Cancel(j) ==
    /\ j \in DOMAIN jobs \ RowLocked
    /\ jobs[j].status = "queued"
    /\ jobs' = [jobs EXCEPT ![j] = Cancelled(@, now)]
    /\ OnlyJobs

\* Mutant: retry does not meet the job-key index.
RetryIgnoringKey(j) ==
    /\ j \in DOMAIN jobs
    /\ jobs[j].status \in {"failed", "cancelled"}
    /\ jobs' = [jobs EXCEPT ![j] = Reset(@, now)]
    /\ OnlyJobs

\* With the key taken by a newer job the UPDATE violates jobs_job_key_active_idx
\* and retry returns the error, changing nothing.
Retry(j) ==
    /\ j \in DOMAIN jobs
    /\ jobs[j].status \in {"failed", "cancelled"}
    /\ KeyHolders(jobs, jobs[j].job_key) = {}
    /\ jobs' = [jobs EXCEPT ![j] = Reset(@, now)]
    /\ OnlyJobs

PermanentlyFail(j) ==
    /\ j \in DOMAIN jobs \ RowLocked
    /\ Active(jobs[j])
    /\ jobs' = [jobs EXCEPT ![j] = Finished(@, "failed", now)]
    /\ OnlyJobs

Complete(j) ==
    /\ j \in DOMAIN jobs \ RowLocked
    /\ Active(jobs[j])
    /\ jobs' = [jobs EXCEPT ![j] = Finished(@, "succeeded", now)]
    /\ OnlyJobs

Reschedule(j, at) ==
    /\ j \in DOMAIN jobs \ RowLocked
    /\ jobs[j].status = "queued"
    /\ jobs' = [jobs EXCEPT ![j].run_at = at]
    /\ OnlyJobs

\* Also the last statement of each round of the recovery loop.
PruneFinished ==
    /\ Expired(jobs, now, Retain) # {}
    /\ jobs' = DeleteAll(jobs, Expired(jobs, now, Retain))
    /\ OnlyJobs

\* The running rows whose lock carries the prefix `w:`.
LockedBy(w) ==
    {j \in DOMAIN jobs : /\ jobs[j].status = "running"
                         /\ jobs[j].locked_by # NULL
                         /\ IdOf[Home[jobs[j].locked_by]] = w}

ForceUnlockWorker(w) ==
    /\ jobs' = RequeueAll(jobs, LockedBy(w), now)
    /\ heartbeat' = [heartbeat EXCEPT ![w] = NULL]
    /\ UNCHANGED <<now, nextId, phase, result, live, loop>>
-----------------------------------------------------------------------------
(* Claim loops *)

\* Top of run_claim_loop: the shutdown flag is read, then claim_next is sent.
\* The statement may execute after the flag has been raised.
AskForJob(l) ==
    /\ l \in live
    /\ loop[l].pc = "idle"
    /\ phase[Home[l]] = "up"
    /\ loop' = [loop EXCEPT ![l] = At("asking")]
    /\ UNCHANGED <<now, jobs, nextId, heartbeat, phase, result, live>>

Candidates(l) == Claimable(jobs, Handles[Home[l]], now) \ RowLocked

\* The candidate CTE of claim_next.  Rows locked by other claims are skipped.
ClaimSelect(l) ==
    /\ loop[l].pc = "asking"
    /\ \E j \in First(jobs, Candidates(l)) :
        /\ jobs[j].attempt < MaxAttempt
        /\ loop' = [loop EXCEPT ![l] = [At("claiming") EXCEPT !.job = j]]
    /\ UNCHANGED <<now, jobs, nextId, heartbeat, phase, result, live>>

\* Mutant: the UPDATE relies on the NOT EXISTS of the SELECT alone.
ClaimCommitUnchecked(l) ==
    LET j == loop[l].job
        r == Claimed(jobs[j], l, now)
    IN  /\ loop[l].pc = "claiming"
        /\ jobs' = [jobs EXCEPT ![j] = r]
        /\ \/ /\ l \in live
              /\ loop' = [loop EXCEPT ![l] = [pc |-> "running", job |-> j,
                                              attempt |-> r.attempt, def |-> r.def]]
           \/ loop' = [loop EXCEPT ![l] = At("idle")]
        /\ UNCHANGED <<now, nextId, heartbeat, phase, result, live>>

\* The UPDATE of claim_next commits: the row did not violate jobs_queue_running_idx.
\* Either the loop receives the row and starts the handler, or the answer is lost
\* (connection error, aborted or crashed loop) and nobody runs the claimed job.
ClaimCommit(l) ==
    LET j == loop[l].job
        r == Claimed(jobs[j], l, now)
    IN  /\ loop[l].pc = "claiming"
        /\ ~ QueueRunning(jobs, jobs[j].def)
        /\ jobs' = [jobs EXCEPT ![j] = r]
        /\ \/ /\ l \in live
              /\ loop' = [loop EXCEPT ![l] = [pc |-> "running", job |-> j,
                                              attempt |-> r.attempt, def |-> r.def]]
           \/ loop' = [loop EXCEPT ![l] = At("idle")]
        /\ UNCHANGED <<now, nextId, heartbeat, phase, result, live>>

\* claim_next changes nothing: no candidate, a unique violation on
\* jobs_queue_running_idx (mapped to Ok(None)), or an error that rolls it back.
ClaimNothing(l) ==
    /\ loop[l].pc \in {"asking", "claiming"}
    /\ loop' = [loop EXCEPT ![l] = At("idle")]
    /\ UNCHANGED <<now, jobs, nextId, heartbeat, phase, result, live>>

\* The handler returns Ok, or returns an error or panics.
HandlerReturns(l) ==
    /\ loop[l].pc = "running"
    /\ \E pc \in {"completing", "failing"} : loop' = [loop EXCEPT ![l].pc = pc]
    /\ UNCHANGED <<now, jobs, nextId, heartbeat, phase, result, live>>

\* Mutant: the statements match the job id alone.
HoldsById(l) == loop[l].job \in DOMAIN jobs

\* WHERE id = $1 AND locked_by = $2
HoldsLock(l) ==
    /\ loop[l].job \in DOMAIN jobs
    /\ jobs[loop[l].job].locked_by = l

\* renew_lock answers false when the lock is gone: the handler is aborted.
RenewLock(l) ==
    /\ loop[l].pc = "running"
    /\ \/ /\ HoldsLock(l)
          /\ jobs[loop[l].job].status = "running"
          /\ jobs' = [jobs EXCEPT ![loop[l].job].locked_at = now]
          /\ UNCHANGED loop
       \/ /\ ~ (HoldsLock(l) /\ jobs[loop[l].job].status = "running")
          /\ loop' = [loop EXCEPT ![l] = At("idle")]
          /\ UNCHANGED jobs
    /\ UNCHANGED <<now, nextId, heartbeat, phase, result, live>>

CompleteLocked(l) ==
    /\ loop[l].pc = "completing"
    /\ jobs' = IF HoldsLock(l)
               THEN [jobs EXCEPT ![loop[l].job] = Finished(@, "succeeded", now)]
               ELSE jobs
    /\ loop' = [loop EXCEPT ![l] = At("idle")]
    /\ UNCHANGED <<now, nextId, heartbeat, phase, result, live>>

\* The branch is chosen from the attempt and max_attempts read at claim time.
FailLocked(l) ==
    LET exhausted == loop[l].attempt >= loop[l].def.max_attempts
    IN  /\ loop[l].pc = "failing"
        /\ jobs' = IF HoldsLock(l)
                   THEN [jobs EXCEPT ![loop[l].job] =
                            IF exhausted THEN Finished(@, "failed", now)
                                         ELSE Requeued(@, now + RetryDelay(@))]
                   ELSE jobs
        /\ loop' = [loop EXCEPT ![l] = At("idle")]
        /\ UNCHANGED <<now, nextId, heartbeat, phase, result, live>>

\* complete_locked or fail_locked fails without effect; the loop only logs it.
ReportFails(l) ==
    /\ loop[l].pc \in {"completing", "failing"}
    /\ loop' = [loop EXCEPT ![l] = At("idle")]
    /\ UNCHANGED <<now, jobs, nextId, heartbeat, phase, result, live>>
-----------------------------------------------------------------------------
(* Worker processes *)

LoopsOf(p) == {l \in Loops : Home[l] = p}

\* run_until_shutdown registers the worker and spawns its loops.
Start(p) ==
    /\ phase[p] = "down"
    /\ heartbeat' = [heartbeat EXCEPT ![IdOf[p]] = now]
    /\ phase' = [phase EXCEPT ![p] = "up"]
    /\ live' = live \cup LoopsOf(p)
    /\ UNCHANGED <<now, jobs, nextId, result, loop>>

\* The heartbeat and recovery loops end at a shutdown request, but finish the statement
\* or the round they are at.
Supervised(p) == phase[p] \in {"up", "draining"}

\* run_heartbeat_loop; register_worker inserts the row again if it was removed.
Heartbeat(p) ==
    /\ Supervised(p)
    /\ heartbeat' = [heartbeat EXCEPT ![IdOf[p]] = now]
    /\ UNCHANGED <<now, jobs, nextId, phase, result, live, loop>>

Silent == {w \in WorkerIds : heartbeat[w] # NULL /\ heartbeat[w] + StaleAfter < now}

\* run_recovery_loop, first statement.
RecoverDeadWorkers(p) ==
    /\ Supervised(p)
    /\ Silent # {}
    /\ jobs' = RequeueAll(jobs, UNION {LockedBy(w) : w \in Silent}, now)
    /\ heartbeat' = [w \in WorkerIds |-> IF w \in Silent THEN NULL ELSE heartbeat[w]]
    /\ UNCHANGED <<now, nextId, phase, result, live, loop>>

\* run_recovery_loop, second statement.
RecoverStale(p) ==
    /\ Supervised(p)
    /\ StaleLocks(jobs, now, StaleAfter) # {}
    /\ jobs' = RequeueAll(jobs, StaleLocks(jobs, now, StaleAfter), now)
    /\ OnlyJobs

RequestShutdown(p) ==
    /\ phase[p] = "up"
    /\ phase' = [phase EXCEPT ![p] = "draining"]
    /\ UNCHANGED <<now, jobs, nextId, heartbeat, result, live, loop>>

\* A claim loop sees the shutdown flag between two jobs.
LoopExits(l) ==
    /\ l \in live
    /\ loop[l].pc = "idle"
    /\ phase[Home[l]] = "draining"
    /\ live' = live \ {l}
    /\ UNCHANGED <<now, jobs, nextId, heartbeat, phase, result, loop>>

Drained(p) ==
    /\ phase[p] = "draining"
    /\ LoopsOf(p) \cap live = {}
    /\ phase' = [phase EXCEPT ![p] = "releasing"]
    /\ UNCHANGED <<now, jobs, nextId, heartbeat, result, live, loop>>

\* The loops of p end where they are.  A handler stops with its loop (AbortOnDrop);
\* a statement already sent stays in flight.
EndLoops(p) ==
    /\ live' = live \ LoopsOf(p)
    /\ loop' = [l \in Loops |-> IF Home[l] = p /\ loop[l].pc = "running"
                                THEN At("idle") ELSE loop[l]]

\* The grace period elapses while draining, or a supervised loop exits while up
\* (run returns WorkerError::LoopExited or LoopFailed).
AbortTasks(p) ==
    /\ phase[p] \in {"up", "draining"}
    /\ EndLoops(p)
    /\ result' = [result EXCEPT ![p] = IF phase[p] = "up" THEN "error" ELSE @]
    /\ phase' = [phase EXCEPT ![p] = "releasing"]
    /\ UNCHANGED <<now, jobs, nextId, heartbeat>>

\* Mutant: a failed release is only logged.
ReleaseQuietly(p) ==
    /\ phase[p] = "releasing"
    /\ jobs' = RequeueAll(jobs, LockedBy(IdOf[p]), now) \/ UNCHANGED jobs
    /\ phase' = [phase EXCEPT ![p] = "deregistering"]
    /\ UNCHANGED <<now, nextId, heartbeat, result, live, loop>>

\* A failing statement is logged and the cleanup goes on.
ReleaseWorkerJobs(p) ==
    /\ phase[p] = "releasing"
    /\ \/ jobs' = RequeueAll(jobs, LockedBy(IdOf[p]), now) /\ UNCHANGED result
       \/ result' = [result EXCEPT ![p] = "error"] /\ UNCHANGED jobs
    /\ phase' = [phase EXCEPT ![p] = "deregistering"]
    /\ UNCHANGED <<now, nextId, heartbeat, live, loop>>

DeregisterWorker(p) ==
    /\ phase[p] = "deregistering"
    /\ \/ heartbeat' = [heartbeat EXCEPT ![IdOf[p]] = NULL] /\ UNCHANGED result
       \/ result' = [result EXCEPT ![p] = "error"] /\ UNCHANGED heartbeat
    /\ phase' = [phase EXCEPT ![p] = "stopped"]
    /\ UNCHANGED <<now, jobs, nextId, live, loop>>

\* External: the process or its host is lost.
Crash(p) ==
    /\ phase[p] \in Phases \ {"down", "stopped", "crashed"}
    /\ EndLoops(p)
    /\ phase' = [phase EXCEPT ![p] = "crashed"]
    /\ UNCHANGED <<now, jobs, nextId, heartbeat, result>>
-----------------------------------------------------------------------------
\* run_at is the caller's, by default its own clock, which need not be the database's.
ApiStep ==
    \/ \E q \in Requests, at \in 0..(now + MaxDelay) :
          Enqueue(q.def, q.job_key, q.mode, at)
    \/ \E j \in Jobs : \/ Cancel(j)
                       \/ Retry(j)
                       \/ PermanentlyFail(j)
                       \/ Complete(j)
                       \/ \E at \in 0..(now + MaxDelay) : Reschedule(j, at)
    \/ PruneFinished
    \/ \E w \in WorkerIds : ForceUnlockWorker(w)

LoopStep(l) ==
    \/ AskForJob(l) \/ ClaimSelect(l) \/ ClaimCommit(l) \/ ClaimNothing(l)
    \/ HandlerReturns(l) \/ RenewLock(l)
    \/ CompleteLocked(l) \/ FailLocked(l) \/ ReportFails(l)
    \/ LoopExits(l)

ProcStep(p) ==
    \/ Start(p) \/ Heartbeat(p) \/ RecoverDeadWorkers(p) \/ RecoverStale(p)
    \/ RequestShutdown(p) \/ Drained(p) \/ AbortTasks(p)
    \/ ReleaseWorkerJobs(p) \/ DeregisterWorker(p) \/ Crash(p)

Next ==
    \/ Tick
    \/ ApiStep
    \/ \E l \in Loops : LoopStep(l)
    \/ \E p \in Procs : ProcStep(p)

Spec == Init /\ [][Next]_vars
-----------------------------------------------------------------------------
(* Properties *)

RowConsistent(r) ==
    /\ r.status = "running" <=> r.locked_by # NULL
    /\ r.locked_by # NULL <=> r.locked_at # NULL
    /\ Terminal(r) <=> r.finished_at # NULL

\* complete_locked and fail_locked match on locked_by alone, the recovery
\* statements on status and locked_at, prune_finished on finished_at.  They agree
\* on which rows they mean only if a row is running exactly when both lock columns
\* are set, and terminal exactly when finished_at is set.
RowsConsistent == \A j \in DOMAIN jobs : RowConsistent(jobs[j])

\* A named queue has at most one running job across all workers (README.md:78).
\* No statement but claim_next, which handles the violation, can break the index.
NamedQueueExclusive ==
    \A i, j \in DOMAIN jobs :
        /\ jobs[i].status = "running" /\ jobs[j].status = "running"
        /\ jobs[i].def.queue_name = jobs[j].def.queue_name
        /\ jobs[i].def.queue_name # NULL
        => i = j

\* At most one queued or running job has a given job key (README.md:78).
ActiveKeyUnique ==
    \A i, j \in DOMAIN jobs :
        /\ Active(jobs[i]) /\ Active(jobs[j])
        /\ jobs[i].job_key = jobs[j].job_key
        /\ jobs[i].job_key # NULL
        => i = j

Executing(l) == loop[l].pc \in {"running", "completing", "failing"}

\* A lock owner names a claim loop, not a claim, so a report could in principle be
\* taken for that of a later claim of the same job by the same loop.  It is not: a
\* loop that executes a job and owns its row executes exactly the attempt and the
\* definition in the row, so a report decides for the attempt it is about.
LockNamesThisAttempt ==
    \A l \in Loops :
        Executing(l) /\ HoldsLock(l) =>
            /\ jobs[loop[l].job].status = "running"
            /\ jobs[loop[l].job].attempt = loop[l].attempt
            /\ jobs[loop[l].job].def = loop[l].def

\* Two handlers of one named queue overlap only if one of them has lost its lock.
SerialExecution ==
    \A k, l \in Loops :
        /\ Executing(k) /\ HoldsLock(k) /\ Executing(l) /\ HoldsLock(l)
        /\ loop[k].def.queue_name = loop[l].def.queue_name
        /\ loop[k].def.queue_name # NULL
        => k = l

\* One step leaves every finished row alone, prunes it, or is its Queue::retry.
FinishedStep ==
    \A j \in DOMAIN jobs :
        Terminal(jobs[j]) =>
            \/ j \notin DOMAIN jobs'
            \/ jobs'[j] = jobs[j]
            \/ /\ jobs[j].status # "succeeded"
               /\ jobs'[j] = Reset(jobs[j], now)

\* A finished job runs again only through Queue::retry (src/job.rs:117): no late
\* report, recovery or upsert brings it back or changes how it finished.
FinishedStaysFinished == [][FinishedStep]_vars

\* The lease each row stands for.  A claim in progress is no lease yet, and a
\* report in flight still is work in progress.
LeaseState(r) ==
    IF r.status = "queued" THEN "waiting"
    ELSE IF r.status = "running" THEN "leased" ELSE "finished"

leaseState == [j \in Jobs |-> IF j \in DOMAIN jobs THEN LeaseState(jobs[j])
                              ELSE IF j < nextId THEN "pruned" ELSE "absent"]

leaseQueue == [j \in Jobs |-> IF j \in DOMAIN jobs THEN jobs[j].def.queue_name ELSE NULL]

leaseKey == [j \in Jobs |-> IF j \in DOMAIN jobs THEN jobs[j].job_key ELSE NULL]

leaseHolder == [j \in Jobs |-> IF j \in DOMAIN jobs THEN jobs[j].locked_by ELSE NULL]

leaseWork == [l \in Loops |-> IF Executing(l) THEN loop[l].job ELSE NULL]

Lease == INSTANCE JobLease WITH
    NoOne <- NULL, Ids <- Jobs, JobKeys <- Keys, QueueNames <- Queues, Holders <- Loops,
    state <- leaseState, queue <- leaseQueue, key <- leaseKey,
    holder <- leaseHolder, work <- leaseWork

\* The tables, the two-step claims, the recovery statements, shutdowns and crashes
\* together implement the leases: every statement is one step of JobLease or none.
\* The two steps of claim_next make one indivisible Grant, and no report of a loop
\* that has lost its lock reaches the job.
ImplementsLease == Lease!LeaseSpec

Held(l) == {j \in DOMAIN jobs : jobs[j].locked_by = l}

\* What run_until_shutdown's Ok is worth although a claim may commit after the release
\* (see StoppedHoldsNothing): the only jobs a worker that returned it leaves locked are
\* those of claims in flight when its loops were aborted, one for each loop at most, and
\* nothing of what its loops had claimed and lost before.
OnlyLateClaimsLeft ==
    \A p \in Procs : phase[p] = "stopped" /\ result[p] = "ok" =>
        \A l \in LoopsOf(p) :
            /\ \A i, j \in Held(l) : i = j
            /\ loop[l].pc \in {"asking", "claiming"} => Held(l) = {}

\* "max_attempts includes the initial execution attempt" (README.md:252).
AttemptsWithinLimit ==
    \A j \in DOMAIN jobs :
        jobs[j].status = "running" => jobs[j].attempt <= jobs[j].def.max_attempts

\* "Wait for the worker to finish in-flight jobs and release its locks."
\* (README.md:218): once run_until_shutdown has returned Ok, no row is locked by
\* one of its claim loops.
StoppedHoldsNothing ==
    \A p \in Procs : phase[p] = "stopped" /\ result[p] = "ok" =>
        \A j \in DOMAIN jobs : jobs[j].locked_by \notin LoopsOf(p)
=============================================================================
