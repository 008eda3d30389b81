---------------------------- MODULE WorkerLease -----------------------------
(***************************************************************************)
(* The clocks behind a lock: heartbeats, lock renewals, recovery rounds    *)
(* and the shutdown grace period against stale_after.  JobQueue lets each  *)
(* of these happen at any time; here each loop sleeps for its interval.    *)
(*                                                                         *)
(* Time is relative: rows have ages, and a loop counts down to its next    *)
(* statement, which is on its way when the timer is at 0 or below.  It is  *)
(* answered before the timer passes -Latency: what it does is done at some *)
(* tick until then, its now() is of a tick since it was sent (Ago), and    *)
(* the next sleep starts when the rest of the time to its answer is over   *)
(* (Rest).  A statement on its way executes or fails whatever becomes of   *)
(* the task that sent it.  One fails at most MaxMisses times in a row.     *)
(*                                                                         *)
(* A process p has its own worker_id and may be started again under it,    *)
(* once nothing it has sent is on its way.                                 *)
(***************************************************************************)
EXTENDS Integers

CONSTANTS
    NULL,
    Procs,              \* worker processes
    Loops,              \* claim loops
    Home,               \* the process of a claim loop
    Jobs,
    HeartbeatInterval,  \* WorkerConfig::heartbeat_interval
    LockRenewInterval,  \* WorkerConfig::lock_renew_interval
    RecoveryInterval,   \* WorkerConfig::recovery_interval
    StaleAfter,         \* WorkerConfig::stale_after
    GracePeriod,        \* WorkerConfig::shutdown_grace_period
    Latency,            \* bound: how long a statement takes to be answered
    MaxMisses,          \* bound: how often in a row one fails
    MaxAge,             \* ages are counted up to here
    Watched             \* the processes whose recovery loops the properties look at

ASSUME LeaseTypes ==
    /\ Home \in [Loops -> Procs] /\ Watched \subseteq Procs
    /\ HeartbeatInterval \in Nat /\ LockRenewInterval \in Nat /\ RecoveryInterval \in Nat
    /\ StaleAfter \in Nat /\ GracePeriod \in Nat
    /\ Latency \in Nat /\ MaxMisses \in Nat /\ MaxAge \in Nat /\ MaxAge > StaleAfter + Latency
    /\ NULL \notin Nat \cup Loops \cup Jobs

\* WorkerConfig::validate; it does not mention shutdown_grace_period.
validate ==
    /\ HeartbeatInterval > 0 /\ LockRenewInterval > 0 /\ RecoveryInterval > 0
    /\ StaleAfter > HeartbeatInterval
    /\ StaleAfter > LockRenewInterval

ASSUME ValidConfig == validate

VARIABLES
    phase,     \* where run_until_shutdown is, per process
    worker,    \* pgspawn.workers: age of last_heartbeat_at, NULL without a row
    beat,      \* run_heartbeat_loop: timer, misses
    recovery,  \* run_recovery_loop: pc, timer
    grace,     \* what is left of the grace period
    job,       \* pgspawn.jobs: status, locked_by, age of locked_at
    loop,      \* claim loops, or what they have sent: pc, job, timer, misses
    orphaned,  \* for how long a job has had no handler while a process was up
    missed     \* per process: consecutive failures of recover_stale

vars == <<phase, worker, beat, recovery, grace, job, loop, orphaned, missed>>

\* How long ago a statement with this timer may have begun, its now().
Ago(timer) == 0..(0 - timer)

\* How much longer the answer to one that executes may take.
Rest(timer) == 0..(timer + Latency)

\* Between two jobs; what is left of the answer to the last statement.
Idle(rest) == [pc |-> "idle", job |-> NULL, timer |-> rest, misses |-> 0]

Timer(interval) == (0 - Latency)..(interval + Latency)

Beat == [timer : Timer(HeartbeatInterval), misses : 0..MaxMisses]

Recovery == [pc : {"dead", "stale", "prune"}, timer : Timer(RecoveryInterval)]

Job == [status : {"queued", "running", "done"}, locked_by : Loops \cup {NULL}, age : 0..MaxAge]

\* claiming, running, reporting: claim_next sent, a handler followed, its result sent.
Loop == [pc : {"idle", "claiming", "running", "reporting"}, job : Jobs \cup {NULL},
         timer : Timer(LockRenewInterval), misses : 0..MaxMisses]

\* The tasks of the process exist.
Serving(p) == phase[p] \in {"up", "draining"}

TypeOK ==
    /\ phase \in [Procs -> {"up", "draining", "releasing", "deregistering", "down"}]
    /\ worker \in [Procs -> 0..MaxAge \cup {NULL}]
    /\ beat \in [Procs -> Beat] /\ recovery \in [Procs -> Recovery]
    /\ grace \in [Procs -> 0..GracePeriod]
    /\ job \in [Jobs -> Job] /\ loop \in [Loops -> Loop]
    /\ \A l \in Loops : /\ loop[l].job # NULL <=> loop[l].pc \in {"running", "reporting"}
                        /\ \/ loop[l].pc = "idle" \/ loop[l].timer <= 0
                           \/ loop[l].pc = "running" /\ Serving(Home[l])
    /\ orphaned \in [Watched -> [Jobs -> Nat]]
    /\ missed \in [Procs -> 0..MaxMisses]

\* What a loop sleeps on when it has been answered, or is spawned.
Beaten(rest) == [timer |-> HeartbeatInterval + rest, misses |-> 0]

Slept(rest) == [pc |-> "dead", timer |-> RecoveryInterval + rest]

Init ==
    /\ phase = [p \in Procs |-> "down"]
    /\ worker = [p \in Procs |-> NULL]
    /\ beat = [p \in Procs |-> Beaten(0)]
    /\ recovery = [p \in Procs |-> Slept(0)]
    /\ grace = [p \in Procs |-> GracePeriod]
    /\ job = [j \in Jobs |-> [status |-> "queued", locked_by |-> NULL, age |-> 0]]
    /\ loop = [l \in Loops |-> Idle(0)]
    /\ orphaned = [p \in Watched |-> [j \in Jobs |-> 0]]
    /\ missed = [p \in Procs |-> 0]
-----------------------------------------------------------------------------
(* Processes *)

\* run_until_shutdown registers the worker, then spawns the loops; the heartbeat and
\* recovery loops sleep first.
Start(p) ==
    /\ phase[p] = "down"
    /\ beat[p].timer > 0 /\ recovery[p].timer > 0
    /\ \A l \in Loops : Home[l] = p => loop[l].pc = "idle"
    /\ phase' = [phase EXCEPT ![p] = "up"]
    /\ \E ago \in 0..Latency : \E rest \in Rest(0 - ago) :
          /\ worker' = [worker EXCEPT ![p] = ago]
          /\ beat' = [beat EXCEPT ![p] = Beaten(rest)]
          /\ recovery' = [recovery EXCEPT ![p] = Slept(rest)]
          /\ loop' = [l \in Loops |-> IF Home[l] = p THEN Idle(rest) ELSE loop[l]]
    /\ missed' = [missed EXCEPT ![p] = 0]
    /\ orphaned' = [q \in Watched |-> IF q = p THEN [j \in Jobs |-> 0] ELSE orphaned[q]]
    /\ UNCHANGED <<grace, job>>

\* The heartbeat loop sleeps, and so does the recovery loop: at a shutdown they end.
BeatSleeps(p) == beat[p].timer \in 1..HeartbeatInterval

RecoverySleeps(p) == recovery[p].pc = "dead" /\ recovery[p].timer \in 1..RecoveryInterval

\* register_worker, which also inserts the row again.
Heartbeat(p) ==
    /\ beat[p].timer <= 0
    /\ \/ \E ago \in Ago(beat[p].timer), rest \in Rest(beat[p].timer) :
             /\ worker' = [worker EXCEPT ![p] = ago]
             /\ beat' = [beat EXCEPT ![p] = Beaten(rest)]
       \/ /\ beat[p].misses < MaxMisses
          /\ beat' = [beat EXCEPT ![p] = [timer |-> HeartbeatInterval, misses |-> @.misses + 1]]
          /\ UNCHANGED worker
    /\ UNCHANGED <<phase, recovery, grace, job, loop, orphaned, missed>>

\* The heartbeat and recovery loops end, now or when they sleep next (one whose sleep is
\* just over may do either); handlers have the grace period, and a claim_next on its way
\* may still bring a job.
RequestShutdown(p) ==
    /\ phase[p] = "up"
    /\ phase' = [phase EXCEPT ![p] = "draining"]
    /\ \/ beat[p].timer \in 0..HeartbeatInterval /\ beat' = [beat EXCEPT ![p] = Beaten(0)]
       \/ ~ BeatSleeps(p) /\ UNCHANGED beat
    /\ \/ /\ recovery[p].pc = "dead" /\ recovery[p].timer \in 0..RecoveryInterval
          /\ recovery' = [recovery EXCEPT ![p] = Slept(0)]
       \/ ~ RecoverySleeps(p) /\ UNCHANGED recovery
    /\ UNCHANGED <<worker, grace, job, loop, orphaned, missed>>

\* The tasks of p end; a statement they have sent stays on its way.
EndTasks(p) ==
    /\ beat' = [beat EXCEPT ![p] = IF @.timer <= 0 THEN @ ELSE Beaten(0)]
    /\ recovery' = [recovery EXCEPT ![p] = IF @.timer <= 0 THEN @ ELSE Slept(0)]
    /\ loop' = [l \in Loops |-> IF Home[l] = p /\ (loop[l].pc = "idle" \/ loop[l].timer > 0)
                                THEN Idle(0) ELSE loop[l]]
    /\ grace' = [grace EXCEPT ![p] = GracePeriod]
    /\ missed' = [missed EXCEPT ![p] = 0]

\* Between two jobs, with nothing to wait for.
Free(l) == loop[l].pc = "idle" /\ loop[l].timer = 0

\* Mutant: when the grace period ends the cleanup starts without aborting the tasks.
EndDrainWithoutAbort(p) ==
    /\ phase[p] = "draining" /\ grace[p] = 0
    /\ phase' = [phase EXCEPT ![p] = "releasing"]
    /\ grace' = [grace EXCEPT ![p] = GracePeriod]
    /\ UNCHANGED <<worker, beat, recovery, job, loop, orphaned, missed>>

\* All tasks have ended, or the grace period ends and they are aborted.
EndDrain(p) ==
    /\ phase[p] = "draining"
    /\ \/ grace[p] = 0
       \/ BeatSleeps(p) /\ RecoverySleeps(p) /\ \A l \in Loops : Home[l] = p => Free(l)
    /\ phase' = [phase EXCEPT ![p] = "releasing"]
    /\ EndTasks(p)
    /\ UNCHANGED <<worker, job, orphaned>>

\* A loop exits or panics: the others are aborted without a grace period.
LoopFails(p) ==
    /\ phase[p] = "up"
    /\ phase' = [phase EXCEPT ![p] = "releasing"]
    /\ EndTasks(p)
    /\ UNCHANGED <<worker, job, orphaned>>

Requeued == [status |-> "queued", locked_by |-> NULL, age |-> 0]

RequeueAll(S) == [j \in Jobs |-> IF j \in S THEN Requeued ELSE job[j]]

\* The running jobs locked under p's worker_id, by this run of p or an earlier one.
LockedBy(p) == {j \in Jobs : /\ job[j].status = "running"
                             /\ job[j].locked_by # NULL /\ Home[job[j].locked_by] = p}

\* A failing statement is logged and the cleanup goes on.
ReleaseWorkerJobs(p) ==
    /\ phase[p] = "releasing"
    /\ phase' = [phase EXCEPT ![p] = "deregistering"]
    /\ job' = RequeueAll(LockedBy(p)) \/ UNCHANGED job
    /\ UNCHANGED <<worker, beat, recovery, grace, loop, orphaned, missed>>

DeregisterWorker(p) ==
    /\ phase[p] = "deregistering"
    /\ phase' = [phase EXCEPT ![p] = "down"]
    /\ worker' = [worker EXCEPT ![p] = NULL] \/ UNCHANGED worker
    /\ UNCHANGED <<beat, recovery, grace, job, loop, orphaned, missed>>

\* External: the process or its host is lost.
Crash(p) ==
    /\ phase[p] # "down"
    /\ phase' = [phase EXCEPT ![p] = "down"]
    /\ EndTasks(p)
    /\ UNCHANGED <<worker, job, orphaned>>
-----------------------------------------------------------------------------
(* Claim loops *)

\* The shutdown flag is read, then claim_next is sent.
AskForJob(l) ==
    /\ phase[Home[l]] = "up"
    /\ Free(l)
    /\ loop' = [loop EXCEPT ![l].pc = "claiming"]
    /\ UNCHANGED <<phase, worker, beat, recovery, grace, job, orphaned, missed>>

\* claim_next; its answer starts the handler, or is lost.
Claim(l, j) ==
    /\ loop[l].pc = "claiming"
    /\ job[j].status = "queued"
    /\ \E ago \in Ago(loop[l].timer), rest \in Rest(loop[l].timer) :
          /\ job' = [job EXCEPT ![j] = [status |-> "running", locked_by |-> l, age |-> ago]]
          /\ \/ /\ Serving(Home[l])
                /\ loop' = [loop EXCEPT ![l] = [pc |-> "running", job |-> j, misses |-> 0,
                                                timer |-> LockRenewInterval + rest]]
             \/ loop' = [loop EXCEPT ![l] = Idle(rest)]
    /\ orphaned' = [p \in Watched |-> [orphaned[p] EXCEPT ![j] = 0]]
    /\ UNCHANGED <<phase, worker, beat, recovery, grace, missed>>

\* It finds nothing, or fails.
ClaimNothing(l) ==
    /\ loop[l].pc = "claiming"
    /\ loop' = [loop EXCEPT ![l] = Idle(0)]
    /\ UNCHANGED <<phase, worker, beat, recovery, grace, job, orphaned, missed>>

\* WHERE id = $1 AND locked_by = $2
Holds(l) == job[loop[l].job].locked_by = l

\* Mutant: the answer of a renewal is taken for its effect.
RenewOnce(l) ==
    /\ loop[l].pc = "running" /\ loop[l].timer <= 0
    /\ loop' = [loop EXCEPT ![l] = IF Serving(Home[l]) THEN [@ EXCEPT !.timer = LockRenewInterval]
                                                       ELSE Idle(0)]
    /\ UNCHANGED <<phase, worker, beat, recovery, grace, job, orphaned, missed>>

\* The loop goes on sleeping, if it still exists.
Renewing(l, rest, misses) ==
    loop' = [loop EXCEPT ![l] = IF Serving(Home[l])
                                THEN [@ EXCEPT !.timer = LockRenewInterval + rest, !.misses = misses]
                                ELSE Idle(0)]

\* renew_lock: true, false (the handler is aborted) or an error.
RenewLock(l) ==
    /\ loop[l].pc = "running" /\ loop[l].timer <= 0
    /\ \/ /\ Holds(l)
          /\ \E ago \in Ago(loop[l].timer) : job' = [job EXCEPT ![loop[l].job].age = ago]
          /\ \E rest \in Rest(loop[l].timer) : Renewing(l, rest, 0)
       \/ /\ ~ Holds(l)
          /\ \E rest \in Rest(loop[l].timer) : loop' = [loop EXCEPT ![l] = Idle(rest)]
          /\ UNCHANGED job
       \/ /\ loop[l].misses < MaxMisses
          /\ Renewing(l, 0, loop[l].misses + 1)
          /\ UNCHANGED job
    /\ UNCHANGED <<phase, worker, beat, recovery, grace, orphaned, missed>>

\* The select! sees the handler's end unless it is awaiting a renewal.
HandlerReturns(l) ==
    /\ Serving(Home[l])
    /\ loop[l].pc = "running" /\ loop[l].timer \in 0..LockRenewInterval
    /\ loop' = [loop EXCEPT ![l].pc = "reporting", ![l].timer = 0]
    /\ UNCHANGED <<phase, worker, beat, recovery, grace, job, orphaned, missed>>

\* complete_locked, fail_locked, or an error of either that leaves the row locked.
Report(l) ==
    /\ loop[l].pc = "reporting"
    /\ \/ /\ Holds(l)
          /\ \E s \in {"done", "queued"} :
                job' = [job EXCEPT ![loop[l].job] = [Requeued EXCEPT !.status = s]]
       \/ UNCHANGED job
    /\ \E rest \in Rest(loop[l].timer) : loop' = [loop EXCEPT ![l] = Idle(rest)]
    /\ UNCHANGED <<phase, worker, beat, recovery, grace, orphaned, missed>>
-----------------------------------------------------------------------------
(* run_recovery_loop: three statements, then a sleep; an error is only logged *)

\* A statement of the round, and what the loop goes on to when it is answered.  A round
\* in progress when the shutdown is requested is finished, an aborted one is not.
Recovering(p, pc, next, sleep) ==
    /\ recovery[p].pc = pc /\ recovery[p].timer <= 0
    /\ \E rest \in Rest(recovery[p].timer) :
          recovery' = [recovery EXCEPT ![p] =
                          IF Serving(p) THEN [pc |-> next, timer |-> sleep + rest] ELSE Slept(0)]
    /\ UNCHANGED <<phase, beat, grace, loop, orphaned>>

\* Seen by a statement that began so long ago.
Silent(ago) == {p \in Procs : worker[p] # NULL /\ worker[p] - ago > StaleAfter}

RecoverDeadWorkers(p) ==
    /\ Recovering(p, "dead", "stale", 0)
    /\ \/ \E ago \in Ago(recovery[p].timer) :
             /\ job' = RequeueAll(UNION {LockedBy(q) : q \in Silent(ago)})
             /\ worker' = [q \in Procs |-> IF q \in Silent(ago) THEN NULL ELSE worker[q]]
       \/ UNCHANGED <<job, worker>>
    /\ UNCHANGED missed

\* Mutant: only the rows of workers without a registration are looked at.
StaleOfDeregistered(ago) ==
    {j \in Jobs : /\ job[j].status = "running" /\ job[j].age - ago > StaleAfter
                  /\ job[j].locked_by # NULL /\ worker[Home[job[j].locked_by]] = NULL}

Stale(ago) == {j \in Jobs : job[j].status = "running" /\ job[j].age - ago > StaleAfter}

\* Mutant: a process looks after the locks of its own worker_id only.
RecoverStaleOwn(p) ==
    /\ Recovering(p, "stale", "prune", 0)
    /\ job' = RequeueAll(Stale(0) \cap LockedBy(p))
    /\ UNCHANGED <<worker, missed>>

RecoverStale(p) ==
    /\ Recovering(p, "stale", "prune", 0)
    /\ \/ /\ \E ago \in Ago(recovery[p].timer) : job' = RequeueAll(Stale(ago))
          /\ missed' = [missed EXCEPT ![p] = 0]
       \/ /\ missed[p] < MaxMisses
          /\ missed' = [missed EXCEPT ![p] = @ + 1]
          /\ UNCHANGED job
    /\ UNCHANGED worker

\* Finished jobs are deleted, which matters to nobody here, or nothing is sent.
PruneFinished(p) ==
    /\ Recovering(p, "prune", "dead", RecoveryInterval)
    /\ UNCHANGED <<worker, job, missed>>
-----------------------------------------------------------------------------
Executing(j) ==
    \E l \in Loops : Serving(Home[l]) /\ loop[l].job = j /\ job[j].locked_by = l

\* A running job nobody works on: its process is gone, its claim's answer or its
\* report was lost, or its worker failed to release it.
Orphan(j) == job[j].status = "running" /\ ~ Executing(j)

Older(age) == IF age < MaxAge THEN age + 1 ELSE age

\* From one recover_stale being sent to the next being done: the rest of the round, the
\* sleep, and the next round until then.
RecoveryRound == RecoveryInterval + 4 * Latency

\* For how long a process that stays up may leave an orphan.  A renewal on its way when
\* the orphan's process was lost may set locked_at once more (Latency).
OrphanBound == StaleAfter + Latency + (MaxMisses + 1) * RecoveryRound

\* Bound: what exceeds OrphanBound is not counted further.
Longer(n) == IF n <= OrphanBound THEN n + 1 ELSE n

\* Statements on their way that may not wait any longer, and elapsed grace periods.
Urgent ==
    \/ \E p \in Procs :
          \/ (0 - Latency) \in {beat[p].timer, recovery[p].timer}
          \/ phase[p] = "draining" /\ grace[p] = 0
    \/ \E l \in Loops : ~ Free(l) /\ loop[l].timer = 0 - Latency

\* The timers of loops that exist, and of statements on their way.
Tick ==
    /\ ~ Urgent
    /\ worker' = [p \in Procs |-> IF worker[p] = NULL THEN NULL ELSE Older(worker[p])]
    /\ beat' = [p \in Procs |-> IF phase[p] # "up" /\ BeatSleeps(p) THEN beat[p]
                                ELSE [beat[p] EXCEPT !.timer = @ - 1]]
    /\ recovery' = [p \in Procs |-> IF phase[p] # "up" /\ RecoverySleeps(p) THEN recovery[p]
                                    ELSE [recovery[p] EXCEPT !.timer = @ - 1]]
    /\ grace' = [p \in Procs |-> IF phase[p] = "draining" THEN grace[p] - 1 ELSE grace[p]]
    /\ job' = [j \in Jobs |-> IF job[j].status = "running" THEN [job[j] EXCEPT !.age = Older(@)]
                                                           ELSE job[j]]
    /\ loop' = [l \in Loops |-> IF Free(l) THEN loop[l] ELSE [loop[l] EXCEPT !.timer = @ - 1]]
    /\ orphaned' = [p \in Watched |->
          [j \in Jobs |-> IF Orphan(j) /\ phase[p] = "up" THEN Longer(orphaned[p][j]) ELSE 0]]
    /\ UNCHANGED <<phase, missed>>

ProcStep(p) ==
    \/ Start(p) \/ Heartbeat(p) \/ RequestShutdown(p) \/ EndDrain(p) \/ LoopFails(p)
    \/ ReleaseWorkerJobs(p) \/ DeregisterWorker(p) \/ Crash(p)
    \/ RecoverDeadWorkers(p) \/ RecoverStale(p) \/ PruneFinished(p)

LoopStep(l) ==
    \/ AskForJob(l) \/ (\E j \in Jobs : Claim(l, j)) \/ ClaimNothing(l)
    \/ RenewLock(l) \/ HandlerReturns(l) \/ Report(l)

Next == Tick \/ (\E p \in Procs : ProcStep(p)) \/ (\E l \in Loops : LoopStep(l))

Spec == Init /\ [][Next]_vars

\* Time passes (strongly fair, because a statement that is due holds it up now and
\* then), statements are executed or fail, and the drain of a process that stops ends.
Fairness ==
    /\ SF_vars(Tick)
    /\ \A p \in Procs :
          /\ WF_vars(Heartbeat(p)) /\ WF_vars(EndDrain(p))
          /\ WF_vars(RecoverDeadWorkers(p)) /\ WF_vars(RecoverStale(p))
          /\ WF_vars(PruneFinished(p))
    /\ \A l \in Loops :
          /\ WF_vars(ClaimNothing(l) \/ \E j \in Jobs : Claim(l, j))
          /\ WF_vars(RenewLock(l)) /\ WF_vars(Report(l))

FairSpec == Spec /\ Fairness
-----------------------------------------------------------------------------
(* Properties *)

\* From the now() of a heartbeat or a renewal to the next being sent: its answer and a
\* sleep, and as much again for each that fails.
Budget(misses, interval) == (misses + 1) * (interval + Latency)

\* What stale_after must leave room for: until the next statement is done, and for the
\* grace period, because the heartbeats end when the shutdown begins.
TimingAssumption ==
    /\ Budget(MaxMisses, HeartbeatInterval) + Latency <= StaleAfter
    /\ Budget(MaxMisses, HeartbeatInterval) + GracePeriod <= StaleAfter
    /\ Budget(MaxMisses, LockRenewInterval) + Latency <= StaleAfter

\* If stale_after leaves room for the longest silence of the loops, a handler that runs
\* or reports owns its job: no recovery round takes a job from a live handler.
LiveHandlerHoldsLock ==
    \A l \in Loops :
        loop[l].pc \in {"running", "reporting"} /\ Serving(Home[l]) =>
            job[loop[l].job].status = "running" /\ job[loop[l].job].locked_by = l

\* A job whose handler, claim or release was lost is queued again within stale_after and
\* the recovery rounds of any one process that stays up, also when its own process has
\* been started again under the same worker_id and heartbeats.
OrphanRecoveredInTime == \A p \in Watched, j \in Jobs : orphaned[p][j] <= OrphanBound

\* If any one of the processes stays up in the end, no job is left running without a handler.
NoOrphanForever ==
    \A p \in Watched, j \in Jobs :
        <>[](phase[p] = "up") => (Orphan(j) ~> ~ Orphan(j))
=============================================================================
