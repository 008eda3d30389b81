-------------------------- MODULE WorkerLeaseProofs --------------------------
(***************************************************************************)
(* Proofs about WorkerLease, for any number of processes, loops and jobs,  *)
(* any intervals and any latency: under TimingAssumption no recovery takes *)
(* a job from a live handler, and orphans are recovered in time.           *)
(*                                                                         *)
(* The first invariant bounds what is left to a heartbeat and to a         *)
(* renewal: the age of a row plus the time until the next statement never  *)
(* exceeds the budget of the failed attempts.  The second one adds up, for *)
(* an orphan, the age of its lock and the rounds of a recovery loop.       *)
(***************************************************************************)
EXTENDS WorkerLease, TLAPS

\* A process that is up has heartbeaten recently enough.
Beats(p) ==
    phase[p] = "up" =>
        /\ worker[p] # NULL
        /\ worker[p] + beat[p].timer <= Budget(beat[p].misses, HeartbeatInterval)

\* One that drains still has a heartbeat on its way, or its grace period is running out.
Drains(p) ==
    phase[p] = "draining" =>
        /\ worker[p] # NULL
        /\ beat[p].timer <= 0 =>
              worker[p] + beat[p].timer <= Budget(beat[p].misses, HeartbeatInterval)
        /\ beat[p].timer > 0 =>
              worker[p] + grace[p] <= Budget(MaxMisses, HeartbeatInterval) + GracePeriod

\* A handler runs, or its result is on its way.
Busy(l) == loop[l].pc \in {"running", "reporting"} /\ Serving(Home[l])

\* A busy loop has renewed its lock recently enough, and still has it.
Fresh(l) ==
    Busy(l) =>
        /\ job[loop[l].job].age + loop[l].timer <= Budget(loop[l].misses, LockRenewInterval)
        /\ job[loop[l].job].status = "running"
        /\ job[loop[l].job].locked_by = l

IInv ==
    /\ TypeOK
    /\ \A p \in Procs : Beats(p) /\ Drains(p)
    /\ \A l \in Loops : Fresh(l)
-----------------------------------------------------------------------------
\* The intervals and bounds are numbers of ticks.
LEMMA Constants ==
    /\ HeartbeatInterval \in Nat /\ LockRenewInterval \in Nat /\ RecoveryInterval \in Nat
    /\ StaleAfter \in Nat /\ GracePeriod \in Nat /\ Latency \in Nat /\ MaxMisses \in Nat
    /\ MaxAge \in Nat /\ MaxAge > StaleAfter + Latency
    /\ HeartbeatInterval > 0 /\ LockRenewInterval > 0 /\ RecoveryInterval > 0
  BY LeaseTypes, ValidConfig DEF validate

\* A first attempt has one interval and an answer, and so does each that follows a failure.
LEMMA BudgetSteps ==
    ASSUME NEW m \in Nat, NEW i \in Nat
    PROVE  /\ Budget(m, i) \in Nat
           /\ Budget(0, i) = i + Latency
           /\ Budget(m + 1, i) = Budget(m, i) + i + Latency
<1>1. Latency \in Nat
  BY LeaseTypes
<1> DEFINE c == i + Latency
<1>2. c \in Nat
  BY <1>1
<1>3. (m + 1) * c \in Nat /\ (0 + 1) * c = c /\ (m + 1 + 1) * c = (m + 1) * c + c
  BY <1>2, SMT
<1> QED
  BY <1>1, <1>3 DEF Budget

\* The budget grows with the failures.
LEMMA BudgetMax ==
    ASSUME NEW m \in 0..MaxMisses, NEW i \in Nat
    PROVE  /\ Budget(MaxMisses, i) \in Nat /\ Budget(m, i) \in Nat
           /\ Budget(0, i) <= Budget(m, i)
           /\ Budget(m, i) <= Budget(MaxMisses, i)
           /\ m < MaxMisses => Budget(m, i) + Latency <= Budget(MaxMisses, i)
<1>1. Latency \in Nat /\ MaxMisses \in Nat
  BY LeaseTypes
<1> DEFINE c == i + Latency
           k == MaxMisses - m
<1>2. c \in Nat /\ m \in Nat /\ k \in Nat /\ MaxMisses = m + k /\ Latency <= c
  BY <1>1
<1> HIDE DEF c, k
<1>3. /\ (m + 1) * c = m * c + c /\ (m + k + 1) * c = m * c + k * c + c
      /\ m * c \in Nat /\ k * c \in Nat /\ (0 + 1) * c = c /\ (k >= 1 => k * c >= c)
  <2>1. k >= 1 => k * c >= c
    <3>1. CASE k >= 1
      <4>1. PICK n \in Nat : k = n + 1
        BY <1>2, <3>1
      <4>2. (n + 1) * c = n * c + c /\ n * c \in Nat
        BY <4>1, <1>2, SMT
      <4> QED
        BY <4>1, <4>2, <1>2
    <3> QED
      BY <3>1
  <2>2. /\ (m + 1) * c = m * c + c /\ (m + k + 1) * c = m * c + k * c + c
        /\ m * c \in Nat /\ k * c \in Nat /\ (0 + 1) * c = c
    BY <1>2, SMT
  <2> QED
    BY <2>1, <2>2
<1>4. /\ Budget(m, i) = m * c + c /\ Budget(0, i) = c
      /\ Budget(MaxMisses, i) = m * c + k * c + c
  BY <1>2, <1>3 DEF Budget, c
<1>5. m < MaxMisses => k >= 1
  BY <1>2
<1> QED
  BY <1>1, <1>2, <1>3, <1>4, <1>5

\* What a statement on its way is answered with.
LEMMA Answers ==
    ASSUME NEW t \in Int, 0 - Latency <= t, t <= 0
    PROVE  /\ \A ago \in Ago(t) : ago \in Nat /\ ago <= 0 - t /\ ago <= Latency
           /\ \A rest \in Rest(t) : rest \in Nat /\ rest <= t + Latency /\ rest <= Latency
           /\ 0 - Latency <= 0
  BY Constants DEF Ago, Rest
-----------------------------------------------------------------------------
(* Type correctness *)

\* The records the steps put into the state.
LEMMA Records ==
    ASSUME NEW rest \in Nat, rest <= Latency
    PROVE  /\ Beaten(rest) \in Beat /\ Slept(rest) \in Recovery /\ Idle(rest) \in Loop
           /\ \A pc \in {"stale", "prune"} : [pc |-> pc, timer |-> 0 + rest] \in Recovery
           /\ [pc |-> "dead", timer |-> RecoveryInterval + rest] \in Recovery
           /\ Idle(rest).pc = "idle" /\ Idle(rest).job = NULL
  BY Constants DEF Beaten, Slept, Idle, Beat, Recovery, Loop, Timer

LEMMA RequeuedIs == Requeued \in Job /\ Requeued.status = "queued"
  BY Constants DEF Requeued, Job

\* A handler that has returned.
LEMMA Returned ==
    ASSUME NEW r \in Loop
    PROVE  LET q == [r EXCEPT !.pc = "reporting", !.timer = 0]
           IN  /\ q \in Loop /\ q.job = r.job /\ q.pc = "reporting"
               /\ q.timer = 0 /\ q.misses = r.misses
<1>1. 0 \in Timer(LockRenewInterval)
  BY Constants DEF Timer
<1> QED
  BY <1>1 DEF Loop

\* A lock that was renewed.
LEMMA Relocked ==
    ASSUME NEW r \in Job, NEW ago \in Nat, ago <= Latency
    PROVE  LET q == [r EXCEPT !.age = ago]
           IN  /\ q \in Job /\ q.age = ago
               /\ q.status = r.status /\ q.locked_by = r.locked_by
  BY Constants DEF Job

\* The timers of a process and of a loop.
LEMMA Timers ==
    ASSUME TypeOK
    PROVE  /\ \A p \in Procs : /\ beat[p] \in Beat /\ recovery[p] \in Recovery
                               /\ beat[p].timer \in Int /\ 0 - Latency <= beat[p].timer
                               /\ beat[p].timer <= HeartbeatInterval + Latency
                               /\ beat[p].misses \in 0..MaxMisses
                               /\ recovery[p].timer \in Int /\ 0 - Latency <= recovery[p].timer
                               /\ recovery[p].timer <= RecoveryInterval + Latency
                               /\ recovery[p].pc \in {"dead", "stale", "prune"}
           /\ \A l \in Loops : /\ loop[l] \in Loop
                               /\ loop[l].timer \in Int /\ 0 - Latency <= loop[l].timer
                               /\ loop[l].timer <= LockRenewInterval + Latency
                               /\ loop[l].misses \in 0..MaxMisses
<1>1. \A b \in Beat : /\ b.timer \in Int /\ 0 - Latency <= b.timer
                      /\ b.timer <= HeartbeatInterval + Latency /\ b.misses \in 0..MaxMisses
  BY Constants DEF Beat, Timer
<1>2. \A r \in Recovery : /\ r.timer \in Int /\ 0 - Latency <= r.timer
                          /\ r.timer <= RecoveryInterval + Latency
                          /\ r.pc \in {"dead", "stale", "prune"}
  BY Constants DEF Recovery, Timer
<1>3. \A q \in Loop : /\ q.timer \in Int /\ 0 - Latency <= q.timer
                      /\ q.timer <= LockRenewInterval + Latency /\ q.misses \in 0..MaxMisses
  BY Constants DEF Loop, Timer
<1>4. beat \in [Procs -> Beat] /\ recovery \in [Procs -> Recovery] /\ loop \in [Loops -> Loop]
  BY DEF TypeOK
<1> QED
  BY <1>1, <1>2, <1>3, <1>4

LEMMA TypeInit == Init => TypeOK
<1> SUFFICES ASSUME Init PROVE TypeOK
  OBVIOUS
<1>1. 0 \in Nat /\ 0 <= Latency
  BY Constants
<1>2. Beaten(0) \in Beat /\ Slept(0) \in Recovery /\ Idle(0) \in Loop
      /\ Idle(0).pc = "idle" /\ Idle(0).job = NULL
  BY <1>1, Records
<1>3. [status |-> "queued", locked_by |-> NULL, age |-> 0] \in Job
  BY RequeuedIs DEF Requeued
<1> QED
  BY <1>2, <1>3, Constants, LeaseTypes DEF Init, TypeOK

\* The loops have a job exactly while it has a handler or a result, and while it has a
\* handler of a live process they may sleep.
Shapes ==
    \A l \in Loops : /\ loop[l].job # NULL <=> loop[l].pc \in {"running", "reporting"}
                     /\ \/ loop[l].pc = "idle" \/ loop[l].timer <= 0
                        \/ loop[l].pc = "running" /\ Serving(Home[l])

\* The end of the tasks of a process.
LEMMA TypeEnd ==
    ASSUME TypeOK, NEW p \in Procs, EndTasks(p)
    PROVE  /\ beat' \in [Procs -> Beat] /\ recovery' \in [Procs -> Recovery]
           /\ loop' \in [Loops -> Loop] /\ grace' \in [Procs -> 0..GracePeriod]
           /\ missed' \in [Procs -> 0..MaxMisses]
           /\ \A l \in Loops :
                 \/ loop'[l] = Idle(0) /\ Idle(0).pc = "idle" /\ Idle(0).job = NULL
                 \/ loop'[l] = loop[l] /\ (Home[l] = p => loop[l].timer <= 0)
<1>1. 0 \in Nat /\ 0 <= Latency
  BY Constants
<1>2. Beaten(0) \in Beat /\ Slept(0) \in Recovery /\ Idle(0) \in Loop
      /\ Idle(0).pc = "idle" /\ Idle(0).job = NULL
  BY <1>1, Records
<1>3. \A l \in Loops : loop[l].timer \in Int
  BY Timers
<1>4. /\ beat' \in [Procs -> Beat] /\ recovery' \in [Procs -> Recovery]
      /\ grace' \in [Procs -> 0..GracePeriod] /\ missed' \in [Procs -> 0..MaxMisses]
  BY <1>2, Constants DEF EndTasks, TypeOK
<1>5. loop' \in [Loops -> Loop]
  BY <1>2 DEF EndTasks, TypeOK
<1>6. \A l \in Loops : loop'[l] = Idle(0) \/ (loop'[l] = loop[l] /\ (Home[l] = p => loop[l].timer <= 0))
  BY <1>3 DEF EndTasks, TypeOK
<1> QED
  BY <1>2, <1>4, <1>5, <1>6

\* What a step of a process does to the types.
LEMMA TypeProc ==
    ASSUME TypeOK, NEW p \in Procs, ProcStep(p) PROVE TypeOK'
<1> USE Constants, LeaseTypes
<1>t. /\ phase \in [Procs -> {"up", "draining", "releasing", "deregistering", "down"}]
      /\ worker \in [Procs -> 0..MaxAge \cup {NULL}]
      /\ beat \in [Procs -> Beat] /\ recovery \in [Procs -> Recovery]
      /\ grace \in [Procs -> 0..GracePeriod]
      /\ job \in [Jobs -> Job] /\ loop \in [Loops -> Loop]
      /\ orphaned \in [Watched -> [Jobs -> Nat]] /\ missed \in [Procs -> 0..MaxMisses]
      /\ Shapes
  BY DEF TypeOK, Shapes
<1>n. /\ beat[p].timer \in Int /\ 0 - Latency <= beat[p].timer
      /\ recovery[p].timer \in Int /\ 0 - Latency <= recovery[p].timer
      /\ beat[p] \in Beat /\ beat[p].misses \in 0..MaxMisses
  BY Timers
<1>z. 0 \in Nat /\ 0 <= Latency /\ Beaten(0) \in Beat /\ Slept(0) \in Recovery
  <2>1. 0 \in Nat /\ 0 <= Latency
    OBVIOUS
  <2> QED
    BY <2>1, Records
\* The statements of a process that leave its phase and the loops alone.
<1>a. ASSUME UNCHANGED <<phase, grace, loop, orphaned>>,
             worker' \in [Procs -> 0..MaxAge \cup {NULL}], beat' \in [Procs -> Beat],
             recovery' \in [Procs -> Recovery], job' \in [Jobs -> Job],
             missed' \in [Procs -> 0..MaxMisses]
      PROVE  TypeOK'
  BY <1>t, <1>a DEF TypeOK, Shapes, Serving
\* The ends of the tasks.
<1>b. ASSUME EndTasks(p), NEW ph \in {"releasing", "down"}, phase' = [phase EXCEPT ![p] = ph],
             UNCHANGED <<worker, job, orphaned>>
      PROVE  TypeOK'
  <2>1. /\ beat' \in [Procs -> Beat] /\ recovery' \in [Procs -> Recovery]
        /\ loop' \in [Loops -> Loop] /\ grace' \in [Procs -> 0..GracePeriod]
        /\ missed' \in [Procs -> 0..MaxMisses]
        /\ \A l \in Loops :
              \/ loop'[l] = Idle(0) /\ Idle(0).pc = "idle" /\ Idle(0).job = NULL
              \/ loop'[l] = loop[l] /\ (Home[l] = p => loop[l].timer <= 0)
    BY <1>b, TypeEnd
  <2>2. phase' \in [Procs -> {"up", "draining", "releasing", "deregistering", "down"}]
        /\ \A q \in Procs : q # p => phase'[q] = phase[q]
    BY <1>b, <1>t
  <2>3. \A l \in Loops : /\ loop'[l].job # NULL <=> loop'[l].pc \in {"running", "reporting"}
                         /\ \/ loop'[l].pc = "idle" \/ loop'[l].timer <= 0
                            \/ loop'[l].pc = "running" /\ Serving(Home[l])'
    <3> SUFFICES ASSUME NEW l \in Loops
                 PROVE  /\ loop'[l].job # NULL <=> loop'[l].pc \in {"running", "reporting"}
                        /\ \/ loop'[l].pc = "idle" \/ loop'[l].timer <= 0
                           \/ loop'[l].pc = "running" /\ Serving(Home[l])'
      OBVIOUS
    <3>1. CASE loop'[l] = Idle(0)
      BY <2>1, <3>1, <1>z, Records
    <3>2. CASE loop'[l] = loop[l] /\ (Home[l] = p => loop[l].timer <= 0)
      <4>1. loop[l].job # NULL <=> loop[l].pc \in {"running", "reporting"}
        BY <1>t DEF Shapes
      <4>2. Home[l] # p => \/ loop[l].pc = "idle" \/ loop[l].timer <= 0
                           \/ loop[l].pc = "running" /\ Serving(Home[l])'
        <5>1. Home[l] \in Procs
          OBVIOUS
        <5>2. \/ loop[l].pc = "idle" \/ loop[l].timer <= 0
              \/ loop[l].pc = "running" /\ Serving(Home[l])
          BY <1>t DEF Shapes
        <5> QED
          BY <5>1, <5>2, <2>2 DEF Serving
      <4> QED
        BY <3>2, <4>1, <4>2
    <3> QED
      BY <2>1, <3>1, <3>2
  <2> QED
    BY <1>b, <1>t, <2>1, <2>2, <2>3 DEF TypeOK
<1>1. CASE Start(p)
  <2>0. PICK ago \in 0..Latency : \E rest \in Rest(0 - ago) :
          /\ worker' = [worker EXCEPT ![p] = ago]
          /\ beat' = [beat EXCEPT ![p] = Beaten(rest)]
          /\ recovery' = [recovery EXCEPT ![p] = Slept(rest)]
          /\ loop' = [l \in Loops |-> IF Home[l] = p THEN Idle(rest) ELSE loop[l]]
    BY <1>1 DEF Start
  <2>1. PICK rest \in Rest(0 - ago) :
          /\ worker' = [worker EXCEPT ![p] = ago]
          /\ beat' = [beat EXCEPT ![p] = Beaten(rest)]
          /\ recovery' = [recovery EXCEPT ![p] = Slept(rest)]
          /\ loop' = [l \in Loops |-> IF Home[l] = p THEN Idle(rest) ELSE loop[l]]
    BY <2>0
  <2>2. rest \in Nat /\ rest <= Latency /\ ago \in 0..MaxAge
    BY <2>1 DEF Rest
  <2>3. Beaten(rest) \in Beat /\ Slept(rest) \in Recovery /\ Idle(rest) \in Loop
        /\ Idle(rest).pc = "idle" /\ Idle(rest).job = NULL
    BY <2>2, Records
  <2>4. /\ worker' \in [Procs -> 0..MaxAge \cup {NULL}]
        /\ beat' \in [Procs -> Beat] /\ recovery' \in [Procs -> Recovery]
        /\ loop' \in [Loops -> Loop]
    BY <2>1, <2>2, <2>3, <1>t
  <2>5. /\ phase' = [phase EXCEPT ![p] = "up"] /\ missed' = [missed EXCEPT ![p] = 0]
        /\ orphaned' = [q \in Watched |-> IF q = p THEN [j \in Jobs |-> 0] ELSE orphaned[q]]
        /\ UNCHANGED <<grace, job>>
    BY <1>1 DEF Start
  <2>6. \A l \in Loops : /\ loop'[l].job # NULL <=> loop'[l].pc \in {"running", "reporting"}
                         /\ \/ loop'[l].pc = "idle" \/ loop'[l].timer <= 0
                            \/ loop'[l].pc = "running" /\ Serving(Home[l])'
    <3> SUFFICES ASSUME NEW l \in Loops
                 PROVE  /\ loop'[l].job # NULL <=> loop'[l].pc \in {"running", "reporting"}
                        /\ \/ loop'[l].pc = "idle" \/ loop'[l].timer <= 0
                           \/ loop'[l].pc = "running" /\ Serving(Home[l])'
      OBVIOUS
    <3>1. CASE Home[l] = p
      BY <2>1, <2>3, <3>1
    <3>2. CASE Home[l] # p
      <4>1. loop'[l] = loop[l] /\ phase'[Home[l]] = phase[Home[l]]
        BY <2>1, <2>5, <3>2, <1>t
      <4> QED
        BY <4>1, <1>t DEF Shapes, Serving
    <3> QED
      BY <3>1, <3>2
  <2>7. orphaned' \in [Watched -> [Jobs -> Nat]] /\ missed' \in [Procs -> 0..MaxMisses]
        /\ phase' \in [Procs -> {"up", "draining", "releasing", "deregistering", "down"}]
    BY <2>5, <1>t
  <2> QED
    BY <1>t, <2>4, <2>5, <2>6, <2>7 DEF TypeOK
<1>2. CASE Heartbeat(p)
  <2>0. beat[p].timer <= 0 /\ UNCHANGED <<phase, recovery, grace, job, loop, orphaned, missed>>
    BY <1>2 DEF Heartbeat
  <2>1. CASE \E ago \in Ago(beat[p].timer), rest \in Rest(beat[p].timer) :
                /\ worker' = [worker EXCEPT ![p] = ago]
                /\ beat' = [beat EXCEPT ![p] = Beaten(rest)]
    <3>1. PICK ago \in Ago(beat[p].timer), rest \in Rest(beat[p].timer) :
                /\ worker' = [worker EXCEPT ![p] = ago]
                /\ beat' = [beat EXCEPT ![p] = Beaten(rest)]
      BY <2>1
    <3>2. ago \in Nat /\ ago <= Latency /\ rest \in Nat /\ rest <= Latency
      BY <1>n, <2>0, Answers
    <3>3. Beaten(rest) \in Beat
      BY <3>2, Records
    <3>5. ago \in 0..MaxAge
      BY <3>2
    <3>4. worker' \in [Procs -> 0..MaxAge \cup {NULL}] /\ beat' \in [Procs -> Beat]
      BY <3>1, <3>3, <3>5, <1>t
    <3> QED
      BY <1>a, <1>t, <2>0, <3>4
  <2>2. CASE /\ beat[p].misses < MaxMisses
             /\ beat' = [beat EXCEPT ![p] = [timer |-> HeartbeatInterval, misses |-> @.misses + 1]]
             /\ UNCHANGED worker
    <3>1. [timer |-> HeartbeatInterval, misses |-> beat[p].misses + 1] \in Beat
      BY <1>n, <2>2 DEF Beat, Timer
    <3>2. beat' \in [Procs -> Beat]
      BY <2>2, <3>1, <1>t
    <3> QED
      BY <1>a, <1>t, <2>0, <2>2, <3>2
  <2> QED
    BY <1>2, <2>1, <2>2 DEF Heartbeat
<1>3. CASE RequestShutdown(p)
  <2>1. phase' = [phase EXCEPT ![p] = "draining"] /\ phase[p] = "up"
        /\ UNCHANGED <<worker, grace, job, loop, orphaned, missed>>
    BY <1>3 DEF RequestShutdown
  <2>2. beat' \in [Procs -> Beat] /\ recovery' \in [Procs -> Recovery]
    BY <1>3, <1>t, <1>z DEF RequestShutdown
  <2>3. \A q \in Procs : Serving(q) => Serving(q)'
    BY <2>1, <1>t DEF Serving
  <2>4. phase' \in [Procs -> {"up", "draining", "releasing", "deregistering", "down"}]
    BY <2>1, <1>t
  <2> QED
    BY <1>t, <2>1, <2>2, <2>3, <2>4 DEF TypeOK, Shapes
<1>4. CASE EndDrain(p) \/ LoopFails(p) \/ Crash(p)
  BY <1>4, <1>b DEF EndDrain, LoopFails, Crash
<1>5. CASE ReleaseWorkerJobs(p) \/ DeregisterWorker(p)
  <2>1. job' \in [Jobs -> Job]
    BY <1>5, <1>t, RequeuedIs DEF ReleaseWorkerJobs, RequeueAll, DeregisterWorker
  <2>2. worker' \in [Procs -> 0..MaxAge \cup {NULL}]
    BY <1>5, <1>t DEF ReleaseWorkerJobs, DeregisterWorker
  <2>3. \A q \in Procs : Serving(q) => Serving(q)'
    BY <1>5, <1>t DEF Serving, ReleaseWorkerJobs, DeregisterWorker
  <2>4. phase' \in [Procs -> {"up", "draining", "releasing", "deregistering", "down"}]
        /\ UNCHANGED <<beat, recovery, grace, loop, orphaned, missed>>
    BY <1>5, <1>t DEF ReleaseWorkerJobs, DeregisterWorker
  <2> QED
    BY <1>t, <2>1, <2>2, <2>3, <2>4 DEF TypeOK, Shapes
<1>6. ASSUME NEW pc \in {"dead", "stale", "prune"}, NEW next \in {"dead", "stale", "prune"},
             NEW sleep \in {0, RecoveryInterval}, next = "dead" \/ sleep = 0,
             Recovering(p, pc, next, sleep)
      PROVE  recovery' \in [Procs -> Recovery] /\ UNCHANGED <<phase, beat, grace, loop, orphaned>>
  <2>1. PICK rest \in Rest(recovery[p].timer) :
          recovery' = [recovery EXCEPT ![p] =
                          IF Serving(p) THEN [pc |-> next, timer |-> sleep + rest] ELSE Slept(0)]
    BY <1>6 DEF Recovering
  <2>2. recovery[p].timer <= 0 /\ UNCHANGED <<phase, beat, grace, loop, orphaned>>
    BY <1>6 DEF Recovering
  <2>3. rest \in Nat /\ rest <= Latency
    BY <1>n, <2>2, Answers
  <2>4. [pc |-> next, timer |-> sleep + rest] \in Recovery
    BY <2>3 DEF Recovery, Timer
  <2> QED
    BY <2>1, <2>2, <2>4, <1>z, <1>t
<1>7. CASE RecoverDeadWorkers(p)
  <2>1. recovery' \in [Procs -> Recovery] /\ UNCHANGED <<phase, beat, grace, loop, orphaned>>
    BY <1>6, <1>7 DEF RecoverDeadWorkers
  <2>2. job' \in [Jobs -> Job] /\ worker' \in [Procs -> 0..MaxAge \cup {NULL}]
    BY <1>7, <1>t, RequeuedIs DEF RecoverDeadWorkers, RequeueAll
  <2>3. UNCHANGED missed
    BY <1>7 DEF RecoverDeadWorkers
  <2> QED
    BY <1>a, <1>t, <2>1, <2>2, <2>3
<1>8. CASE RecoverStale(p)
  <2>1. recovery' \in [Procs -> Recovery] /\ UNCHANGED <<phase, beat, grace, loop, orphaned>>
    BY <1>6, <1>8 DEF RecoverStale
  <2>2. job' \in [Jobs -> Job] /\ UNCHANGED worker
    BY <1>8, <1>t, RequeuedIs DEF RecoverStale, RequeueAll
  <2>3. missed' \in [Procs -> 0..MaxMisses]
    BY <1>8, <1>t DEF RecoverStale
  <2> QED
    BY <1>a, <1>t, <2>1, <2>2, <2>3
<1>9. CASE PruneFinished(p)
  <2>1. recovery' \in [Procs -> Recovery] /\ UNCHANGED <<phase, beat, grace, loop, orphaned>>
    BY <1>6, <1>9 DEF PruneFinished
  <2>2. UNCHANGED <<worker, job, missed>>
    BY <1>9 DEF PruneFinished
  <2> QED
    BY <1>a, <1>t, <2>1, <2>2
<1> QED
  BY <1>1, <1>2, <1>3, <1>4, <1>5, <1>7, <1>8, <1>9 DEF ProcStep

\* What a step of a claim loop does to the types.
LEMMA TypeLoop ==
    ASSUME TypeOK, NEW l \in Loops, LoopStep(l) PROVE TypeOK'
<1> USE Constants, LeaseTypes
<1>t. /\ phase \in [Procs -> {"up", "draining", "releasing", "deregistering", "down"}]
      /\ job \in [Jobs -> Job] /\ loop \in [Loops -> Loop]
      /\ orphaned \in [Watched -> [Jobs -> Nat]]
      /\ Shapes
  BY DEF TypeOK, Shapes
<1>n. /\ loop[l] \in Loop /\ loop[l].timer \in Int /\ 0 - Latency <= loop[l].timer
      /\ loop[l].misses \in 0..MaxMisses /\ Home[l] \in Procs
      /\ loop[l].pc \in {"claiming", "reporting"} => loop[l].timer <= 0
      /\ loop[l].job # NULL <=> loop[l].pc \in {"running", "reporting"}
      /\ loop[l].job \in Jobs \cup {NULL}
  <2>1. loop[l] \in Loop /\ loop[l].timer \in Int /\ 0 - Latency <= loop[l].timer
        /\ loop[l].misses \in 0..MaxMisses
    BY Timers
  <2> QED
    BY <2>1, <1>t DEF Shapes, Loop
<1>z. 0 \in Nat /\ 0 <= Latency /\ 0 \in 0..MaxMisses
  OBVIOUS
<1>u. UNCHANGED <<phase, worker, beat, recovery, grace, missed>>
  BY DEF LoopStep, AskForJob, Claim, ClaimNothing, RenewLock, HandlerReturns, Report
\* A step puts a record into loop[l] and leaves the other loops alone.
<1>a. ASSUME NEW r \in Loop, loop' = [loop EXCEPT ![l] = r],
             r.job # NULL <=> r.pc \in {"running", "reporting"},
             r.pc = "idle" \/ r.timer <= 0 \/ (r.pc = "running" /\ Serving(Home[l])),
             job' \in [Jobs -> Job], orphaned' \in [Watched -> [Jobs -> Nat]]
      PROVE  TypeOK'
  <2>1. loop' \in [Loops -> Loop]
    BY <1>a, <1>t
  <2>2. \A k \in Loops : /\ loop'[k].job # NULL <=> loop'[k].pc \in {"running", "reporting"}
                         /\ \/ loop'[k].pc = "idle" \/ loop'[k].timer <= 0
                            \/ loop'[k].pc = "running" /\ Serving(Home[k])'
    <3> SUFFICES ASSUME NEW k \in Loops
                 PROVE  /\ loop'[k].job # NULL <=> loop'[k].pc \in {"running", "reporting"}
                        /\ \/ loop'[k].pc = "idle" \/ loop'[k].timer <= 0
                           \/ loop'[k].pc = "running" /\ Serving(Home[k])'
      OBVIOUS
    <3>1. Serving(Home[k])' <=> Serving(Home[k])
      BY <1>u DEF Serving
    <3>2. CASE k = l
      <4>1. loop'[k] = r
        BY <1>a, <1>t, <3>2
      <4> QED
        BY <1>a, <3>1, <3>2, <4>1
    <3>3. CASE k # l
      <4>1. loop'[k] = loop[k]
        BY <1>a, <1>t, <3>3
      <4> QED
        BY <3>1, <4>1, <1>t DEF Shapes
    <3> QED
      BY <3>2, <3>3
  <2>3. /\ phase' \in [Procs -> {"up", "draining", "releasing", "deregistering", "down"}]
        /\ worker' \in [Procs -> 0..MaxAge \cup {NULL}]
        /\ beat' \in [Procs -> Beat] /\ recovery' \in [Procs -> Recovery]
        /\ grace' \in [Procs -> 0..GracePeriod] /\ missed' \in [Procs -> 0..MaxMisses]
    BY <1>u DEF TypeOK
  <2> QED
    BY <1>a, <2>1, <2>2, <2>3 DEF TypeOK
\* It is over.
<1>b. ASSUME NEW rest \in Nat, rest <= Latency, loop' = [loop EXCEPT ![l] = Idle(rest)],
             job' \in [Jobs -> Job], orphaned' \in [Watched -> [Jobs -> Nat]]
      PROVE  TypeOK'
  <2>1. Idle(rest) \in Loop /\ Idle(rest).pc = "idle" /\ Idle(rest).job = NULL
    BY <1>b, Records
  <2> QED
    BY <1>a, <1>b, <2>1
<1>1. CASE AskForJob(l)
  <2> DEFINE r == [loop[l] EXCEPT !.pc = "claiming"]
  <2>1. /\ loop' = [loop EXCEPT ![l] = r] /\ loop[l].timer = 0 /\ loop[l].pc = "idle"
        /\ UNCHANGED <<job, orphaned>>
    BY <1>1, <1>t DEF AskForJob, Free
  <2>2. r \in Loop /\ r.job = loop[l].job /\ r.pc = "claiming" /\ r.timer = loop[l].timer
    BY <1>n DEF Loop
  <2>3. r.job = NULL /\ r.timer <= 0
    BY <2>1, <2>2, <1>n
  <2>4. job' \in [Jobs -> Job] /\ orphaned' \in [Watched -> [Jobs -> Nat]]
    BY <2>1, <1>t
  <2> HIDE DEF r
  <2> QED
    BY <1>a, <2>1, <2>2, <2>3, <2>4
<1>2. ASSUME NEW j \in Jobs, Claim(l, j) PROVE TypeOK'
  <2>1. loop[l].timer <= 0 /\ orphaned' \in [Watched -> [Jobs -> Nat]]
    BY <1>2, <1>t, <1>n DEF Claim
  <2>2. PICK ago \in Ago(loop[l].timer), rest \in Rest(loop[l].timer) :
          /\ job' = [job EXCEPT ![j] = [status |-> "running", locked_by |-> l, age |-> ago]]
          /\ \/ /\ Serving(Home[l])
                /\ loop' = [loop EXCEPT ![l] = [pc |-> "running", job |-> j, misses |-> 0,
                                                timer |-> LockRenewInterval + rest]]
             \/ loop' = [loop EXCEPT ![l] = Idle(rest)]
    BY <1>2 DEF Claim
  <2>3. ago \in Nat /\ ago <= Latency /\ rest \in Nat /\ rest <= Latency
    BY <2>1, <1>n, Answers
  <2>4. [status |-> "running", locked_by |-> l, age |-> ago] \in Job
    BY <2>3 DEF Job
  <2>5. job' \in [Jobs -> Job]
    BY <2>2, <2>4, <1>t
  <2>6. CASE loop' = [loop EXCEPT ![l] = Idle(rest)]
    BY <1>b, <2>1, <2>3, <2>5, <2>6
  <2>7. CASE /\ Serving(Home[l])
             /\ loop' = [loop EXCEPT ![l] = [pc |-> "running", job |-> j, misses |-> 0,
                                             timer |-> LockRenewInterval + rest]]
    <3> DEFINE r == [pc |-> "running", job |-> j, misses |-> 0, timer |-> LockRenewInterval + rest]
    <3>1. LockRenewInterval + rest \in Timer(LockRenewInterval)
      BY <2>3 DEF Timer
    <3>2. r \in Loop /\ r.job # NULL /\ r.pc = "running"
      BY <3>1, <1>z DEF Loop
    <3>3. loop' = [loop EXCEPT ![l] = r]
      BY <2>7
    <3> HIDE DEF r
    <3> QED
      BY <1>a, <2>1, <2>5, <2>7, <3>2, <3>3
  <2> QED
    BY <2>2, <2>6, <2>7
<1>3. CASE ClaimNothing(l)
  BY <1>3, <1>b, <1>t, <1>z DEF ClaimNothing
\* The renewal was answered with an error or with true.
<1>r. ASSUME NEW rest \in Nat, rest <= Latency, NEW m \in 0..MaxMisses, Renewing(l, rest, m),
             loop[l].pc = "running", job' \in [Jobs -> Job], UNCHANGED orphaned
      PROVE  TypeOK'
  <2> DEFINE r == [loop[l] EXCEPT !.timer = LockRenewInterval + rest, !.misses = m]
  <2>0. rest \in Nat /\ rest <= Latency /\ loop[l] \in Loop /\ m \in 0..MaxMisses
    BY <1>n, <1>r
  <2>1. r \in Loop /\ r.job = loop[l].job /\ r.pc = loop[l].pc
    <3>1. LockRenewInterval + rest \in Timer(LockRenewInterval)
      BY <2>0 DEF Timer
    <3> QED
      BY <2>0, <3>1 DEF Loop
  <2>2. CASE Serving(Home[l])
    <3>1. loop' = [loop EXCEPT ![l] = r]
      BY <1>r, <2>2 DEF Renewing
    <3> HIDE DEF r
    <3> QED
      BY <1>a, <1>n, <1>r, <1>t, <2>1, <2>2, <3>1
  <2>3. CASE ~ Serving(Home[l])
    <3>1. loop' = [loop EXCEPT ![l] = Idle(0)]
      BY <1>r, <2>3 DEF Renewing
    <3> QED
      BY <1>b, <1>r, <1>t, <1>z, <3>1
  <2> QED
    BY <2>2, <2>3
<1>4. CASE RenewLock(l)
  <2>0. loop[l].pc = "running" /\ loop[l].timer <= 0 /\ UNCHANGED orphaned
    BY <1>4 DEF RenewLock
  <2>1. CASE /\ \E ago \in Ago(loop[l].timer) : job' = [job EXCEPT ![loop[l].job].age = ago]
             /\ \E rest \in Rest(loop[l].timer) : Renewing(l, rest, 0)
    <3>1. PICK ago \in Ago(loop[l].timer) : job' = [job EXCEPT ![loop[l].job].age = ago]
      BY <2>1
    <3>2. PICK rest \in Rest(loop[l].timer) : Renewing(l, rest, 0)
      BY <2>1
    <3>3. ago \in Nat /\ ago <= Latency /\ rest \in Nat /\ rest <= Latency
      BY <2>0, <1>n, Answers
    <3>4. loop[l].job \in Jobs
      BY <2>0, <1>n
    <3>5. [job[loop[l].job] EXCEPT !.age = ago] \in Job
      BY <3>3, <3>4, <1>t, Relocked
    <3>6. job' \in [Jobs -> Job]
      BY <3>1, <3>4, <3>5, <1>t
    <3> QED
      BY <1>r, <1>z, <2>0, <3>2, <3>3, <3>6
  <2>2. CASE (\E rest \in Rest(loop[l].timer) : loop' = [loop EXCEPT ![l] = Idle(rest)]) /\ UNCHANGED job
    <3>1. PICK rest \in Rest(loop[l].timer) : loop' = [loop EXCEPT ![l] = Idle(rest)]
      BY <2>2
    <3>2. rest \in Nat /\ rest <= Latency
      BY <2>0, <1>n, Answers
    <3> QED
      BY <1>b, <1>t, <2>0, <2>2, <3>1, <3>2
  <2>3. CASE loop[l].misses < MaxMisses /\ Renewing(l, 0, loop[l].misses + 1) /\ UNCHANGED job
    <3>1. loop[l].misses + 1 \in 0..MaxMisses
      BY <2>3, <1>n
    <3> QED
      BY <1>r, <1>t, <1>z, <2>0, <2>3, <3>1
  <2> QED
    BY <1>4, <2>1, <2>2, <2>3 DEF RenewLock
<1>5. CASE HandlerReturns(l)
  <2> DEFINE r == [loop[l] EXCEPT !.pc = "reporting", !.timer = 0]
  <2>1. r \in Loop /\ r.job = loop[l].job /\ r.pc = "reporting" /\ r.timer = 0
    BY <1>n, Returned
  <2>2. loop' = [loop EXCEPT ![l] = r] /\ loop[l].pc = "running" /\ UNCHANGED <<job, orphaned>>
    BY <1>5, <1>t DEF HandlerReturns
  <2>3. r.job # NULL /\ r.timer <= 0
    BY <2>1, <2>2, <1>n
  <2>4. job' \in [Jobs -> Job] /\ orphaned' \in [Watched -> [Jobs -> Nat]]
    BY <2>2, <1>t
  <2> HIDE DEF r
  <2> QED
    BY <1>a, <2>1, <2>2, <2>3, <2>4
<1>6. CASE Report(l)
  <2>1. \A s \in {"done", "queued"} : [Requeued EXCEPT !.status = s] \in Job
    BY RequeuedIs DEF Requeued, Job
  <2>2. job' \in [Jobs -> Job] /\ UNCHANGED orphaned /\ loop[l].pc = "reporting"
    BY <1>6, <2>1, <1>t DEF Report
  <2>3. PICK rest \in Rest(loop[l].timer) : loop' = [loop EXCEPT ![l] = Idle(rest)]
    BY <1>6 DEF Report
  <2>4. rest \in Nat /\ rest <= Latency
    BY <2>2, <1>n, Answers
  <2> QED
    BY <1>b, <1>t, <2>2, <2>3, <2>4
<1> QED
  BY <1>1, <1>2, <1>3, <1>4, <1>5, <1>6 DEF LoopStep

\* A tick moves timers within their bounds, because an urgent statement stops it.
LEMMA TypeTick == ASSUME TypeOK, Tick PROVE TypeOK'
<1> USE Constants, LeaseTypes
<1>1. worker' \in [Procs -> 0..MaxAge \cup {NULL}]
  BY DEF TypeOK, Tick, Older
<1>2. beat' \in [Procs -> Beat]
  <2>1. SUFFICES ASSUME NEW p \in Procs
                 PROVE  [beat[p] EXCEPT !.timer = @ - 1] \in Beat /\ beat[p] \in Beat
    BY DEF Tick
  <2>2. beat[p] \in Beat /\ beat[p].timer # 0 - Latency
    BY <2>1 DEF TypeOK, Tick, Urgent
  <2> QED
    BY <2>2 DEF Beat, Timer
<1>3. recovery' \in [Procs -> Recovery]
  <2>1. SUFFICES ASSUME NEW p \in Procs
                 PROVE  [recovery[p] EXCEPT !.timer = @ - 1] \in Recovery /\ recovery[p] \in Recovery
    BY DEF Tick
  <2>2. recovery[p] \in Recovery /\ recovery[p].timer # 0 - Latency
    BY <2>1 DEF TypeOK, Tick, Urgent
  <2> QED
    BY <2>2 DEF Recovery, Timer
<1>4. grace' \in [Procs -> 0..GracePeriod]
  <2>1. SUFFICES ASSUME NEW p \in Procs, phase[p] = "draining"
                 PROVE  grace[p] - 1 \in 0..GracePeriod
    BY DEF TypeOK, Tick
  <2>2. grace[p] \in 0..GracePeriod /\ grace[p] # 0
    BY <2>1 DEF TypeOK, Tick, Urgent
  <2> QED
    BY <2>2
<1>5. job' \in [Jobs -> Job]
  <2>1. SUFFICES ASSUME NEW j \in Jobs PROVE [job[j] EXCEPT !.age = Older(@)] \in Job
    BY DEF TypeOK, Tick
  <2>2. job[j] \in Job
    BY DEF TypeOK
  <2> QED
    BY <2>2 DEF Job, Older
<1>6. \A l \in Loops : /\ loop'[l] \in Loop
                        /\ loop'[l].pc = loop[l].pc /\ loop'[l].job = loop[l].job
                        /\ loop'[l].timer \in {loop[l].timer, loop[l].timer - 1}
                        /\ loop[l].timer \in Int
  <2> SUFFICES ASSUME NEW l \in Loops
               PROVE  /\ loop'[l] \in Loop
                      /\ loop'[l].pc = loop[l].pc /\ loop'[l].job = loop[l].job
                      /\ loop'[l].timer \in {loop[l].timer, loop[l].timer - 1}
                      /\ loop[l].timer \in Int
    OBVIOUS
  <2>1. loop[l] \in Loop /\ loop[l].timer \in Int /\ 0 - Latency <= loop[l].timer
    BY Timers
  <2>2. loop'[l] = IF Free(l) THEN loop[l] ELSE [loop[l] EXCEPT !.timer = @ - 1]
    BY DEF Tick
  <2>3. ~ Free(l) => loop[l].timer # 0 - Latency
    BY DEF Tick, Urgent
  <2> QED
    BY <2>1, <2>2, <2>3 DEF Loop, Timer
<1>7. loop' \in [Loops -> Loop]
  BY <1>6 DEF Tick
<1>8. orphaned' \in [Watched -> [Jobs -> Nat]]
  <2>1. \A n \in Nat : Longer(n) \in Nat
    BY DEF Longer
  <2> QED
    BY <2>1 DEF TypeOK, Tick
<1>9. UNCHANGED <<phase, missed>>
  BY DEF Tick
<1>10. \A l \in Loops : /\ loop'[l].job # NULL <=> loop'[l].pc \in {"running", "reporting"}
                        /\ \/ loop'[l].pc = "idle" \/ loop'[l].timer <= 0
                           \/ loop'[l].pc = "running" /\ Serving(Home[l])'
  <2> SUFFICES ASSUME NEW l \in Loops
               PROVE  /\ loop'[l].job # NULL <=> loop'[l].pc \in {"running", "reporting"}
                      /\ \/ loop'[l].pc = "idle" \/ loop'[l].timer <= 0
                         \/ loop'[l].pc = "running" /\ Serving(Home[l])'
    OBVIOUS
  <2>1. /\ loop[l].job # NULL <=> loop[l].pc \in {"running", "reporting"}
        /\ \/ loop[l].pc = "idle" \/ loop[l].timer <= 0
           \/ loop[l].pc = "running" /\ Serving(Home[l])
    BY DEF TypeOK
  <2>2. Serving(Home[l])' <=> Serving(Home[l])
    BY <1>9 DEF Serving
  <2>3. /\ loop'[l].pc = loop[l].pc /\ loop'[l].job = loop[l].job
        /\ loop[l].timer <= 0 => loop'[l].timer <= 0
    BY <1>6
  <2> QED
    BY <2>1, <2>2, <2>3
<1> QED
  BY <1>1, <1>2, <1>3, <1>4, <1>5, <1>7, <1>8, <1>9, <1>10 DEF TypeOK

LEMMA TypeNext == TypeOK /\ [Next]_vars => TypeOK'
<1> SUFFICES ASSUME TypeOK, [Next]_vars PROVE TypeOK'
  OBVIOUS
<1>1. CASE UNCHANGED vars
  BY <1>1 DEF vars, TypeOK, Serving
<1>2. CASE Next
  BY <1>2, TypeTick, TypeProc, TypeLoop DEF Next
<1> QED
  BY <1>1, <1>2

\* The ages, timers and failure counts of every reachable state are within their bounds, a
\* claim loop has a job exactly while it has a handler or a result to send, and nothing of
\* an ended process sleeps on: it has only what it has sent.
THEOREM TypeCorrect == Spec => []TypeOK
<1> QED
  BY TypeInit, TypeNext, PTL DEF Spec
-----------------------------------------------------------------------------
(* No recovery of a live handler's job *)

\* The numbers of a process, a loop and a job.
LEMMA Numbers ==
    ASSUME TypeOK
    PROVE  /\ \A p \in Procs : /\ worker[p] # NULL => worker[p] \in Nat
                               /\ grace[p] \in Nat /\ grace[p] <= GracePeriod
                               /\ Budget(beat[p].misses, HeartbeatInterval) \in Nat
           /\ \A l \in Loops : /\ loop[l].pc \in {"running", "reporting"} => loop[l].job \in Jobs
                               /\ loop[l].pc \in {"claiming", "reporting"} => loop[l].timer <= 0
                               /\ Budget(loop[l].misses, LockRenewInterval) \in Nat
           /\ \A j \in Jobs : job[j] \in Job /\ job[j].age \in Nat
<1> USE Constants
<1>1. \A p \in Procs : /\ worker[p] # NULL => worker[p] \in Nat
                       /\ grace[p] \in Nat /\ grace[p] <= GracePeriod
  BY DEF TypeOK
<1>2. \A l \in Loops : /\ loop[l].pc \in {"running", "reporting"} => loop[l].job \in Jobs
                       /\ loop[l].pc \in {"claiming", "reporting"} => loop[l].timer <= 0
  <2>1. \A q \in Loop : q.job # NULL => q.job \in Jobs
    BY DEF Loop
  <2> QED
    BY <2>1 DEF TypeOK
<1>3. \A j \in Jobs : job[j] \in Job
  BY DEF TypeOK
<1>4. \A q \in Job : q.age \in Nat
  BY DEF Job
<1>5. \A p \in Procs : Budget(beat[p].misses, HeartbeatInterval) \in Nat
  BY Timers, BudgetMax
<1>6. \A l \in Loops : Budget(loop[l].misses, LockRenewInterval) \in Nat
  BY Timers, BudgetMax
<1> QED
  BY <1>1, <1>2, <1>3, <1>4, <1>5, <1>6

\* A process that is up or drains is not taken for dead.
LEMMA NotSilent ==
    ASSUME TypeOK, TimingAssumption, NEW p \in Procs, Beats(p), Drains(p), Serving(p),
           NEW ago \in Nat
    PROVE  p \notin Silent(ago)
<1> DEFINE H == HeartbeatInterval
<1>1. /\ Budget(MaxMisses, H) \in Nat /\ Budget(beat[p].misses, H) \in Nat
      /\ Budget(beat[p].misses, H) <= Budget(MaxMisses, H)
  BY Timers, BudgetMax, Constants
<1>2. /\ beat[p].timer \in Int /\ 0 - Latency <= beat[p].timer
      /\ worker[p] # NULL => worker[p] \in Nat
      /\ grace[p] \in Nat
  BY Timers, Numbers
<1>3. Budget(MaxMisses, H) + Latency <= StaleAfter /\ Budget(MaxMisses, H) + GracePeriod <= StaleAfter
  BY DEF TimingAssumption
<1>4. worker[p] # NULL /\ worker[p] <= StaleAfter
  <2>1. CASE phase[p] = "up"
    BY <1>1, <1>2, <1>3, <2>1, Constants DEF Beats
  <2>2. CASE phase[p] = "draining"
    BY <1>1, <1>2, <1>3, <2>2, Constants DEF Drains
  <2> QED
    BY <2>1, <2>2 DEF Serving
<1> QED
  BY <1>2, <1>4, Constants DEF Silent

\* The lock of a busy loop is not taken for stale.
LEMMA NotStale ==
    ASSUME TypeOK, TimingAssumption, NEW l \in Loops, Fresh(l), Busy(l), NEW ago \in Nat
    PROVE  loop[l].job \notin Stale(ago)
<1> DEFINE R == LockRenewInterval
<1>1. /\ Budget(MaxMisses, R) \in Nat /\ Budget(loop[l].misses, R) \in Nat
      /\ Budget(loop[l].misses, R) <= Budget(MaxMisses, R)
  BY Timers, BudgetMax, Constants
<1>2. /\ loop[l].timer \in Int /\ 0 - Latency <= loop[l].timer
      /\ loop[l].job \in Jobs /\ job[loop[l].job].age \in Nat
  BY Timers, Numbers DEF Busy
<1>3. Budget(MaxMisses, R) + Latency <= StaleAfter
  BY DEF TimingAssumption
<1>4. job[loop[l].job].age <= StaleAfter
  BY <1>1, <1>2, <1>3, Constants DEF Fresh
<1> QED
  BY <1>2, <1>4, Constants DEF Stale

\* Heartbeats and the grace period keep a process ahead of stale_after.
LEMMA ProcNext ==
    ASSUME TypeOK, TypeOK', TimingAssumption, NEW q \in Procs, Beats(q), Drains(q), Next
    PROVE  Beats(q)' /\ Drains(q)'
<1> USE Constants, LeaseTypes
<1> DEFINE H == HeartbeatInterval
<1>t. /\ phase \in [Procs -> {"up", "draining", "releasing", "deregistering", "down"}]
      /\ worker \in [Procs -> 0..MaxAge \cup {NULL}] /\ beat \in [Procs -> Beat]
      /\ grace \in [Procs -> 0..GracePeriod]
  BY DEF TypeOK
<1>n. /\ beat[q].timer \in Int /\ 0 - Latency <= beat[q].timer /\ beat[q].timer <= H + Latency
      /\ beat[q].misses \in 0..MaxMisses /\ beat[q].misses \in Nat
      /\ worker[q] # NULL => worker[q] \in Nat
      /\ grace[q] \in Nat /\ grace[q] <= GracePeriod
  BY Timers, Numbers
<1>0. /\ Budget(MaxMisses, H) \in Nat /\ Budget(beat[q].misses, H) \in Nat
      /\ Budget(0, H) = H + Latency /\ Budget(0, H) <= Budget(beat[q].misses, H)
      /\ Budget(beat[q].misses + 1, H) = Budget(beat[q].misses, H) + H + Latency
      /\ Budget(beat[q].misses, H) <= Budget(MaxMisses, H)
      /\ beat[q].misses < MaxMisses => Budget(beat[q].misses, H) + Latency <= Budget(MaxMisses, H)
  <2>1. Budget(0, H) = H + Latency
    BY BudgetSteps
  <2>2. Budget(beat[q].misses + 1, H) = Budget(beat[q].misses, H) + H + Latency
    BY <1>n, BudgetSteps
  <2>3. /\ Budget(MaxMisses, H) \in Nat /\ Budget(beat[q].misses, H) \in Nat
        /\ Budget(0, H) <= Budget(beat[q].misses, H)
        /\ Budget(beat[q].misses, H) <= Budget(MaxMisses, H)
        /\ beat[q].misses < MaxMisses => Budget(beat[q].misses, H) + Latency <= Budget(MaxMisses, H)
    BY <1>n, BudgetMax
  <2> QED
    BY <2>1, <2>2, <2>3
\* Steps that leave q alone, and steps after which it neither is up nor drains.
<1>s. ASSUME phase'[q] = phase[q], worker'[q] = worker[q], beat'[q] = beat[q], grace'[q] = grace[q]
      PROVE  Beats(q)' /\ Drains(q)'
  BY <1>s DEF Beats, Drains
<1>e. ASSUME phase'[q] \notin {"up", "draining"} PROVE Beats(q)' /\ Drains(q)'
  BY <1>e DEF Beats, Drains
<1>1. CASE Tick
  <2>1. /\ phase' = phase
        /\ worker[q] # NULL => worker'[q] # NULL /\ worker'[q] <= worker[q] + 1 /\ worker'[q] \in Nat
        /\ phase[q] = "draining" => grace'[q] = grace[q] - 1
        /\ beat'[q] = IF phase[q] # "up" /\ BeatSleeps(q) THEN beat[q]
                      ELSE [beat[q] EXCEPT !.timer = @ - 1]
    BY <1>1, <1>n DEF Tick, Older
  <2>2. beat[q] \in Beat
    BY <1>t
  <2>3. /\ beat'[q].misses = beat[q].misses
        /\ \/ beat'[q].timer = beat[q].timer - 1
           \/ beat'[q].timer = beat[q].timer /\ phase[q] # "up" /\ beat[q].timer > 0
    <3>1. CASE phase[q] # "up" /\ BeatSleeps(q)
      BY <2>1, <3>1 DEF BeatSleeps
    <3>2. CASE ~ (phase[q] # "up" /\ BeatSleeps(q))
      BY <2>1, <2>2, <3>2 DEF Beat
    <3> QED
      BY <3>1, <3>2
  <2>4. CASE phase[q] = "up"
    BY <2>1, <2>3, <2>4, <1>0, <1>n DEF Beats, Drains
  <2>5. CASE phase[q] = "draining"
    <3>1. beat'[q].timer <= 0 => beat[q].timer <= 0 \/ beat[q].timer = 1
      BY <2>3, <1>n
    <3>2. CASE beat[q].timer <= 0
      <4>1. beat'[q].timer = beat[q].timer - 1 /\ beat'[q].timer <= 0
        BY <2>3, <3>2, <1>n
      <4> QED
        BY <2>1, <2>3, <2>5, <3>2, <4>1, <1>0, <1>n DEF Beats, Drains
    <3>3. CASE beat[q].timer > 0
      <4>1. beat'[q].timer > 0
        <5>1. CASE BeatSleeps(q)
          <6>1. beat'[q] = beat[q]
            BY <2>1, <2>5, <5>1
          <6> QED
            BY <3>3, <6>1
        <5>2. CASE ~ BeatSleeps(q)
          <6>1. beat[q].timer > H /\ H > 0
            BY <3>3, <5>2, <1>n DEF BeatSleeps
          <6> QED
            BY <2>3, <6>1, <1>n
        <5> QED
          BY <5>1, <5>2
      <4> QED
        BY <2>1, <2>3, <2>5, <3>3, <4>1, <1>0, <1>n DEF Beats, Drains
    <3> QED
      BY <3>2, <3>3, <1>n
  <2> QED
    BY <2>1, <2>4, <2>5 DEF Beats, Drains
<1>2. ASSUME NEW p \in Procs, ProcStep(p) PROVE Beats(q)' /\ Drains(q)'
  <2>1. CASE Start(p)
    <3>1. PICK ago \in 0..Latency : \E rest \in Rest(0 - ago) :
            /\ worker' = [worker EXCEPT ![p] = ago]
            /\ beat' = [beat EXCEPT ![p] = Beaten(rest)]
      BY <2>1 DEF Start
    <3>2. PICK rest \in Rest(0 - ago) :
            /\ worker' = [worker EXCEPT ![p] = ago]
            /\ beat' = [beat EXCEPT ![p] = Beaten(rest)]
      BY <3>1
    <3>3. /\ ago \in Nat /\ rest \in Nat /\ ago + rest <= Latency
          /\ phase' = [phase EXCEPT ![p] = "up"] /\ grace' = grace
      BY <2>1 DEF Start, Rest
    <3>4. CASE p = q
      <4>1. /\ phase'[q] = "up" /\ worker'[q] = ago
            /\ beat'[q].timer = H + rest /\ beat'[q].misses = 0
        BY <3>2, <3>3, <3>4, <1>t DEF Beaten
      <4> QED
        BY <3>3, <4>1, <1>0 DEF Beats, Drains
    <3>5. CASE p # q
      BY <3>2, <3>3, <3>5, <1>s, <1>t
    <3> QED
      BY <3>4, <3>5
  <2>2. CASE Heartbeat(p)
    <3>0. UNCHANGED <<phase, grace>> /\ beat[p].timer <= 0
      BY <2>2 DEF Heartbeat
    <3>1. CASE p # q
      <4>1. worker'[q] = worker[q] /\ beat'[q] = beat[q]
        BY <2>2, <3>1, <1>t DEF Heartbeat
      <4> QED
        BY <3>0, <4>1, <1>s
    <3>2. CASE p = q
      <4>1. ASSUME NEW ago \in Ago(beat[q].timer), NEW rest \in Rest(beat[q].timer),
                   worker'[q] = ago, beat'[q] = Beaten(rest)
            PROVE  Beats(q)' /\ Drains(q)'
        <5>1. /\ ago \in Nat /\ rest \in Nat /\ ago + rest <= Latency
              /\ beat'[q].timer = H + rest /\ beat'[q].misses = 0
          BY <4>1, <3>0, <3>2, <1>n DEF Ago, Rest, Beaten
        <5>2. worker'[q] + beat'[q].timer <= Budget(0, H) /\ worker'[q] # NULL
          BY <4>1, <5>1, <1>0
        <5>3. worker'[q] + grace'[q] <= Budget(MaxMisses, H) + GracePeriod
          BY <4>1, <5>1, <3>0, <1>0, <1>n
        <5>4. beat'[q].timer > 0
          BY <5>1
        <5> QED
          BY <5>1, <5>2, <5>3, <5>4 DEF Beats, Drains
      <4>2. CASE /\ worker'[q] = worker[q] /\ beat[q].misses < MaxMisses
                 /\ beat'[q] = [timer |-> H, misses |-> beat[q].misses + 1]
        <5>1. beat'[q].timer = H /\ beat'[q].misses = beat[q].misses + 1 /\ H > 0
          BY <4>2
        <5>2. CASE Serving(q)
          <6>1. worker[q] # NULL /\ worker[q] \in Nat
                /\ worker[q] + beat[q].timer <= Budget(beat[q].misses, H)
            BY <3>0, <3>2, <5>2, <1>n DEF Beats, Drains, Serving
          <6>2. worker[q] + H <= Budget(beat[q].misses + 1, H)
            BY <6>1, <1>0, <1>n
          <6>3. worker[q] + grace[q] <= Budget(MaxMisses, H) + GracePeriod
            BY <6>1, <4>2, <1>0, <1>n
          <6> QED
            BY <3>0, <4>2, <5>1, <6>1, <6>2, <6>3 DEF Beats, Drains
        <5>3. CASE ~ Serving(q)
          BY <3>0, <5>3, <1>e DEF Serving
        <5> QED
          BY <5>2, <5>3
      <4> QED
        BY <2>2, <3>2, <4>1, <4>2, <1>t DEF Heartbeat
    <3> QED
      BY <3>1, <3>2
  <2>3. CASE RequestShutdown(p)
    <3>0. UNCHANGED <<worker, grace>> /\ phase' = [phase EXCEPT ![p] = "draining"] /\ phase[p] = "up"
      BY <2>3 DEF RequestShutdown
    <3>1. CASE p # q
      <4>1. beat'[q] = beat[q]
        BY <2>3, <3>1, <1>t DEF RequestShutdown
      <4> QED
        BY <3>0, <3>1, <4>1, <1>s, <1>t
    <3>2. CASE p = q
      <4>1. worker[q] # NULL /\ worker[q] \in Nat
            /\ worker[q] + beat[q].timer <= Budget(beat[q].misses, H)
            /\ phase'[q] = "draining"
        BY <3>0, <3>2, <1>n, <1>t DEF Beats
      <4>2. CASE beat[q].timer \in 0..H /\ beat' = [beat EXCEPT ![q] = Beaten(0)]
        <5>1. beat'[q].timer = H + 0 /\ H > 0
          BY <4>2, <1>t DEF Beaten
        <5>2. worker[q] + grace[q] <= Budget(MaxMisses, H) + GracePeriod
          BY <4>1, <4>2, <1>0, <1>n
        <5> QED
          BY <3>0, <4>1, <5>1, <5>2, <1>n DEF Beats, Drains
      <4>3. CASE UNCHANGED beat
        <5>1. beat[q].timer > 0 => worker[q] + grace[q] <= Budget(MaxMisses, H) + GracePeriod
          BY <4>1, <1>0, <1>n
        <5> QED
          BY <3>0, <4>1, <4>3, <5>1 DEF Beats, Drains
      <4> QED
        BY <2>3, <3>2, <4>2, <4>3 DEF RequestShutdown
    <3> QED
      BY <3>1, <3>2
  <2>4. CASE EndDrain(p) \/ LoopFails(p) \/ Crash(p)
    <3>0. /\ EndTasks(p) /\ worker' = worker
          /\ \E ph \in {"releasing", "down"} : phase' = [phase EXCEPT ![p] = ph]
      BY <2>4 DEF EndDrain, LoopFails, Crash
    <3>1. CASE p # q
      <4>1. phase'[q] = phase[q] /\ beat'[q] = beat[q] /\ grace'[q] = grace[q]
        BY <3>0, <3>1, <1>t DEF EndTasks
      <4> QED
        BY <3>0, <4>1, <1>s
    <3>2. CASE p = q
      BY <3>0, <3>2, <1>e, <1>t
    <3> QED
      BY <3>1, <3>2
  <2>5. CASE ReleaseWorkerJobs(p) \/ DeregisterWorker(p)
    <3>0. /\ UNCHANGED <<beat, grace>>
          /\ \E ph \in {"deregistering", "down"} : phase' = [phase EXCEPT ![p] = ph]
          /\ worker' = worker \/ worker' = [worker EXCEPT ![p] = NULL]
      BY <2>5 DEF ReleaseWorkerJobs, DeregisterWorker
    <3>1. CASE p # q
      <4>1. phase'[q] = phase[q] /\ worker'[q] = worker[q]
        BY <3>0, <3>1, <1>t
      <4> QED
        BY <3>0, <4>1, <1>s
    <3>2. CASE p = q
      BY <3>0, <3>2, <1>e, <1>t
    <3> QED
      BY <3>1, <3>2
  <2>6. CASE RecoverDeadWorkers(p)
    <3>1. UNCHANGED <<phase, beat, grace>>
      BY <2>6 DEF RecoverDeadWorkers, Recovering
    <3>2. CASE Serving(q)
      <4>1. \A ago \in Ago(recovery[p].timer) : q \notin Silent(ago)
        <5>1. \A ago \in Ago(recovery[p].timer) : ago \in Nat
          BY Timers DEF Ago
        <5> QED
          BY <3>2, <5>1, NotSilent
      <4>2. worker'[q] = worker[q]
        BY <2>6, <4>1 DEF RecoverDeadWorkers
      <4> QED
        BY <3>1, <4>2, <1>s
    <3>3. CASE ~ Serving(q)
      BY <3>1, <3>3, <1>e DEF Serving
    <3> QED
      BY <3>2, <3>3
  <2>7. CASE RecoverStale(p) \/ PruneFinished(p)
    BY <2>7, <1>s DEF RecoverStale, PruneFinished, Recovering
  <2> QED
    BY <1>2, <2>1, <2>2, <2>3, <2>4, <2>5, <2>6, <2>7 DEF ProcStep
<1>3. ASSUME NEW l \in Loops, LoopStep(l) PROVE Beats(q)' /\ Drains(q)'
  <2>1. UNCHANGED <<phase, worker, beat, grace>>
    BY <1>3 DEF LoopStep, AskForJob, Claim, ClaimNothing, RenewLock, HandlerReturns, Report
  <2> QED
    BY <2>1, <1>s
<1> QED
  BY <1>1, <1>2, <1>3 DEF Next

\* A busy loop keeps its lock: only its own report gives it up.
LEMMA LoopNext ==
    ASSUME IInv, TypeOK', TimingAssumption, NEW k \in Loops, Next
    PROVE  Fresh(k)'
<1> USE Constants, LeaseTypes
<1> DEFINE R == LockRenewInterval
           x == loop[k].job
<1>i. TypeOK /\ Fresh(k) /\ Beats(Home[k]) /\ Drains(Home[k]) /\ Home[k] \in Procs
  BY DEF IInv
<1>t. /\ loop \in [Loops -> Loop] /\ job \in [Jobs -> Job]
      /\ phase \in [Procs -> {"up", "draining", "releasing", "deregistering", "down"}]
  BY <1>i DEF TypeOK
<1>n. /\ loop[k].timer \in Int /\ 0 - Latency <= loop[k].timer /\ loop[k].timer <= R + Latency
      /\ loop[k].misses \in 0..MaxMisses /\ loop[k].misses \in Nat
      /\ loop[k].pc \in {"running", "reporting"} => x \in Jobs
      /\ \A j \in Jobs : job[j] \in Job /\ job[j].age \in Nat
  BY <1>i, Timers, Numbers
<1>0. /\ Budget(loop[k].misses, R) \in Nat /\ Budget(0, R) = R + Latency
      /\ Budget(loop[k].misses + 1, R) = Budget(loop[k].misses, R) + R + Latency
  <2>1. Budget(0, R) = R + Latency
    BY BudgetSteps
  <2> QED
    BY <2>1, <1>n, BudgetSteps
\* What makes k fresh, and the steps that leave k and the row of its job alone.
<1>b. Busy(k) => /\ x \in Jobs /\ job[x].age + loop[k].timer <= Budget(loop[k].misses, R)
                 /\ job[x].status = "running" /\ job[x].locked_by = k
  BY <1>i, <1>n DEF Fresh, Busy
<1>s. ASSUME loop'[k] = loop[k], Busy(k)' => Busy(k), Busy(k) => job'[x] = job[x]
      PROVE  Fresh(k)'
  BY <1>b, <1>s DEF Fresh
<1>e. ASSUME ~ Busy(k)' PROVE Fresh(k)'
  BY <1>e DEF Fresh
<1>1. CASE Tick
  <2>1. loop'[k] = IF Free(k) THEN loop[k] ELSE [loop[k] EXCEPT !.timer = @ - 1]
    BY <1>1 DEF Tick
  <2>2. loop[k] \in Loop /\ phase' = phase
    BY <1>1, <1>t DEF Tick
  <2>3. CASE ~ Busy(k)
    <3>1. loop'[k].pc = loop[k].pc
      BY <2>1, <2>2 DEF Loop
    <3> QED
      BY <2>2, <2>3, <3>1, <1>e DEF Busy, Serving
  <2>4. CASE Busy(k)
    <3>0. ~ Free(k)
      BY <2>4 DEF Busy, Free
    <3>1. /\ loop'[k].job = x
          /\ loop'[k].timer = loop[k].timer - 1 /\ loop'[k].misses = loop[k].misses
      BY <2>1, <2>2, <3>0 DEF Loop
    <3>2. x \in Jobs /\ job[x] \in Job /\ job[x].status = "running"
      BY <2>4, <1>n, <1>b
    <3>3. job'[x] = [job[x] EXCEPT !.age = Older(@)]
      BY <1>1, <3>2 DEF Tick
    <3>4. /\ job'[x].age \in Nat /\ job'[x].age <= job[x].age + 1
          /\ job'[x].status = job[x].status /\ job'[x].locked_by = job[x].locked_by
      BY <3>2, <3>3 DEF Job, Older
    <3>5. job[x].age + loop[k].timer <= Budget(loop[k].misses, R) /\ job[x].locked_by = k
      BY <2>4, <1>b
    <3>6. job'[x].age + loop'[k].timer <= Budget(loop[k].misses, R)
      BY <3>1, <3>2, <3>4, <3>5, <1>0, <1>n
    <3> QED
      BY <3>1, <3>2, <3>4, <3>5, <3>6 DEF Fresh
  <2> QED
    BY <2>3, <2>4
<1>2. ASSUME NEW p \in Procs, ProcStep(p) PROVE Fresh(k)'
  <2>1. CASE Start(p)
    <3>0. job' = job /\ phase' = [phase EXCEPT ![p] = "up"]
      BY <2>1 DEF Start
    <3>1. CASE Home[k] = p
      <4>1. \E rest : loop'[k] = Idle(rest)
        BY <2>1, <3>1 DEF Start
      <4> QED
        BY <4>1, <1>e DEF Busy, Idle
    <3>2. CASE Home[k] # p
      <4>1. loop'[k] = loop[k]
        BY <2>1, <3>2 DEF Start
      <4>2. Busy(k)' => Busy(k)
        BY <3>0, <3>2, <4>1, <1>i, <1>t DEF Busy, Serving
      <4> QED
        BY <3>0, <4>1, <4>2, <1>s
    <3> QED
      BY <3>1, <3>2
  <2>2. CASE RequestShutdown(p)
    <3>1. /\ UNCHANGED <<job, loop>> /\ phase[p] = "up"
          /\ phase' = [phase EXCEPT ![p] = "draining"]
      BY <2>2 DEF RequestShutdown
    <3>2. Busy(k)' => Busy(k)
      BY <3>1, <1>i, <1>t DEF Busy, Serving
    <3> QED
      BY <3>1, <3>2, <1>s
  <2>3. CASE EndDrain(p) \/ LoopFails(p) \/ Crash(p)
    <3>1. /\ EndTasks(p) /\ job' = job
          /\ \E ph \in {"releasing", "down"} : phase' = [phase EXCEPT ![p] = ph]
      BY <2>3 DEF EndDrain, LoopFails, Crash
    <3>2. CASE Home[k] = p
      BY <3>1, <3>2, <1>e, <1>i, <1>t DEF Busy, Serving
    <3>3. CASE Home[k] # p
      <4>1. loop'[k] = loop[k] /\ phase'[Home[k]] = phase[Home[k]]
        BY <3>1, <3>3, <1>i, <1>t DEF EndTasks
      <4>2. Busy(k)' => Busy(k)
        BY <4>1 DEF Busy, Serving
      <4> QED
        BY <3>1, <4>1, <4>2, <1>s
    <3> QED
      BY <3>2, <3>3
  <2>4. CASE ReleaseWorkerJobs(p) \/ DeregisterWorker(p)
    <3>1. /\ loop' = loop /\ ~ Serving(p)
          /\ job' = RequeueAll(LockedBy(p)) \/ job' = job
          /\ \E ph \in {"deregistering", "down"} : phase' = [phase EXCEPT ![p] = ph]
      BY <2>4 DEF ReleaseWorkerJobs, DeregisterWorker, Serving
    <3>2. Busy(k)' => Busy(k)
      BY <3>1, <1>i, <1>t DEF Busy, Serving
    <3>3. Busy(k) => x \notin LockedBy(p)
      BY <3>1, <1>b DEF LockedBy, Busy
    <3>4. Busy(k) => job'[x] = job[x]
      BY <3>1, <3>3, <1>b DEF RequeueAll
    <3> QED
      BY <3>1, <3>2, <3>4, <1>s
  <2>5. CASE RecoverDeadWorkers(p)
    <3>1. loop' = loop /\ phase' = phase
      BY <2>5 DEF RecoverDeadWorkers, Recovering
    <3>2. ASSUME Busy(k), NEW ago \in Ago(recovery[p].timer)
          PROVE  x \notin UNION {LockedBy(q) : q \in Silent(ago)}
      <4>1. ago \in Nat
        BY <1>i, Timers DEF Ago
      <4>2. Home[k] \notin Silent(ago)
        BY <3>2, <4>1, <1>i, NotSilent DEF Busy
      <4> QED
        BY <3>2, <4>2, <1>b DEF LockedBy
    <3>3. Busy(k) => job'[x] = job[x]
      BY <2>5, <3>2, <1>b DEF RecoverDeadWorkers, RequeueAll
    <3> QED
      BY <3>1, <3>3, <1>s DEF Busy, Serving
  <2>6. CASE RecoverStale(p)
    <3>1. loop' = loop /\ phase' = phase
      BY <2>6 DEF RecoverStale, Recovering
    <3>2. ASSUME Busy(k), NEW ago \in Ago(recovery[p].timer) PROVE x \notin Stale(ago)
      <4>1. ago \in Nat
        BY <1>i, Timers DEF Ago
      <4> QED
        BY <3>2, <4>1, <1>i, NotStale
    <3>3. Busy(k) => job'[x] = job[x]
      BY <2>6, <3>2, <1>b DEF RecoverStale, RequeueAll
    <3> QED
      BY <3>1, <3>3, <1>s DEF Busy, Serving
  <2>7. CASE Heartbeat(p) \/ PruneFinished(p)
    BY <2>7, <1>s DEF Heartbeat, PruneFinished, Recovering, Busy, Serving
  <2> QED
    BY <1>2, <2>1, <2>2, <2>3, <2>4, <2>5, <2>6, <2>7 DEF ProcStep
<1>3. ASSUME NEW l \in Loops, LoopStep(l) PROVE Fresh(k)'
  <2>u. phase' = phase
    BY <1>3 DEF LoopStep, AskForJob, Claim, ClaimNothing, RenewLock, HandlerReturns, Report
  <2>v. ASSUME loop'[k] = loop[k] PROVE Busy(k)' => Busy(k)
    BY <2>u, <2>v DEF Busy, Serving
  <2>n. /\ loop[l].timer \in Int /\ 0 - Latency <= loop[l].timer
        /\ loop[l].pc \in {"claiming", "reporting"} => loop[l].timer <= 0
    BY <1>i, Timers, Numbers
  <2>1. CASE AskForJob(l) \/ ClaimNothing(l)
    <3>1. CASE k # l
      <4>1. loop'[k] = loop[k] /\ job' = job
        BY <2>1, <3>1, <1>t DEF AskForJob, ClaimNothing
      <4> QED
        BY <4>1, <2>v, <1>s
    <3>2. CASE k = l
      <4>1. loop'[k].pc \in {"claiming", "idle"}
        <5>1. CASE AskForJob(l)
          <6>1. loop'[k] = [loop[k] EXCEPT !.pc = "claiming"] /\ loop[k] \in Loop
            BY <3>2, <5>1, <1>t DEF AskForJob
          <6> QED
            BY <6>1 DEF Loop
        <5>2. CASE ClaimNothing(l)
          BY <3>2, <5>2, <1>t DEF ClaimNothing, Idle
        <5> QED
          BY <2>1, <5>1, <5>2
      <4> QED
        BY <4>1, <1>e DEF Busy
    <3> QED
      BY <3>1, <3>2
  <2>2. ASSUME NEW j \in Jobs, Claim(l, j) PROVE Fresh(k)'
    <3>1. job[j].status = "queued" /\ loop[l].pc = "claiming" /\ loop[l].timer <= 0
      BY <2>2, <2>n DEF Claim
    <3>2. PICK ago \in Ago(loop[l].timer), rest \in Rest(loop[l].timer) :
            /\ job' = [job EXCEPT ![j] = [status |-> "running", locked_by |-> l, age |-> ago]]
            /\ \/ /\ Serving(Home[l])
                  /\ loop' = [loop EXCEPT ![l] = [pc |-> "running", job |-> j, misses |-> 0,
                                                  timer |-> R + rest]]
               \/ loop' = [loop EXCEPT ![l] = Idle(rest)]
      BY <2>2 DEF Claim
    <3>3. ago \in Nat /\ rest \in Nat /\ ago + rest <= Latency
      BY <3>1, <2>n DEF Ago, Rest
    <3>4. CASE k # l
      <4>1. loop'[k] = loop[k]
        BY <3>2, <3>4, <1>t
      <4>2. Busy(k) => x # j
        BY <3>1, <1>b
      <4>3. Busy(k) => job'[x] = job[x]
        BY <3>2, <4>2, <1>b, <1>t
      <4> QED
        BY <4>1, <4>3, <2>v, <1>s
    <3>5. CASE k = l /\ loop' = [loop EXCEPT ![l] = Idle(rest)]
      BY <3>5, <1>e, <1>t DEF Busy, Idle
    <3>6. CASE k = l /\ loop' = [loop EXCEPT ![l] = [pc |-> "running", job |-> j, misses |-> 0,
                                                     timer |-> R + rest]]
      <4>1. /\ loop'[k].job = j /\ loop'[k].timer = R + rest /\ loop'[k].misses = 0
        BY <3>6, <1>t
      <4>2. job'[j].status = "running" /\ job'[j].locked_by = k /\ job'[j].age = ago
        BY <3>2, <3>6, <1>t
      <4> QED
        BY <3>3, <4>1, <4>2, <1>0 DEF Fresh
    <3> QED
      BY <3>2, <3>4, <3>5, <3>6
  <2>3. CASE RenewLock(l)
    <3>1. loop[l].pc = "running" /\ loop[l].job \in Jobs /\ loop[l].timer <= 0
      BY <2>3, <1>i, Numbers DEF RenewLock
    <3>2. CASE k # l
      <4>1. loop'[k] = loop[k]
        BY <2>3, <3>2, <1>t DEF RenewLock, Renewing
      <4>2. Busy(k) /\ Holds(l) => x # loop[l].job
        BY <3>2, <1>b DEF Holds
      <4>3. Busy(k) => job'[x] = job[x]
        BY <2>3, <4>2, <1>b, <1>t DEF RenewLock
      <4> QED
        BY <4>1, <4>3, <2>v, <1>s
    <3>3. CASE k = l /\ ~ Busy(k)
      <4>1. ~ Serving(Home[l])
        BY <3>1, <3>3 DEF Busy
      <4>2. \E rest : loop'[k] = Idle(rest)
        BY <2>3, <3>3, <4>1, <1>t DEF RenewLock, Renewing
      <4> QED
        BY <4>2, <1>e DEF Busy, Idle
    <3>4. CASE k = l /\ Busy(k)
      <4>0. /\ x \in Jobs /\ loop[k] \in Loop /\ Serving(Home[k]) /\ loop[k].timer <= 0
            /\ job[x] \in Job /\ job[x].age \in Nat
            /\ job[x].age + loop[k].timer <= Budget(loop[k].misses, R)
            /\ job[x].status = "running" /\ job[x].locked_by = k
        BY <3>1, <3>4, <1>n, <1>t, <1>b DEF Busy
      <4>r. ASSUME NEW rest, NEW m, Renewing(k, rest, m)
            PROVE  /\ loop'[k].job = x /\ loop'[k].timer = R + rest /\ loop'[k].misses = m
        <5>1. loop'[k] = [loop[k] EXCEPT !.timer = R + rest, !.misses = m]
          BY <4>0, <4>r, <1>t DEF Renewing
        <5> QED
          BY <4>0, <5>1 DEF Loop
      <4>1. ASSUME NEW ago \in Ago(loop[k].timer), NEW rest \in Rest(loop[k].timer),
                   Renewing(k, rest, 0), job' = [job EXCEPT ![x].age = ago]
            PROVE  Fresh(k)'
        <5>1. /\ loop'[k].job = x /\ loop'[k].timer = R + rest /\ loop'[k].misses = 0
          BY <4>1, <4>r
        <5>2. ago \in Nat /\ rest \in Nat /\ ago + rest <= Latency
          BY <4>0, <1>n DEF Ago, Rest
        <5>3. job'[x].age = ago /\ job'[x].status = "running" /\ job'[x].locked_by = k
          <6>1. job'[x] = [job[x] EXCEPT !.age = ago]
            BY <4>0, <4>1, <1>t
          <6> QED
            BY <4>0, <6>1 DEF Job
        <5> QED
          BY <5>1, <5>2, <5>3, <1>0 DEF Fresh
      <4>2. CASE loop[k].misses < MaxMisses /\ Renewing(k, 0, loop[k].misses + 1) /\ job' = job
        <5>1. /\ loop'[k].job = x /\ loop'[k].timer = R + 0
              /\ loop'[k].misses = loop[k].misses + 1
          BY <4>2, <4>r
        <5>2. job[x].age + R <= Budget(loop[k].misses + 1, R)
          BY <4>0, <1>0, <1>n
        <5> QED
          BY <4>0, <4>2, <5>1, <5>2 DEF Fresh
      <4>3. CASE \E rest : loop' = [loop EXCEPT ![k] = Idle(rest)]
        BY <4>3, <1>e, <1>t DEF Busy, Idle
      <4> QED
        BY <2>3, <3>4, <4>1, <4>2, <4>3 DEF RenewLock
    <3> QED
      BY <3>2, <3>3, <3>4
  <2>4. CASE HandlerReturns(l)
    <3>1. job' = job /\ loop[l].pc = "running" /\ loop[l].timer >= 0 /\ Serving(Home[l])
          /\ loop' = [loop EXCEPT ![l].pc = "reporting", ![l].timer = 0]
      BY <2>4 DEF HandlerReturns
    <3>2. CASE k # l
      <4>1. loop'[k] = loop[k]
        BY <3>1, <3>2, <1>t
      <4> QED
        BY <3>1, <4>1, <2>v, <1>s
    <3>3. CASE k = l
      <4>1. loop'[k] = [loop[k] EXCEPT !.pc = "reporting", !.timer = 0] /\ loop[k] \in Loop
        BY <3>1, <3>3, <1>t
      <4>2. loop'[k].job = x /\ loop'[k].timer = 0 /\ loop'[k].misses = loop[k].misses
        BY <4>1, Returned
      <4>3. Busy(k)
        BY <3>1, <3>3 DEF Busy
      <4>4. x \in Jobs /\ job[x].age \in Nat
        BY <4>3, <1>b, <1>n
      <4>5. job[x].age + 0 <= Budget(loop[k].misses, R)
        BY <3>1, <3>3, <4>3, <4>4, <1>b, <1>n, <1>0
      <4> QED
        BY <3>1, <4>2, <4>3, <4>5, <1>b DEF Fresh
    <3> QED
      BY <3>2, <3>3
  <2>5. CASE Report(l)
    <3>1. loop[l].pc = "reporting" /\ \E rest : loop' = [loop EXCEPT ![l] = Idle(rest)]
      BY <2>5 DEF Report
    <3>2. CASE k # l
      <4>1. loop'[k] = loop[k]
        BY <3>1, <3>2, <1>t
      <4>2. Busy(k) /\ Holds(l) => x # loop[l].job
        BY <3>2, <1>b DEF Holds
      <4>3. Busy(k) => job'[x] = job[x]
        BY <2>5, <4>2, <1>b, <1>t DEF Report
      <4> QED
        BY <4>1, <4>3, <2>v, <1>s
    <3>3. CASE k = l
      BY <3>1, <3>3, <1>e, <1>t DEF Busy, Idle
    <3> QED
      BY <3>2, <3>3
  <2> QED
    BY <1>3, <2>1, <2>2, <2>3, <2>4, <2>5 DEF LoopStep
<1> QED
  BY <1>1, <1>2, <1>3 DEF Next

LEMMA InvInit == Init => IInv
  BY TypeInit DEF Init, IInv, Beats, Drains, Fresh, Busy, Idle

LEMMA InvNext == TimingAssumption /\ IInv /\ [Next]_vars => IInv'
<1> SUFFICES ASSUME TimingAssumption, IInv, [Next]_vars PROVE IInv'
  OBVIOUS
<1>1. TypeOK'
  BY TypeNext DEF IInv
<1>2. CASE UNCHANGED vars
  BY <1>1, <1>2 DEF vars, IInv, Beats, Drains, Fresh, Busy, Serving
<1>3. CASE Next
  <2>1. \A p \in Procs : Beats(p)' /\ Drains(p)'
    BY <1>1, <1>3, ProcNext DEF IInv
  <2>2. \A l \in Loops : Fresh(l)'
    BY <1>1, <1>3, LoopNext
  <2> QED
    BY <1>1, <2>1, <2>2 DEF IInv
<1> QED
  BY <1>2, <1>3

\* With any number of processes, claim loops and jobs, and for any intervals, latency and
\* failures within TimingAssumption, recover_dead_workers and recover_stale never take a
\* job from a handler that runs or reports: the next sleep of a loop starts at the answer
\* to its statement, up to MaxMisses statements fail in a row, and the heartbeats end when
\* the shutdown begins.
THEOREM LiveHandlers == TimingAssumption => (Spec => []LiveHandlerHoldsLock)
<1> SUFFICES ASSUME TimingAssumption PROVE Spec => []LiveHandlerHoldsLock
  OBVIOUS
<1>1. IInv /\ [Next]_vars => IInv'
  BY InvNext
<1>2. IInv => LiveHandlerHoldsLock
  BY DEF IInv, Fresh, Busy, LiveHandlerHoldsLock
<1> QED
  BY InvInit, <1>1, <1>2, PTL DEF Spec
-----------------------------------------------------------------------------
(* Orphans *)

\* The rounds that m failures of recover_stale in a row and the next success take.
Rounds(m) == (m + 1) * RecoveryRound

\* How long it takes until the next recover_stale is done, or the next but the one that is
\* on its way.
Until(r) ==
    r.timer + (IF r.pc = "stale" THEN Latency
               ELSE IF r.pc = "dead" THEN 2 * Latency
               ELSE RecoveryInterval + 3 * Latency)

\* The lock of j is not stale for the next recover_stale of p, perhaps because its now()
\* was taken before stale_after was over.
Young(p, j) ==
    \/ job[j].age <= StaleAfter
    \/ /\ recovery[p].pc = "stale" /\ recovery[p].timer <= 0
       /\ job[j].age + recovery[p].timer <= StaleAfter

\* What orphaned[p][j] counts is the age of the lock until it is stale, and the rounds of p
\* from then on; a job that a loop executes has not been an orphan since its claim.
Counted(p, j) ==
    /\ orphaned[p][j] <= StaleAfter + Latency + Rounds(MaxMisses)
    /\ Executing(j) => orphaned[p][j] = 0
    /\ phase[p] = "up" /\ Orphan(j) =>
          IF Young(p, j) THEN orphaned[p][j] <= job[j].age + Latency
          ELSE orphaned[p][j] + Until(recovery[p]) <= StaleAfter + Latency + Rounds(missed[p])

\* A renewal that an ended loop has sent may set locked_at of an orphan once more, but it is
\* done within Latency.
Late(p, l) ==
    loop[l].pc = "running" /\ ~ Serving(Home[l]) /\ Holds(l) =>
        orphaned[p][loop[l].job] <= 0 - loop[l].timer

\* Within a round a recovery loop only waits for the rest of an answer.
Resting == \A p \in Procs : recovery[p].pc # "dead" => recovery[p].timer <= Latency

Orphans ==
    /\ TypeOK /\ Resting
    /\ \A p \in Watched, j \in Jobs : Counted(p, j)
    /\ \A p \in Watched, l \in Loops : Late(p, l)

\* Every failure adds a round.
LEMMA RoundsSteps ==
    ASSUME NEW m \in 0..MaxMisses
    PROVE  /\ RecoveryRound \in Nat /\ Rounds(m) \in Nat /\ RecoveryRound <= Rounds(m)
           /\ Rounds(m) <= Rounds(MaxMisses) /\ Rounds(MaxMisses) \in Nat
           /\ Rounds(m + 1) = Rounds(m) + RecoveryRound
<1>1. RecoveryRound \in Nat /\ MaxMisses \in Nat /\ m \in Nat /\ m <= MaxMisses
  BY Constants DEF RecoveryRound
<1> DEFINE c == RecoveryRound
           k == MaxMisses - m
<1>2. k \in Nat /\ MaxMisses = m + k
  BY <1>1
<1>3. c \in Nat
  BY <1>1
<1> HIDE DEF k, c
<1>4. /\ m * c \in Nat /\ k * c \in Nat /\ (m + 1) * c = m * c + c /\ (m + 2) * c = m * c + c + c
      /\ (m + k + 1) * c = m * c + k * c + c
  BY <1>1, <1>2, <1>3, SMT
<1>5. Rounds(m) = m * c + c /\ Rounds(m + 1) = m * c + c + c /\ Rounds(MaxMisses) = m * c + k * c + c
  <2>1. (m + 1) + 1 = m + 2 /\ MaxMisses + 1 = m + k + 1
    BY <1>1, <1>2
  <2> QED
    BY <1>4, <2>1 DEF Rounds, c
<1> QED
  BY <1>1, <1>3, <1>4, <1>5 DEF c

\* The next recover_stale is done within a round.
LEMMA UntilIs ==
    ASSUME NEW r \in Recovery, r.pc # "dead" => r.timer <= Latency
    PROVE  /\ Until(r) \in Int /\ 0 <= Until(r) /\ Until(r) <= RecoveryRound
           /\ r.timer \in Int /\ 0 - Latency <= r.timer /\ r.pc \in {"dead", "stale", "prune"}
           /\ RecoveryRound \in Nat
<1> USE Constants
<1>1. /\ r.pc \in {"dead", "stale", "prune"} /\ r.timer \in Int /\ 0 - Latency <= r.timer
      /\ r.timer <= RecoveryInterval + Latency
  BY DEF Recovery, Timer
<1> QED
  BY <1>1 DEF Until, RecoveryRound

\* The numbers of a process and a job.
LEMMA OrphanNumbers ==
    ASSUME TypeOK, Resting, NEW p \in Procs, NEW j \in Jobs
    PROVE  /\ Until(recovery[p]) \in Int /\ 0 <= Until(recovery[p]) /\ Until(recovery[p]) <= RecoveryRound
           /\ recovery[p].timer \in Int /\ 0 - Latency <= recovery[p].timer
           /\ recovery[p].pc \in {"dead", "stale", "prune"}
           /\ missed[p] \in 0..MaxMisses /\ job[j] \in Job /\ job[j].age \in Nat
           /\ p \in Watched => orphaned[p][j] \in Nat
           /\ RecoveryRound \in Nat /\ Rounds(missed[p]) \in Nat /\ Rounds(MaxMisses) \in Nat
           /\ RecoveryRound <= Rounds(missed[p]) /\ Rounds(missed[p]) <= Rounds(MaxMisses)
<1>1. /\ recovery[p] \in Recovery /\ missed[p] \in 0..MaxMisses /\ job[j] \in Job
      /\ p \in Watched => orphaned[p][j] \in Nat
  BY DEF TypeOK
<1>2. recovery[p].pc # "dead" => recovery[p].timer <= Latency
  BY DEF Resting
<1>3. job[j].age \in Nat
  BY <1>1, Constants DEF Job
<1> QED
  BY <1>1, <1>2, <1>3, UntilIs, RoundsSteps

\* A job that has been an orphan for no longer than a statement takes, and its lock with it.
LEMMA Recent ==
    ASSUME TypeOK', Resting', NEW p \in Watched, NEW j \in Jobs,
           orphaned'[p][j] <= Latency,
           Executing(j)' => orphaned'[p][j] = 0
    PROVE  Counted(p, j)'
<1>1. p \in Procs /\ StaleAfter \in Nat /\ MaxMisses \in 0..MaxMisses /\ Latency \in Nat
  BY Constants, LeaseTypes
<1>2. /\ Until(recovery'[p]) \in Int /\ Until(recovery'[p]) <= RecoveryRound
      /\ Rounds(missed'[p]) \in Nat /\ RecoveryRound <= Rounds(missed'[p]) /\ RecoveryRound \in Nat
      /\ Rounds(MaxMisses) \in Nat /\ job'[j].age \in Nat /\ orphaned'[p][j] \in Nat
  <2>1. recovery'[p] \in Recovery /\ missed'[p] \in 0..MaxMisses /\ job'[j] \in Job
        /\ orphaned'[p][j] \in Nat
    BY <1>1 DEF TypeOK
  <2>2. recovery'[p].pc # "dead" => recovery'[p].timer <= Latency
    BY <1>1 DEF Resting
  <2>3. job'[j].age \in Nat
    BY <2>1, Constants DEF Job
  <2> QED
    BY <1>1, <2>1, <2>2, <2>3, UntilIs, RoundsSteps
<1>3. orphaned'[p][j] <= StaleAfter + Latency + Rounds(MaxMisses)
  BY <1>1, <1>2
<1>4. orphaned'[p][j] <= job'[j].age + Latency
  BY <1>1, <1>2
<1>5. orphaned'[p][j] + Until(recovery'[p]) <= StaleAfter + Latency + Rounds(missed'[p])
  BY <1>1, <1>2
<1> QED
  BY <1>3, <1>4, <1>5 DEF Counted

\* A step that takes no time: it leaves a running job alone unless a loop executes it, and
\* the recovery loop of p stays where it is, moves on, or fails once more.
LEMMA NoTime ==
    ASSUME TypeOK, Resting, TypeOK', Resting', NEW p \in Watched, NEW j \in Jobs, Counted(p, j),
           orphaned'[p][j] = orphaned[p][j],
           job'[j].status = "running" => job[j].status = "running" /\ (Executing(j) \/ job'[j] = job[j]),
           Executing(j)' => Executing(j),
           phase'[p] = "up" => phase[p] = "up",
           phase'[p] = "up" /\ job'[j] = job[j] =>
               \/ Young(p, j)' <=> Young(p, j)
               \/ /\ Young(p, j) /\ ~ Young(p, j)'
                  /\ job[j].age + recovery[p].timer <= StaleAfter
                  /\ Until(recovery'[p]) <= recovery[p].timer + RecoveryRound,
           phase'[p] = "up" /\ job'[j].status = "running" /\ job'[j] = job[j] /\ ~ Young(p, j) =>
               Until(recovery'[p]) + Rounds(missed[p]) <= Until(recovery[p]) + Rounds(missed'[p])
    PROVE  Counted(p, j)'
<1>1. p \in Procs /\ StaleAfter \in Nat /\ MaxMisses \in 0..MaxMisses /\ Latency \in Nat
  BY Constants, LeaseTypes
<1>2. /\ Until(recovery'[p]) \in Int /\ Rounds(missed'[p]) \in Nat
      /\ RecoveryRound <= Rounds(missed'[p])
  <2>1. recovery'[p] \in Recovery /\ missed'[p] \in 0..MaxMisses
    BY <1>1 DEF TypeOK
  <2>2. recovery'[p].pc # "dead" => recovery'[p].timer <= Latency
    BY <1>1 DEF Resting
  <2> QED
    BY <2>1, <2>2, UntilIs, RoundsSteps
<1>3. /\ Until(recovery[p]) \in Int /\ recovery[p].timer \in Int /\ job[j].age \in Nat
      /\ orphaned[p][j] \in Nat /\ Rounds(missed[p]) \in Nat /\ RecoveryRound \in Nat
  BY <1>1, OrphanNumbers
<1>4. CASE job'[j].status # "running"
  <2>1. /\ orphaned'[p][j] <= StaleAfter + Latency + Rounds(MaxMisses)
        /\ Executing(j)' => orphaned'[p][j] = 0
    BY DEF Counted
  <2> QED
    BY <1>4, <2>1 DEF Counted, Orphan
<1>5. CASE job'[j].status = "running" /\ Executing(j)
  <2>1. orphaned'[p][j] = 0
    BY <1>5 DEF Counted
  <2> QED
    BY <1>1, <2>1, Recent
<1>6. CASE job'[j].status = "running" /\ ~ Executing(j)
  <2>1. ~ Executing(j)' /\ job'[j] = job[j] /\ Orphan(j)
    BY <1>6 DEF Orphan
  <2>2. orphaned'[p][j] <= StaleAfter + Latency + Rounds(MaxMisses)
    BY DEF Counted
  <2>3. ASSUME phase'[p] = "up", Young(p, j)' PROVE orphaned'[p][j] <= job'[j].age + Latency
    BY <2>1, <2>3 DEF Counted
  <2>4. ASSUME phase'[p] = "up", ~ Young(p, j)'
        PROVE  orphaned'[p][j] + Until(recovery'[p]) <= StaleAfter + Latency + Rounds(missed'[p])
    <3>1. CASE Young(p, j)
      <4>1. orphaned[p][j] <= job[j].age + Latency
        BY <2>1, <2>4, <3>1 DEF Counted
      <4>2. /\ job[j].age + recovery[p].timer <= StaleAfter
            /\ Until(recovery'[p]) <= recovery[p].timer + RecoveryRound
        BY <2>1, <2>4, <3>1
      <4> QED
        BY <1>1, <1>2, <1>3, <4>1, <4>2
    <3>2. CASE ~ Young(p, j)
      <4>1. orphaned[p][j] + Until(recovery[p]) <= StaleAfter + Latency + Rounds(missed[p])
        BY <2>1, <2>4, <3>2 DEF Counted
      <4>2. Until(recovery'[p]) + Rounds(missed[p]) <= Until(recovery[p]) + Rounds(missed'[p])
        BY <1>6, <2>1, <2>4, <3>2
      <4> QED
        BY <1>1, <1>2, <1>3, <4>1, <4>2
    <3> QED
      BY <3>1, <3>2
  <2> QED
    BY <2>1, <2>2, <2>3, <2>4 DEF Counted
<1> QED
  BY <1>4, <1>5, <1>6

\* A tick counts for the orphans of a process that is up.
LEMMA OrphansTick ==
    ASSUME TypeOK, Resting, TypeOK', NEW p \in Watched, NEW j \in Jobs, Counted(p, j), Tick
    PROVE  Counted(p, j)'
<1> USE Constants, LeaseTypes
<1>1. p \in Procs
  OBVIOUS
<1>2. /\ Until(recovery[p]) \in Int /\ 0 <= Until(recovery[p]) /\ Until(recovery[p]) <= RecoveryRound
      /\ recovery[p].timer \in Int /\ 0 - Latency <= recovery[p].timer
      /\ recovery[p].pc \in {"dead", "stale", "prune"}
      /\ job[j] \in Job /\ job[j].age \in Nat /\ orphaned[p][j] \in Nat
      /\ RecoveryRound \in Nat /\ Rounds(missed[p]) \in Nat /\ Rounds(MaxMisses) \in Nat
      /\ RecoveryRound <= Rounds(missed[p]) /\ Rounds(missed[p]) <= Rounds(MaxMisses)
      /\ RecoveryRound >= RecoveryInterval /\ recovery[p] \in Recovery
      /\ recovery[p].timer # 0 - Latency
  <2>1. recovery[p].timer # 0 - Latency
    BY <1>1 DEF Tick, Urgent
  <2>2. RecoveryRound >= RecoveryInterval
    BY DEF RecoveryRound
  <2> QED
    BY <1>1, <2>1, <2>2, OrphanNumbers, Timers
<1>3. missed' = missed /\ phase' = phase
  BY DEF Tick
<1>4. orphaned'[p][j] = IF Orphan(j) /\ phase[p] = "up" THEN orphaned[p][j] + 1 ELSE 0
  <2>1. orphaned[p][j] <= OrphanBound
    BY DEF Counted, OrphanBound, Rounds
  <2>2. Longer(orphaned[p][j]) = orphaned[p][j] + 1
    BY <2>1 DEF Longer
  <2> QED
    BY <2>2 DEF Tick
<1>5. /\ job'[j].status = job[j].status /\ job'[j].locked_by = job[j].locked_by
      /\ job[j].status = "running" => job'[j].age = Older(job[j].age)
  <2>1. job'[j] = IF job[j].status = "running" THEN [job[j] EXCEPT !.age = Older(@)] ELSE job[j]
    BY DEF Tick
  <2> QED
    BY <1>2, <2>1 DEF Job
<1>6. Executing(j)' <=> Executing(j)
  <2>1. \A l \in Loops : loop'[l].job = loop[l].job
    <3>1. \A l \in Loops : loop[l] \in Loop
      BY DEF TypeOK
    <3>2. \A l \in Loops : loop'[l] = IF Free(l) THEN loop[l] ELSE [loop[l] EXCEPT !.timer = @ - 1]
      BY DEF Tick
    <3> QED
      BY <3>1, <3>2 DEF Loop
  <2> QED
    BY <1>3, <1>5, <2>1 DEF Executing, Serving
<1>7. CASE ~ (Orphan(j) /\ phase[p] = "up")
  <2>1. orphaned'[p][j] = 0
    BY <1>4, <1>7
  <2>2. orphaned'[p][j] <= StaleAfter + Latency + Rounds(MaxMisses)
    BY <1>2, <2>1
  <2> QED
    BY <1>3, <1>5, <1>6, <1>7, <2>1, <2>2 DEF Counted, Orphan
<1>8. CASE Orphan(j) /\ phase[p] = "up"
  <2>1. /\ orphaned'[p][j] = orphaned[p][j] + 1 /\ job[j].status = "running"
        /\ ~ Executing(j)' /\ job'[j].age = Older(job[j].age)
    BY <1>4, <1>5, <1>6, <1>8 DEF Orphan
  <2>2. /\ recovery'[p].pc = recovery[p].pc /\ recovery'[p].timer = recovery[p].timer - 1
        /\ Until(recovery'[p]) = Until(recovery[p]) - 1
    <3>1. recovery'[p] = [recovery[p] EXCEPT !.timer = @ - 1]
      BY <1>1, <1>8 DEF Tick
    <3>2. recovery'[p].pc = recovery[p].pc /\ recovery'[p].timer = recovery[p].timer - 1
      BY <1>2, <3>1 DEF Recovery
    <3> QED
      BY <1>2, <3>2 DEF Until
  <2>3. CASE Young(p, j)
    <3>1. orphaned[p][j] <= job[j].age + Latency
      BY <1>8, <2>3 DEF Counted
    <3>2. job[j].age <= StaleAfter + Latency - 1 \/ job[j].age <= StaleAfter
      BY <1>2, <2>3 DEF Young
    <3>3. job'[j].age = job[j].age + 1
      BY <1>2, <2>1, <3>2 DEF Older
    <3>4. orphaned'[p][j] <= job'[j].age + Latency
      BY <1>2, <2>1, <3>1, <3>3
    <3>5. orphaned'[p][j] <= StaleAfter + Latency + Rounds(MaxMisses)
      <4>1. RecoveryRound >= Latency + 1 /\ RecoveryRound >= 1
        BY DEF RecoveryRound
      <4> QED
        BY <1>2, <2>1, <3>1, <3>2, <4>1
    <3>6. ASSUME ~ Young(p, j)'
          PROVE  orphaned'[p][j] + Until(recovery'[p]) <= StaleAfter + Latency + Rounds(missed[p])
      <4>1. ~ (recovery[p].pc = "stale" /\ recovery[p].timer <= 0
               /\ job[j].age + recovery[p].timer <= StaleAfter)
        BY <1>2, <2>2, <3>3, <3>6 DEF Young
      <4>2. job[j].age <= StaleAfter
        BY <2>3, <4>1 DEF Young
      <4> QED
        BY <1>2, <2>1, <2>2, <3>1, <4>2
    <3> QED
      BY <1>3, <2>1, <3>4, <3>5, <3>6 DEF Counted
  <2>4. CASE ~ Young(p, j)
    <3>1. orphaned[p][j] + Until(recovery[p]) <= StaleAfter + Latency + Rounds(missed[p])
      BY <1>8, <2>4 DEF Counted
    <3>2. job'[j].age \in Nat /\ (job'[j].age = job[j].age + 1 \/ job'[j].age > StaleAfter + Latency)
      BY <1>2, <2>1 DEF Older
    <3>3. ~ Young(p, j)'
      BY <1>2, <2>2, <2>4, <3>2 DEF Young
    <3>4. 0 <= Until(recovery'[p])
      BY <1>2, <2>2 DEF Until
    <3>5. orphaned'[p][j] <= StaleAfter + Latency + Rounds(MaxMisses)
      BY <1>2, <2>1, <2>2, <3>1, <3>4
    <3>6. orphaned'[p][j] + Until(recovery'[p]) <= StaleAfter + Latency + Rounds(missed[p])
      BY <1>2, <2>1, <2>2, <3>1
    <3> QED
      BY <1>3, <2>1, <3>3, <3>5, <3>6 DEF Counted
  <2> QED
    BY <2>3, <2>4
<1> QED
  BY <1>7, <1>8

LEMMA RestingNext ==
    ASSUME TypeOK, Resting, [Next]_vars
    PROVE  Resting'
<1> USE Constants
<1> SUFFICES ASSUME NEW p \in Procs PROVE recovery'[p].pc # "dead" => recovery'[p].timer <= Latency
  BY DEF Resting
<1>0. /\ recovery \in [Procs -> Recovery] /\ recovery[p] \in Recovery
      /\ recovery[p].timer \in Int /\ (recovery[p].pc # "dead" => recovery[p].timer <= Latency)
  BY Timers DEF Resting, TypeOK
<1>1. CASE recovery'[p] = recovery[p]
  BY <1>0, <1>1
<1>2. CASE Tick
  <2>1. \/ recovery'[p] = recovery[p]
        \/ recovery'[p] = [recovery[p] EXCEPT !.timer = @ - 1]
    BY <1>2 DEF Tick
  <2>2. CASE recovery'[p] = [recovery[p] EXCEPT !.timer = @ - 1]
    <3>1. recovery'[p].pc = recovery[p].pc /\ recovery'[p].timer = recovery[p].timer - 1
      BY <1>0, <2>2 DEF Recovery
    <3> QED
      BY <1>0, <3>1
  <2> QED
    BY <1>1, <2>1, <2>2
<1>3. ASSUME NEW q \in Procs, ProcStep(q)
      PROVE  recovery'[p].pc # "dead" => recovery'[p].timer <= Latency
  <2>1. CASE Start(q) \/ RequestShutdown(q) \/ EndDrain(q) \/ LoopFails(q) \/ Crash(q)
    <3>1. recovery'[p] = recovery[p] \/ \E rest : recovery'[p] = Slept(rest)
      BY <2>1, <1>0 DEF Start, RequestShutdown, EndDrain, LoopFails, Crash, EndTasks
    <3>2. ASSUME NEW rest, recovery'[p] = Slept(rest) PROVE recovery'[p].pc = "dead"
      BY <3>2 DEF Slept
    <3> QED
      BY <1>1, <3>1, <3>2
  <2>2. CASE Heartbeat(q) \/ ReleaseWorkerJobs(q) \/ DeregisterWorker(q)
    BY <2>2, <1>1 DEF Heartbeat, ReleaseWorkerJobs, DeregisterWorker
  <2>3. CASE RecoverDeadWorkers(q) \/ RecoverStale(q) \/ PruneFinished(q)
    <3>1. PICK pc, next, sleep : Recovering(q, pc, next, sleep) /\ (next = "dead" \/ sleep = 0)
      BY <2>3 DEF RecoverDeadWorkers, RecoverStale, PruneFinished
    <3>2. PICK rest \in Rest(recovery[q].timer) :
            recovery' = [recovery EXCEPT ![q] =
                            IF Serving(q) THEN [pc |-> next, timer |-> sleep + rest] ELSE Slept(0)]
      BY <3>1 DEF Recovering
    <3>3. rest \in Nat /\ rest <= Latency
      <4>1. recovery[q].timer \in Int /\ 0 - Latency <= recovery[q].timer /\ recovery[q].timer <= 0
        BY <3>1, Timers DEF Recovering
      <4> QED
        BY <4>1, Answers
    <3>4. CASE p = q
      <4>1. CASE Serving(q)
        <5>1. recovery'[p].pc = next /\ recovery'[p].timer = sleep + rest
          BY <1>0, <3>2, <3>4, <4>1
        <5> QED
          BY <3>1, <3>3, <5>1
      <4>2. CASE ~ Serving(q)
        BY <1>0, <3>2, <3>4, <4>2 DEF Slept
      <4> QED
        BY <4>1, <4>2
    <3>5. CASE p # q
      BY <1>0, <1>1, <3>2, <3>5
    <3> QED
      BY <3>4, <3>5
  <2> QED
    BY <1>3, <2>1, <2>2, <2>3 DEF ProcStep
<1>4. ASSUME NEW l \in Loops, LoopStep(l) PROVE recovery'[p] = recovery[p]
  BY <1>4 DEF LoopStep, AskForJob, Claim, ClaimNothing, RenewLock, HandlerReturns, Report
<1>5. CASE UNCHANGED vars
  BY <1>1, <1>5 DEF vars
<1> QED
  BY <1>1, <1>2, <1>3, <1>4, <1>5 DEF Next

\* What a step of a process does to the loops, the jobs and orphaned.
LEMMA ProcEffects ==
    ASSUME TypeOK, NEW q \in Procs, ProcStep(q)
    PROVE  /\ job' = job \/ \E S : job' = RequeueAll(S)
           /\ \A l \in Loops : \/ \E rest : loop'[l] = Idle(rest)
                               \/ /\ loop'[l] = loop[l]
                                  /\ \/ Serving(Home[l])' <=> Serving(Home[l])
                                     \/ ~ Serving(Home[l])' /\ loop[l].timer <= 0
                                     \/ loop[l].pc = "idle"
           /\ \A p \in Watched : \/ p = q /\ Start(q) /\ orphaned'[p] = [j \in Jobs |-> 0]
                                 \/ orphaned'[p] = orphaned[p] /\ ~ (p = q /\ Start(q))
<1>t. /\ phase \in [Procs -> {"up", "draining", "releasing", "deregistering", "down"}]
      /\ loop \in [Loops -> Loop] /\ \A l \in Loops : Home[l] \in Procs /\ loop[l].timer \in Int
  BY Timers, LeaseTypes DEF TypeOK
<1>1. job' = job \/ \E S : job' = RequeueAll(S)
  BY DEF ProcStep, Start, Heartbeat, RequestShutdown, EndDrain, LoopFails, ReleaseWorkerJobs,
         DeregisterWorker, Crash, RecoverDeadWorkers, RecoverStale, PruneFinished, Recovering
<1>2. \A p \in Watched : \/ p = q /\ Start(q) /\ orphaned'[p] = [j \in Jobs |-> 0]
                         \/ orphaned'[p] = orphaned[p] /\ ~ (p = q /\ Start(q))
  <2>1. CASE Start(q)
    <3>1. orphaned' = [r \in Watched |-> IF r = q THEN [j \in Jobs |-> 0] ELSE orphaned[r]]
      BY <2>1 DEF Start
    <3> QED
      BY <2>1, <3>1
  <2>2. CASE ~ Start(q)
    <3>1. orphaned' = orphaned
      BY <2>2 DEF ProcStep, Heartbeat, RequestShutdown, EndDrain, LoopFails, ReleaseWorkerJobs,
           DeregisterWorker, Crash, RecoverDeadWorkers, RecoverStale, PruneFinished, Recovering
    <3> QED
      BY <2>2, <3>1
  <2> QED
    BY <2>1, <2>2
<1>3. ASSUME NEW l \in Loops
      PROVE  \/ \E rest : loop'[l] = Idle(rest)
             \/ /\ loop'[l] = loop[l]
                /\ \/ Serving(Home[l])' <=> Serving(Home[l])
                   \/ ~ Serving(Home[l])' /\ loop[l].timer <= 0
                   \/ loop[l].pc = "idle"
  <2>1. CASE Start(q)
    <3>1. CASE Home[l] = q
      BY <2>1, <3>1 DEF Start
    <3>2. CASE Home[l] # q
      <4>1. loop'[l] = loop[l] /\ phase'[Home[l]] = phase[Home[l]]
        BY <2>1, <3>2, <1>t DEF Start
      <4> QED
        BY <4>1 DEF Serving
    <3> QED
      BY <3>1, <3>2
  <2>2. CASE EndDrain(q) \/ LoopFails(q) \/ Crash(q)
    <3>1. EndTasks(q) /\ \E ph \in {"releasing", "down"} : phase' = [phase EXCEPT ![q] = ph]
      BY <2>2 DEF EndDrain, LoopFails, Crash
    <3>2. CASE Home[l] = q
      <4>1. loop'[l] = Idle(0) \/ (loop'[l] = loop[l] /\ loop[l].timer <= 0)
        BY <3>1, <3>2, <1>t DEF EndTasks
      <4>2. ~ Serving(Home[l])'
        BY <3>1, <3>2, <1>t DEF Serving
      <4> QED
        BY <4>1, <4>2
    <3>3. CASE Home[l] # q
      <4>1. loop'[l] = loop[l] /\ phase'[Home[l]] = phase[Home[l]]
        BY <3>1, <3>3, <1>t DEF EndTasks
      <4> QED
        BY <4>1 DEF Serving
    <3> QED
      BY <3>2, <3>3
  <2>3. CASE RequestShutdown(q) \/ ReleaseWorkerJobs(q) \/ DeregisterWorker(q)
    <3>1. /\ loop' = loop
          /\ \/ phase[q] = "up" /\ phase' = [phase EXCEPT ![q] = "draining"]
             \/ /\ phase[q] \in {"releasing", "deregistering"}
                /\ \E ph \in {"deregistering", "down"} : phase' = [phase EXCEPT ![q] = ph]
      BY <2>3 DEF RequestShutdown, ReleaseWorkerJobs, DeregisterWorker
    <3>2. phase'[Home[l]] = phase[Home[l]] \/ Home[l] = q
      BY <3>1, <1>t
    <3>3. Serving(Home[l])' <=> Serving(Home[l])
      BY <3>1, <3>2, <1>t DEF Serving
    <3> QED
      BY <3>1, <3>3
  <2>4. CASE Heartbeat(q) \/ RecoverDeadWorkers(q) \/ RecoverStale(q) \/ PruneFinished(q)
    <3>1. UNCHANGED <<phase, loop>>
      BY <2>4 DEF Heartbeat, RecoverDeadWorkers, RecoverStale, PruneFinished, Recovering
    <3> QED
      BY <3>1 DEF Serving
  <2> QED
    BY <2>1, <2>2, <2>3, <2>4 DEF ProcStep
<1> QED
  BY <1>1, <1>2, <1>3

\* The renewals of ended loops.
LEMMA LateNext ==
    ASSUME Orphans, NEW p \in Watched, NEW k \in Loops, [Next]_vars
    PROVE  Late(p, k)'
<1> USE Constants, LeaseTypes
<1> DEFINE x == loop[k].job
<1>t. /\ TypeOK /\ Late(p, k) /\ p \in Procs /\ Home[k] \in Procs
      /\ loop \in [Loops -> Loop] /\ job \in [Jobs -> Job] /\ orphaned \in [Watched -> [Jobs -> Nat]]
      /\ loop[k].timer \in Int
  <2>1. TypeOK
    BY DEF Orphans
  <2> QED
    BY <2>1, Timers DEF Orphans, TypeOK
<1>x. loop[k].pc = "running" => x \in Jobs
  BY <1>t, Numbers
\* The loop stays where it is, and its job with the one that holds it.
<1>s. ASSUME loop'[k] = loop[k], x \in Jobs => orphaned'[p][x] <= orphaned[p][x],
             x \in Jobs => orphaned'[p][x] \in Nat,
             Holds(k)' /\ x \in Jobs => Holds(k),
             \/ Serving(Home[k])' <=> Serving(Home[k])
             \/ ~ Serving(Home[k])' /\ loop[k].timer <= 0
      PROVE  Late(p, k)'
  <2> SUFFICES ASSUME loop[k].pc = "running", ~ Serving(Home[k])', Holds(k)'
               PROVE  orphaned'[p][x] <= 0 - loop[k].timer
    BY <1>s DEF Late
  <2>1. Holds(k) /\ x \in Jobs
    BY <1>s, <1>x
  <2>2. CASE Serving(Home[k])
    <3>1. loop[k].timer <= 0
      BY <1>s, <2>2
    <3>2. Executing(x)
      BY <2>1, <2>2 DEF Executing, Holds
    <3>3. orphaned[p][x] = 0
      BY <2>1, <3>2 DEF Orphans, Counted
    <3> QED
      BY <1>s, <1>t, <2>1, <3>1, <3>3
  <2>3. CASE ~ Serving(Home[k])
    <3>1. orphaned[p][x] <= 0 - loop[k].timer
      BY <2>1, <2>3, <1>t DEF Late
    <3>2. orphaned[p][x] \in Nat
      BY <2>1, <1>t
    <3> QED
      BY <1>s, <1>t, <2>1, <3>1, <3>2
  <2> QED
    BY <2>2, <2>3
<1>e. ASSUME loop'[k].pc # "running" \/ Serving(Home[k])' PROVE Late(p, k)'
  BY <1>e DEF Late
<1>1. CASE UNCHANGED vars
  BY <1>1, <1>t DEF vars, Late, Holds, Serving
<1>2. CASE Tick
  <2>1. loop'[k] = IF Free(k) THEN loop[k] ELSE [loop[k] EXCEPT !.timer = @ - 1]
    BY <1>2 DEF Tick
  <2>2. phase' = phase
    BY <1>2 DEF Tick
  <2>3. CASE loop[k].pc = "running" /\ ~ Serving(Home[k])
    <3>1. loop'[k].job = x /\ loop'[k].timer = loop[k].timer - 1 /\ x \in Jobs
      BY <2>1, <2>3, <1>t, <1>x DEF Free, Loop
    <3>2. job'[x].locked_by = job[x].locked_by
      <4>1. job'[x] = job[x] \/ job'[x] = [job[x] EXCEPT !.age = Older(@)]
        BY <1>2, <3>1 DEF Tick
      <4>2. job[x] \in Job
        BY <1>t, <3>1
      <4> QED
        BY <4>1, <4>2 DEF Job
    <3>3. \/ orphaned'[p][x] = orphaned[p][x] + 1 \/ orphaned'[p][x] = orphaned[p][x]
          \/ orphaned'[p][x] = 0
      BY <1>2, <3>1 DEF Tick, Longer
    <3>4. orphaned[p][x] \in Nat
      BY <1>t, <3>1
    <3>5. CASE Holds(k)
      <4>1. orphaned[p][x] <= 0 - loop[k].timer
        BY <2>3, <3>5, <1>t DEF Late
      <4> QED
        BY <3>1, <3>3, <3>4, <4>1, <1>t DEF Late
    <3>6. CASE ~ Holds(k)
      BY <3>1, <3>2, <3>6 DEF Late, Holds
    <3> QED
      BY <3>5, <3>6
  <2>4. CASE loop[k].pc # "running" \/ Serving(Home[k])
    <3>1. loop'[k].pc = loop[k].pc
      BY <2>1, <1>t DEF Loop
    <3> QED
      BY <2>2, <2>4, <3>1, <1>e DEF Serving
  <2> QED
    BY <2>3, <2>4
<1>3. ASSUME NEW q \in Procs, ProcStep(q) PROVE Late(p, k)'
  <2>1. CASE \E rest : loop'[k] = Idle(rest)
    BY <2>1, <1>e DEF Idle
  <2>2. CASE /\ loop'[k] = loop[k]
             /\ \/ Serving(Home[k])' <=> Serving(Home[k])
                \/ ~ Serving(Home[k])' /\ loop[k].timer <= 0
    <3>1. x \in Jobs => orphaned'[p][x] <= orphaned[p][x] /\ orphaned'[p][x] \in Nat
      <4> SUFFICES ASSUME x \in Jobs PROVE orphaned'[p][x] <= orphaned[p][x] /\ orphaned'[p][x] \in Nat
        OBVIOUS
      <4>1. orphaned[p][x] \in Nat
        BY <1>t
      <4>2. orphaned'[p][x] = 0 \/ orphaned'[p][x] = orphaned[p][x]
        BY <1>3, <1>t, ProcEffects
      <4> QED
        BY <4>1, <4>2
    <3>2. Holds(k)' /\ x \in Jobs => Holds(k)
      <4>1. job' = job \/ \E S : job' = RequeueAll(S)
        BY <1>3, <1>t, ProcEffects
      <4>2. NULL # k
        OBVIOUS
      <4> QED
        BY <2>2, <4>1, <4>2 DEF Holds, RequeueAll, Requeued
    <3> QED
      BY <2>2, <3>1, <3>2, <1>s
  <2>3. CASE loop'[k] = loop[k] /\ loop[k].pc = "idle"
    BY <2>3, <1>e
  <2> QED
    BY <1>3, <1>t, <2>1, <2>2, <2>3, ProcEffects
<1>4. ASSUME NEW l \in Loops, LoopStep(l) PROVE Late(p, k)'
  <2>0. phase' = phase
    BY <1>4 DEF LoopStep, AskForJob, Claim, ClaimNothing, RenewLock, HandlerReturns, Report
  <2>1. CASE k = l
    <3>1. CASE AskForJob(l)
      <4>1. loop'[k] = [loop[k] EXCEPT !.pc = "claiming"] /\ loop[k] \in Loop
        BY <2>1, <3>1, <1>t DEF AskForJob
      <4>2. loop'[k].pc = "claiming"
        BY <4>1 DEF Loop
      <4> QED
        BY <4>2, <1>e
    <3>2. ASSUME NEW j \in Jobs, Claim(l, j) PROVE Late(p, k)'
      <4>1. Serving(Home[k]) \/ \E rest : loop' = [loop EXCEPT ![k] = Idle(rest)]
        BY <2>1, <3>2 DEF Claim
      <4> QED
        BY <2>0, <4>1, <1>e, <1>t DEF Serving, Idle
    <3>3. CASE ClaimNothing(l) \/ Report(l)
      BY <2>1, <3>3, <1>e, <1>t DEF ClaimNothing, Report, Idle
    <3>4. CASE RenewLock(l)
      <4>1. Serving(Home[k]) \/ \E rest : loop' = [loop EXCEPT ![k] = Idle(rest)]
        BY <2>1, <3>4 DEF RenewLock, Renewing
      <4> QED
        BY <2>0, <4>1, <1>e, <1>t DEF Serving, Idle
    <3>5. CASE HandlerReturns(l)
      BY <2>0, <2>1, <3>5, <1>e DEF HandlerReturns, Serving
    <3> QED
      BY <1>4, <3>1, <3>2, <3>3, <3>4, <3>5 DEF LoopStep
  <2>2. CASE k # l
    <3>1. loop'[k] = loop[k]
      BY <1>4, <2>2, <1>t DEF LoopStep, AskForJob, Claim, ClaimNothing, RenewLock, Renewing,
                              HandlerReturns, Report
    <3>2. x \in Jobs => orphaned'[p][x] <= orphaned[p][x] /\ orphaned'[p][x] \in Nat
      <4> SUFFICES ASSUME x \in Jobs PROVE orphaned'[p][x] <= orphaned[p][x] /\ orphaned'[p][x] \in Nat
        OBVIOUS
      <4>1. orphaned[p][x] \in Nat
        BY <1>t
      <4>2. orphaned' = orphaned \/ \E j : orphaned' = [r \in Watched |-> [orphaned[r] EXCEPT ![j] = 0]]
        BY <1>4 DEF LoopStep, AskForJob, Claim, ClaimNothing, RenewLock, HandlerReturns, Report
      <4>3. orphaned'[p][x] = 0 \/ orphaned'[p][x] = orphaned[p][x]
        BY <4>2, <1>t
      <4> QED
        BY <4>1, <4>3
    <3>3. Holds(k)' /\ x \in Jobs => Holds(k)
      <4> SUFFICES ASSUME Holds(k)', x \in Jobs PROVE Holds(k)
        OBVIOUS
      <4>0. job[x] \in Job /\ job'[x].locked_by = k /\ NULL # k
        BY <3>1, <1>t DEF Holds
      <4>1. \/ job'[x] = job[x] \/ job'[x].locked_by \in {l, NULL}
            \/ \E ago : job'[x] = [job[x] EXCEPT !.age = ago]
        <5>1. ASSUME NEW j \in Jobs, Claim(l, j) PROVE job'[x] = job[x] \/ job'[x].locked_by = l
          BY <5>1, <1>t DEF Claim
        <5>2. CASE RenewLock(l)
          BY <5>2, <1>t DEF RenewLock
        <5>3. CASE Report(l)
          BY <5>3, <1>t DEF Report, Requeued
        <5>4. CASE AskForJob(l) \/ ClaimNothing(l) \/ HandlerReturns(l)
          BY <5>4 DEF AskForJob, ClaimNothing, HandlerReturns
        <5> QED
          BY <1>4, <5>1, <5>2, <5>3, <5>4 DEF LoopStep
      <4>2. job[x].locked_by = k
        BY <2>2, <4>0, <4>1 DEF Job
      <4> QED
        BY <4>2 DEF Holds
    <3> QED
      BY <2>0, <3>1, <3>2, <3>3, <1>s DEF Serving
  <2> QED
    BY <2>1, <2>2
<1> QED
  BY <1>1, <1>2, <1>3, <1>4 DEF Next

\* A loop that does not take up j executes it only if it did.
LEMMA StillExecuting ==
    ASSUME NEW j \in Jobs, Executing(j)',
           \A l \in Loops : loop'[l].job = j => loop[l].job = j /\ (Serving(Home[l])' => Serving(Home[l])),
           \A l \in Loops : job'[j].locked_by = l => job[j].locked_by = l
    PROVE  Executing(j)
  BY DEF Executing

LEMMA OrphansProc ==
    ASSUME Orphans, TypeOK', Resting', NEW p \in Watched, NEW j \in Jobs, NEW q \in Procs, ProcStep(q)
    PROVE  Counted(p, j)'
<1> USE Constants, LeaseTypes
<1>t. /\ TypeOK /\ Resting /\ Counted(p, j) /\ p \in Procs /\ j # NULL
      /\ recovery \in [Procs -> Recovery] /\ missed \in [Procs -> 0..MaxMisses] /\ job \in [Jobs -> Job]
      /\ phase \in [Procs -> {"up", "draining", "releasing", "deregistering", "down"}]
  BY DEF Orphans, TypeOK
<1>n. /\ Until(recovery[p]) \in Int /\ recovery[p].timer \in Int /\ 0 - Latency <= recovery[p].timer
      /\ recovery[p].pc \in {"dead", "stale", "prune"} /\ missed[p] \in 0..MaxMisses
      /\ Rounds(missed[p]) \in Nat /\ RecoveryRound \in Nat /\ job[j].age \in Nat
  BY <1>t, OrphanNumbers
<1>1. CASE p = q /\ Start(q)
  <2>1. orphaned'[p][j] = 0
    BY <1>1 DEF Start
  <2> QED
    BY <1>t, <2>1, Recent
<1>2. CASE ~ (p = q /\ Start(q))
  <2>1. orphaned'[p][j] = orphaned[p][j]
    BY <1>2, <1>t, ProcEffects
  <2>2. job'[j] = job[j] \/ job'[j] = Requeued
    <3>1. job' = job \/ \E S : job' = RequeueAll(S)
      BY <1>t, ProcEffects
    <3> QED
      BY <3>1 DEF RequeueAll
  <2>3. job'[j].status = "running" => job'[j] = job[j]
    BY <2>2, RequeuedIs
  <2>4. Executing(j)' => Executing(j)
    <3>1. \A l \in Loops : loop'[l].job = j => loop[l].job = j /\ (Serving(Home[l])' => Serving(Home[l]))
      <4> SUFFICES ASSUME NEW l \in Loops, loop'[l].job = j
                   PROVE  loop[l].job = j /\ (Serving(Home[l])' => Serving(Home[l]))
        OBVIOUS
      <4>1. loop'[l] = loop[l] /\ (\/ Serving(Home[l])' <=> Serving(Home[l])
                                   \/ ~ Serving(Home[l])'
                                   \/ loop[l].pc = "idle")
        <5>1. ASSUME NEW rest, loop'[l] = Idle(rest) PROVE FALSE
          BY <5>1, <1>t DEF Idle
        <5> QED
          BY <5>1, <1>t, ProcEffects
      <4>2. loop[l].pc # "idle"
        BY <4>1, <1>t DEF TypeOK
      <4> QED
        BY <4>1, <4>2
    <3>2. \A l \in Loops : job'[j].locked_by = l => job[j].locked_by = l
      BY <2>2 DEF Requeued
    <3> QED
      BY <3>1, <3>2, StillExecuting
  <2>5. phase'[p] = "up" => phase[p] = "up"
    BY <1>2, <1>t DEF ProcStep, Start, Heartbeat, RequestShutdown, EndDrain, LoopFails, ReleaseWorkerJobs,
           DeregisterWorker, Crash, RecoverDeadWorkers, RecoverStale, PruneFinished, Recovering
  \* The recovery loop stays where it is.
  <2>a. ASSUME phase'[p] = "up" => recovery'[p] = recovery[p] /\ missed'[p] = missed[p]
        PROVE  Counted(p, j)'
    <3>1. phase'[p] = "up" /\ job'[j] = job[j] => (Young(p, j)' <=> Young(p, j))
      BY <2>a DEF Young
    <3>2. phase'[p] = "up" => Until(recovery'[p]) + Rounds(missed[p]) <= Until(recovery[p]) + Rounds(missed'[p])
      BY <2>a, <1>n
    <3> QED
      BY <1>t, <2>1, <2>3, <2>4, <2>5, <3>1, <3>2, NoTime
  <2>6. CASE p # q
    <3>1. recovery'[p] = recovery[p] /\ missed'[p] = missed[p]
      BY <1>t, <2>6 DEF ProcStep, Start, Heartbeat, RequestShutdown, EndDrain, LoopFails, EndTasks,
         ReleaseWorkerJobs, DeregisterWorker, Crash, RecoverDeadWorkers, RecoverStale, PruneFinished, Recovering
    <3> QED
      BY <2>a, <3>1
  <2>7. CASE p = q
    <3>1. CASE Heartbeat(q) \/ ReleaseWorkerJobs(q) \/ DeregisterWorker(q)
      BY <2>a, <3>1 DEF Heartbeat, ReleaseWorkerJobs, DeregisterWorker
    <3>2. CASE RequestShutdown(q) \/ EndDrain(q) \/ LoopFails(q) \/ Crash(q)
      <4>1. phase'[p] # "up"
        BY <1>t, <2>7, <3>2 DEF RequestShutdown, EndDrain, LoopFails, Crash
      <4> QED
        BY <2>a, <4>1
    \* It moves on.
    <3>r. ASSUME phase'[p] = "up", NEW pc, NEW next, NEW sleep, Recovering(q, pc, next, sleep)
          PROVE  /\ recovery[p].pc = pc /\ recovery[p].timer <= 0
                 /\ \E rest \in Nat : /\ rest <= recovery[p].timer + Latency
                                      /\ recovery'[p].pc = next /\ recovery'[p].timer = sleep + rest
      <4>1. PICK rest \in Rest(recovery[q].timer) :
              recovery' = [recovery EXCEPT ![q] =
                              IF Serving(q) THEN [pc |-> next, timer |-> sleep + rest] ELSE Slept(0)]
        BY <3>r DEF Recovering
      <4>2. Serving(q)
        BY <2>5, <2>7, <3>r DEF Serving
      <4>3. recovery'[p].pc = next /\ recovery'[p].timer = sleep + rest
        BY <1>t, <2>7, <4>1, <4>2
      <4>4. rest \in Nat /\ rest <= recovery[p].timer + Latency
        BY <1>n, <2>7, <4>1 DEF Rest
      <4>5. recovery[p].pc = pc /\ recovery[p].timer <= 0
        BY <2>7, <3>r DEF Recovering
      <4> QED
        BY <4>3, <4>4, <4>5
    <3>3. CASE RecoverDeadWorkers(q)
      <4>1. CASE phase'[p] = "up"
        <5>0. Recovering(q, "dead", "stale", 0) /\ missed' = missed
          BY <3>3 DEF RecoverDeadWorkers
        <5>1. PICK rest \in Nat : /\ rest <= recovery[p].timer + Latency
                                  /\ recovery'[p].pc = "stale" /\ recovery'[p].timer = 0 + rest
          BY <3>r, <4>1, <5>0
        <5>2. recovery[p].pc = "dead" /\ recovery[p].timer <= 0
          BY <3>r, <4>1, <5>0
        <5>3. Until(recovery'[p]) <= Until(recovery[p])
          BY <1>n, <5>1, <5>2 DEF Until
        <5>4. job'[j] = job[j] => (Young(p, j)' <=> Young(p, j))
          BY <1>n, <5>1, <5>2 DEF Young
        <5>5. Until(recovery'[p]) \in Int
          BY <5>1 DEF Until
        <5>6. Until(recovery'[p]) + Rounds(missed[p]) <= Until(recovery[p]) + Rounds(missed'[p])
          BY <1>n, <5>0, <5>3, <5>5
        <5> QED
          BY <1>t, <2>1, <2>3, <2>4, <2>5, <5>4, <5>6, NoTime
      <4>2. CASE phase'[p] # "up"
        BY <2>a, <4>2
      <4> QED
        BY <4>1, <4>2
    <3>4. CASE PruneFinished(q)
      <4>1. CASE phase'[p] = "up"
        <5>0. Recovering(q, "prune", "dead", RecoveryInterval) /\ missed' = missed
          BY <3>4 DEF PruneFinished
        <5>1. PICK rest \in Nat : /\ rest <= recovery[p].timer + Latency
                                  /\ recovery'[p].pc = "dead" /\ recovery'[p].timer = RecoveryInterval + rest
          BY <3>r, <4>1, <5>0
        <5>2. recovery[p].pc = "prune" /\ recovery[p].timer <= 0
          BY <3>r, <4>1, <5>0
        <5>3. Until(recovery'[p]) <= Until(recovery[p])
          BY <1>n, <5>1, <5>2 DEF Until
        <5>4. job'[j] = job[j] => (Young(p, j)' <=> Young(p, j))
          BY <1>n, <5>1, <5>2 DEF Young
        <5>5. Until(recovery'[p]) \in Int
          BY <5>1 DEF Until
        <5>6. Until(recovery'[p]) + Rounds(missed[p]) <= Until(recovery[p]) + Rounds(missed'[p])
          BY <1>n, <5>0, <5>3, <5>5
        <5> QED
          BY <1>t, <2>1, <2>3, <2>4, <2>5, <5>4, <5>6, NoTime
      <4>2. CASE phase'[p] # "up"
        BY <2>a, <4>2
      <4> QED
        BY <4>1, <4>2
    <3>5. CASE RecoverStale(q)
      <4>1. CASE phase'[p] = "up"
        <5>0. Recovering(q, "stale", "prune", 0)
          BY <3>5 DEF RecoverStale
        <5>1. PICK rest \in Nat : /\ rest <= recovery[p].timer + Latency
                                  /\ recovery'[p].pc = "prune" /\ recovery'[p].timer = 0 + rest
          BY <3>r, <4>1, <5>0
        <5>2. recovery[p].pc = "stale" /\ recovery[p].timer <= 0
          BY <3>r, <4>1, <5>0
        <5>3. Until(recovery'[p]) <= recovery[p].timer + RecoveryRound /\ Until(recovery'[p]) \in Int
          BY <1>n, <5>1, <5>2 DEF Until, RecoveryRound
        <5>4. job'[j] = job[j] => \/ Young(p, j)' <=> Young(p, j)
                                  \/ /\ Young(p, j) /\ ~ Young(p, j)'
                                     /\ job[j].age + recovery[p].timer <= StaleAfter
          BY <1>n, <5>1, <5>2 DEF Young
        <5>5. ASSUME job'[j].status = "running", job'[j] = job[j], ~ Young(p, j)
              PROVE  Until(recovery'[p]) + Rounds(missed[p]) <= Until(recovery[p]) + Rounds(missed'[p])
          <6>1. ASSUME NEW ago \in Ago(recovery[p].timer) PROVE job' # RequeueAll(Stale(ago))
            <7>1. job[j].age - ago > StaleAfter
              <8>1. ago \in Nat /\ ago <= 0 - recovery[p].timer
                BY <1>n, <5>2, <6>1, Answers
              <8> QED
                BY <1>n, <5>2, <5>5, <8>1 DEF Young
            <7>2. j \in Stale(ago)
              BY <5>5, <7>1 DEF Stale
            <7>3. RequeueAll(Stale(ago))[j] = Requeued
              BY <7>2 DEF RequeueAll
            <7> QED
              BY <5>5, <7>3, RequeuedIs
          <6>2. missed[p] < MaxMisses /\ missed'[p] = missed[p] + 1
            BY <1>t, <2>7, <3>5, <6>1 DEF RecoverStale
          <6>3. Rounds(missed'[p]) = Rounds(missed[p]) + RecoveryRound
            BY <1>n, <6>2, RoundsSteps
          <6>4. Until(recovery[p]) = recovery[p].timer + Latency
            BY <5>2 DEF Until
          <6> QED
            BY <1>n, <5>3, <6>3, <6>4
        <5> QED
          BY <1>t, <2>1, <2>3, <2>4, <2>5, <5>3, <5>4, <5>5, NoTime
      <4>2. CASE phase'[p] # "up"
        BY <2>a, <4>2
      <4> QED
        BY <4>1, <4>2
    <3> QED
      BY <1>2, <2>7, <3>1, <3>2, <3>3, <3>4, <3>5 DEF ProcStep
  <2> QED
    BY <2>6, <2>7
<1> QED
  BY <1>1, <1>2

LEMMA OrphansLoop ==
    ASSUME Orphans, TypeOK', Resting', NEW p \in Watched, NEW j \in Jobs, NEW l \in Loops, LoopStep(l)
    PROVE  Counted(p, j)'
<1> USE Constants, LeaseTypes
<1>t. /\ TypeOK /\ Resting /\ Counted(p, j) /\ Late(p, l) /\ p \in Procs /\ j # NULL
      /\ loop \in [Loops -> Loop] /\ job \in [Jobs -> Job] /\ orphaned \in [Watched -> [Jobs -> Nat]]
  BY DEF Orphans, TypeOK
<1>n. /\ Until(recovery[p]) \in Int /\ Rounds(missed[p]) \in Nat
      /\ loop[l].timer \in Int /\ 0 - Latency <= loop[l].timer /\ loop[l] \in Loop
  BY <1>t, OrphanNumbers, Timers
<1>1. UNCHANGED <<phase, recovery, missed>>
  BY DEF LoopStep, AskForJob, Claim, ClaimNothing, RenewLock, HandlerReturns, Report
<1>2. Until(recovery'[p]) + Rounds(missed[p]) <= Until(recovery[p]) + Rounds(missed'[p])
  BY <1>1, <1>n
\* The other loops stay where they are, and this one with its job or without one.
<1>e. ASSUME \A k \in Loops : loop'[k] = loop[k] \/ loop'[k].job # j \/ loop'[k].job = loop[k].job,
             \A k \in Loops : job'[j].locked_by = k => job[j].locked_by = k
      PROVE  Executing(j)' => Executing(j)
  BY <1>1, <1>e, StillExecuting DEF Serving
<1>3. ASSUME orphaned'[p][j] = orphaned[p][j],
             job'[j].status = "running" =>
                 job[j].status = "running" /\ (Executing(j) \/ job'[j] = job[j]),
             Executing(j)' => Executing(j)
      PROVE  Counted(p, j)'
  <2>1. job'[j] = job[j] => (Young(p, j)' <=> Young(p, j))
    BY <1>1 DEF Young
  <2> QED
    BY <1>1, <1>2, <1>3, <1>t, <2>1, NoTime
<1>4. ASSUME NEW i \in Jobs, Claim(l, i) PROVE Counted(p, j)'
  <2>1. CASE i = j
    <3>1. orphaned'[p][j] = 0
      BY <1>4, <1>t, <2>1 DEF Claim
    <3> QED
      BY <1>t, <3>1, Recent
  <2>2. CASE i # j
    <3>1. orphaned'[p][j] = orphaned[p][j] /\ job'[j] = job[j]
      BY <1>4, <1>t, <2>2 DEF Claim
    <3>2. \A k \in Loops : loop'[k] = loop[k] \/ loop'[k].job \in {i, NULL}
      BY <1>4, <1>t DEF Claim, Idle
    <3>3. Executing(j)' => Executing(j)
      BY <1>e, <1>t, <2>2, <3>1, <3>2
    <3> QED
      BY <1>3, <3>1, <3>3
  <2> QED
    BY <2>1, <2>2
<1>5. CASE RenewLock(l)
  <2> DEFINE x == loop[l].job
  <2>0. orphaned' = orphaned /\ loop[l].timer <= 0 /\ loop[l].pc = "running"
    BY <1>5 DEF RenewLock
  <2>1. \A k \in Loops : loop'[k] = loop[k] \/ loop'[k].job \in {loop[k].job, NULL}
    <3>r. \A rest : Idle(rest).job = NULL
      BY DEF Idle
    <3>m. ASSUME NEW rest, NEW m, Renewing(l, rest, m), NEW k \in Loops
          PROVE  loop'[k] = loop[k] \/ loop'[k].job \in {loop[k].job, NULL}
      <4>1. CASE k # l
        BY <1>t, <3>m, <4>1 DEF Renewing
      <4>2. CASE k = l
        <5>1. loop'[l] = IF Serving(Home[l])
                         THEN [loop[l] EXCEPT !.timer = LockRenewInterval + rest, !.misses = m]
                         ELSE Idle(0)
          BY <1>t, <3>m DEF Renewing
        <5>2. [loop[l] EXCEPT !.timer = LockRenewInterval + rest, !.misses = m].job = loop[l].job
          BY <1>n DEF Loop
        <5> QED
          BY <3>r, <4>2, <5>1, <5>2
      <4> QED
        BY <4>1, <4>2
    <3>i. ASSUME NEW rest, loop' = [loop EXCEPT ![l] = Idle(rest)], NEW k \in Loops
          PROVE  loop'[k] = loop[k] \/ loop'[k].job \in {loop[k].job, NULL}
      BY <1>t, <3>i, <3>r
    <3> QED
      BY <1>5, <3>m, <3>i DEF RenewLock
  <2>2. CASE job'[j] = job[j]
    <3>1. Executing(j)' => Executing(j)
      BY <1>e, <1>t, <2>1, <2>2
    <3> QED
      BY <1>3, <2>0, <2>2, <3>1
  <2>3. CASE job'[j] # job[j]
    <3>1. Holds(l) /\ j = x /\ \E ago : job'[j] = [job[j] EXCEPT !.age = ago]
      BY <1>5, <1>t, <2>3 DEF RenewLock
    <3>2. job'[j].status = job[j].status /\ job'[j].locked_by = job[j].locked_by
      BY <1>t, <3>1 DEF Job
    <3>3. Executing(j)' => Executing(j)
      BY <1>e, <1>t, <2>1, <3>2
    <3>4. CASE Serving(Home[l])
      <4>1. Executing(j)
        BY <3>1, <3>4 DEF Executing, Holds
      <4> QED
        BY <1>3, <2>0, <3>2, <3>3, <4>1
    <3>5. CASE ~ Serving(Home[l])
      <4>1. orphaned[p][j] <= 0 - loop[l].timer
        BY <1>t, <2>0, <3>1, <3>5 DEF Late
      <4>2. orphaned'[p][j] <= Latency
        <5>1. orphaned[p][j] \in Nat
          BY <1>t
        <5> QED
          BY <1>n, <2>0, <4>1, <5>1
      <4>3. Executing(j)' => orphaned'[p][j] = 0
        BY <1>t, <2>0, <3>3 DEF Counted
      <4> QED
        BY <1>t, <4>2, <4>3, Recent
    <3> QED
      BY <3>4, <3>5
  <2> QED
    BY <2>2, <2>3
<1>6. CASE HandlerReturns(l)
  <2>1. orphaned' = orphaned /\ job' = job
    BY <1>6 DEF HandlerReturns
  <2>2. [loop[l] EXCEPT !.pc = "reporting", !.timer = 0].job = loop[l].job
    BY <1>n DEF Loop
  <2>3. \A k \in Loops : loop'[k].job = loop[k].job
    BY <1>6, <1>t, <2>2 DEF HandlerReturns
  <2>4. Executing(j)' => Executing(j)
    BY <1>e, <2>1, <2>3
  <2> QED
    BY <1>3, <2>1, <2>4
<1>7. CASE Report(l) \/ ClaimNothing(l)
  <2>1. orphaned' = orphaned /\ \E rest : loop' = [loop EXCEPT ![l] = Idle(rest)]
    BY <1>7 DEF Report, ClaimNothing
  <2>2. \A k \in Loops : loop'[k] = loop[k] \/ loop'[k].job # j
    <3>1. \A rest : Idle(rest).job = NULL
      BY DEF Idle
    <3>2. PICK rest : loop' = [loop EXCEPT ![l] = Idle(rest)]
      BY <2>1
    <3> QED
      BY <1>t, <3>1, <3>2
  <2>3. job'[j] = job[j] \/ (job'[j].status \in {"done", "queued"} /\ job'[j].locked_by = NULL)
    BY <1>7, <1>t DEF Report, ClaimNothing, Requeued
  <2>4. Executing(j)' => Executing(j)
    <3>1. \A k \in Loops : job'[j].locked_by = k => job[j].locked_by = k
      BY <2>3
    <3> QED
      BY <1>e, <2>2, <3>1
  <2> QED
    BY <1>3, <2>1, <2>3, <2>4
<1>8. CASE AskForJob(l)
  <2>1. orphaned' = orphaned /\ job' = job
    BY <1>8 DEF AskForJob
  <2>2. [loop[l] EXCEPT !.pc = "claiming"].job = loop[l].job
    BY <1>n DEF Loop
  <2>3. \A k \in Loops : loop'[k].job = loop[k].job
    BY <1>8, <1>t, <2>2 DEF AskForJob
  <2>4. Executing(j)' => Executing(j)
    BY <1>e, <2>1, <2>3
  <2> QED
    BY <1>3, <2>1, <2>4
<1> QED
  BY <1>4, <1>5, <1>6, <1>7, <1>8 DEF LoopStep

LEMMA OrphansInit == Init => Orphans
<1> SUFFICES ASSUME Init PROVE Orphans
  OBVIOUS
<1>1. TypeOK
  BY TypeInit
<1>2. Resting
  BY DEF Init, Resting, Slept
<1>3. ASSUME NEW p \in Watched, NEW j \in Jobs PROVE Counted(p, j)
  <2>1. orphaned[p][j] = 0 /\ p \in Procs /\ phase[p] = "down"
    BY LeaseTypes DEF Init
  <2>2. 0 <= StaleAfter + Latency + Rounds(MaxMisses)
    <3>1. Rounds(MaxMisses) \in Nat
      BY RoundsSteps, Constants
    <3> QED
      BY <3>1, Constants
  <2> QED
    BY <2>1, <2>2 DEF Counted
<1>4. ASSUME NEW p \in Watched, NEW l \in Loops PROVE Late(p, l)
  BY DEF Init, Late, Idle
<1> QED
  BY <1>1, <1>2, <1>3, <1>4 DEF Orphans

LEMMA OrphansNext == Orphans /\ [Next]_vars => Orphans'
<1> SUFFICES ASSUME Orphans, [Next]_vars PROVE Orphans'
  OBVIOUS
<1>1. TypeOK /\ Resting /\ TypeOK' /\ Resting'
  BY TypeNext, RestingNext DEF Orphans
<1>2. ASSUME NEW p \in Watched, NEW j \in Jobs PROVE Counted(p, j)'
  <2>1. Counted(p, j)
    BY DEF Orphans
  <2>2. CASE UNCHANGED vars
    BY <2>1, <2>2 DEF vars, Counted, Young, Orphan, Executing, Serving
  <2>3. CASE Tick
    BY <1>1, <2>1, <2>3, OrphansTick
  <2>4. ASSUME NEW q \in Procs, ProcStep(q) PROVE Counted(p, j)'
    BY <1>1, <2>4, OrphansProc
  <2>5. ASSUME NEW l \in Loops, LoopStep(l) PROVE Counted(p, j)'
    BY <1>1, <2>5, OrphansLoop
  <2> QED
    BY <2>2, <2>3, <2>4, <2>5 DEF Next
<1>3. ASSUME NEW p \in Watched, NEW l \in Loops PROVE Late(p, l)'
  BY <1>3, LateNext
<1> QED
  BY <1>1, <1>2, <1>3 DEF Orphans

\* For any number of processes, loops and jobs, any intervals and any latency: a job left
\* running without a handler, whether its process was lost, its claim's answer or its report
\* was lost, or its release failed, is not left so for longer than stale_after, a statement
\* and the rounds of run_recovery_loop of one process that stays up, where a round counts
\* the answers to all its statements; TimingAssumption is not needed.
THEOREM Recovered == Spec => []OrphanRecoveredInTime
<1>1. Orphans => OrphanRecoveredInTime
  BY DEF Orphans, Counted, OrphanRecoveredInTime, OrphanBound, Rounds
<1> QED
  BY OrphansInit, OrphansNext, <1>1, PTL DEF Spec
=============================================================================
