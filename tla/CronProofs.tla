----------------------------- MODULE CronProofs ------------------------------
(***************************************************************************)
(* Proofs about Cron, for any number of workers, any clocks within MaxSkew *)
(* and any schedule within ScheduleAssumption: an occurrence is enqueued   *)
(* once at most, not lost while a worker is up, and never an old one.      *)
(***************************************************************************)
EXTENDS Cron, TLAPS

\* A job of the definition; an occurrence may lie before the epoch.
JobRow == [status      : Statuses,
           def         : Defs,
           job_key     : Keys \cup {NULL},
           run_at      : Int,
           attempt     : Nat,
           locked_by   : Lockers \cup {NULL},
           locked_at   : Nat \cup {NULL},
           finished_at : Nat \cup {NULL}]

\* No job is later than the occurrence claimed last, and one at most holds the key.
Rows ==
    /\ \E n \in 0..MaxJobs : DOMAIN jobs = 1..n
    /\ jobs \in [DOMAIN jobs -> JobRow]
    /\ cron = NULL => DOMAIN jobs = {}
    /\ \A j \in DOMAIN jobs : /\ jobs[j].job_key = cron_job.key
                              /\ cron # NULL => jobs[j].run_at <= cron.last_run_at
    /\ \A i, j \in DOMAIN jobs :
          cron_job.key # NULL /\ Active(jobs[i]) /\ Active(jobs[j]) => i = j
    /\ OncePerOccurrence

\* What a worker found due, and when it had found it when its statement started.
Statement(w) ==
    /\ worker[w].pc # "sleeping" =>
          \E t \in Clocks : t <= now + MaxSkew /\ worker[w].due_at = LatestDue(t)
    /\ worker[w].pc = "sent" =>
          /\ worker[w].at <= now
          /\ worker[w].due_at <= worker[w].at + MaxSkew
          /\ ~ worker[w].seen /\ first # NULL => worker[w].at <= first

\* The clock and the age of the row.
Time ==
    /\ now <= MaxNow
    /\ cron # NULL => cron.created_at <= first /\ first <= now

\* A worker that is up is not held up for longer than a statement takes.
Pace(w) ==
    /\ worker[w].misses <= MaxMisses
    /\ worker[w].up => worker[w].timer >= 0 - Latency
    /\ w \in Steady => worker[w].up

Reached(d) == cron # NULL /\ cron.last_run_at >= d

Cycle == CronPoll + Latency

\* The time the failures a worker may still meet cost it.
Budget(m) == (MaxMisses - m) * Cycle

\* Until occurrence d is claimed a steady worker is on its way to it: it read its clock
\* too early, or is to read it, or has read it, early enough.
OnTime(w, d) ==
    ~ Reached(d) =>
        IF worker[w].pc # "sleeping" /\ worker[w].due_at < d
        THEN now + worker[w].timer < d + MaxSkew
        ELSE now + worker[w].timer + Budget(worker[w].misses) < d + MaxSkew + Budget(0) + Cycle

\* An occurrence the schedule leaves time for is not passed over.
Kept(d) ==
    /\ Steady # {}
    /\ first # NULL /\ first + MaxSkew < d
    /\ d + Delay + MaxSkew <= NextAfter(d)
    /\ Reached(d)
    => d \in enqueued

IInv ==
    /\ TypeOK /\ Rows /\ Time
    /\ \A w \in Workers : Statement(w) /\ Pace(w)
    /\ \A w \in Steady : \A d \in 0..MaxNow : LatestDue(d) = d => OnTime(w, d)
    /\ \A d \in 0..MaxNow : LatestDue(d) = d => Kept(d)
-----------------------------------------------------------------------------
(* Constants and records *)

LEMMA Constants ==
    /\ MaxSkew \in Nat /\ CronPoll \in Nat /\ CronPoll > 0 /\ Latency \in Nat
    /\ MaxMisses \in Nat /\ MaxJobs \in Nat /\ MaxNow \in Nat /\ Cycle \in Nat /\ Cycle > 0
  BY CronAssumption DEF Cycle

\* Products of the number of failures and the time each costs.
LEMMA BudgetSteps ==
    ASSUME NEW m \in Nat, m <= MaxMisses
    PROVE  /\ Budget(m) \in Nat /\ Budget(0) \in Nat /\ Budget(m) <= Budget(0)
           /\ m < MaxMisses => Budget(m) = Budget(m + 1) + Cycle
<1> DEFINE k == MaxMisses - m
           c == Cycle
<1>1. k \in Nat /\ c \in Nat /\ MaxMisses = m + k
  BY Constants
<1>2. Budget(m) = k * c /\ Budget(0) = (m + k) * c
  BY <1>1, Constants DEF Budget
<1>3. m < MaxMisses => Budget(m + 1) = (k - 1) * c /\ k - 1 \in Nat
  BY <1>1, Constants DEF Budget
<1> HIDE DEF k, c
<1>4. k * c \in Nat /\ m * c \in Nat /\ (m + k) * c = m * c + k * c /\ (k - 1) * c = k * c - c
  BY <1>1, SMT
<1> QED
  BY <1>1, <1>2, <1>3, <1>4 DEF c

\* What the delay consists of.
LEMMA DelayIs == Delay \in Nat /\ Delay = MaxSkew + Latency + Budget(0) + Cycle
<1>1. Budget(0) \in Nat /\ Budget(0) = MaxMisses * Cycle
  BY BudgetSteps, Constants DEF Budget
<1> DEFINE c == Cycle
<1>2. c \in Nat /\ Delay = MaxSkew + Latency + (MaxMisses + 1) * c
  BY Constants DEF Delay, Cycle
<1> HIDE DEF c
<1>3. (MaxMisses + 1) * c = MaxMisses * c + c
  BY <1>2, Constants, SMT
<1> QED
  BY <1>1, <1>2, <1>3, Constants DEF c

LEMMA ReadRecord ==
    ASSUME NEW r \in Worker, NEW d \in Int
    PROVE  LET t == [r EXCEPT !.pc = "due", !.due_at = d]
           IN  /\ t \in Worker /\ t.pc = "due" /\ t.due_at = d /\ t.up = r.up
               /\ t.timer = r.timer /\ t.misses = r.misses
  BY DEF Worker

LEMMA StoppedRecord ==
    ASSUME NEW r \in Worker
    PROVE  LET t == [r EXCEPT !.up = FALSE]
           IN  /\ t \in Worker /\ t.pc = r.pc /\ t.due_at = r.due_at /\ ~ t.up
               /\ t.misses = r.misses /\ t.at = r.at /\ t.seen = r.seen
  BY DEF Worker

LEMMA TickedRecord ==
    ASSUME NEW r \in Worker, NEW x \in Int
    PROVE  LET t == [r EXCEPT !.timer = x]
           IN  /\ t \in Worker /\ t.pc = r.pc /\ t.due_at = r.due_at /\ t.up = r.up
               /\ t.timer = x /\ t.misses = r.misses /\ t.at = r.at /\ t.seen = r.seen
  BY DEF Worker

LEMMA SleepingRecord ==
    ASSUME NEW r \in Worker, NEW x \in Int, NEW m \in Nat
    PROVE  LET t == [r EXCEPT !.timer = x, !.misses = m]
           IN  t \in Worker /\ t.pc = r.pc /\ t.up = r.up /\ t.timer = x /\ t.misses = m
  BY DEF Worker

\* The records of a worker at rest.
LEMMA Resting ==
    /\ Down \in Worker /\ ~ Down.up /\ Down.pc = "sleeping" /\ Down.misses = 0
    /\ Up \in Worker /\ Up.up /\ Up.pc = "sleeping" /\ Up.timer = 0 /\ Up.misses = 0
    /\ \A m \in Nat : /\ Asleep(m) \in Worker /\ Asleep(m).up /\ Asleep(m).pc = "sleeping"
                      /\ Asleep(m).timer = CronPoll /\ Asleep(m).misses = m
<1>1. Down \in Worker /\ ~ Down.up /\ Down.pc = "sleeping" /\ Down.misses = 0 /\ Down.timer = 0
  BY DEF Down, Worker
<1>2. Up \in Worker /\ Up.up /\ Up.pc = "sleeping" /\ Up.timer = 0 /\ Up.misses = 0
  BY <1>1 DEF Up, Worker
<1>3. ASSUME NEW m \in Nat
      PROVE  /\ Asleep(m) \in Worker /\ Asleep(m).up /\ Asleep(m).pc = "sleeping"
             /\ Asleep(m).timer = CronPoll /\ Asleep(m).misses = m
  <2>1. CronPoll \in Int
    BY Constants
  <2> DEFINE t == [Up EXCEPT !.timer = CronPoll, !.misses = m]
  <2>2. t \in Worker /\ t.pc = Up.pc /\ t.up = Up.up /\ t.timer = CronPoll /\ t.misses = m
    BY <1>2, <2>1, SleepingRecord
  <2>3. Asleep(m) = t
    BY DEF Asleep
  <2> HIDE DEF t
  <2> QED
    BY <1>2, <2>2, <2>3
<1> QED
  BY <1>1, <1>2, <1>3

LEMMA Fields ==
    ASSUME NEW r \in Worker
    PROVE  /\ r.up \in BOOLEAN /\ r.pc \in {"sleeping", "due", "sent"} /\ r.timer \in Int
           /\ r.due_at \in Int /\ r.at \in Nat /\ r.seen \in BOOLEAN /\ r.misses \in Nat
  BY DEF Worker
-----------------------------------------------------------------------------
(* What a step does to the workers *)

\* Only worker w moves.
Only(w) == \A v \in Workers \ {w} : worker'[v] = worker[v]

WorkersOK == worker \in [Workers -> Worker]

LEMMA Starts ==
    ASSUME WorkersOK, NEW w \in Workers, Start(w)
    PROVE  WorkersOK' /\ Only(w) /\ worker'[w] = Up /\ worker[w] = Down
  BY Resting DEF WorkersOK, Only, Start

LEMMA Stops ==
    ASSUME WorkersOK, NEW w \in Workers, Stop(w)
    PROVE  /\ WorkersOK' /\ Only(w) /\ w \notin Steady
           /\ \/ worker'[w] = Down
              \/ worker[w].pc = "sent" /\ worker'[w] = [worker[w] EXCEPT !.up = FALSE]
<1>1. worker[w] \in Worker
  BY DEF WorkersOK
<1> DEFINE r == IF worker[w].pc = "sent" THEN [worker[w] EXCEPT !.up = FALSE] ELSE Down
<1>2. worker' = [worker EXCEPT ![w] = r] /\ w \notin Steady
  BY DEF Stop
<1>3. r \in Worker
  BY <1>1, Resting, StoppedRecord
<1>4. (worker[w].pc = "sent" /\ r = [worker[w] EXCEPT !.up = FALSE]) \/ r = Down
  OBVIOUS
<1> HIDE DEF r
<1> QED
  BY <1>2, <1>3, <1>4 DEF WorkersOK, Only

LEMMA Reads ==
    ASSUME WorkersOK, now \in Nat, now <= MaxNow, NEW w \in Workers, ReadClock(w)
    PROVE  /\ WorkersOK' /\ Only(w)
           /\ now + Skew[w] \in Clocks /\ now + Skew[w] <= now + MaxSkew
           /\ now + Skew[w] >= now - MaxSkew
           /\ worker[w].pc = "sleeping" /\ worker[w].up /\ worker[w].timer <= 0
           /\ worker'[w] \in Worker /\ worker'[w].pc = "due"
           /\ worker'[w].due_at = LatestDue(now + Skew[w]) /\ worker'[w].up
           /\ worker'[w].timer = worker[w].timer /\ worker'[w].misses = worker[w].misses
<1>1. worker[w] \in Worker
  BY DEF WorkersOK
<1>2. /\ now + Skew[w] \in Clocks /\ now + Skew[w] <= now + MaxSkew
      /\ now + Skew[w] >= now - MaxSkew
  BY CronAssumption DEF Clocks
<1> DEFINE d == LatestDue(now + Skew[w])
           r == [worker[w] EXCEPT !.pc = "due", !.due_at = d]
<1>3. d \in Int
  BY <1>2, ScheduleAssumption
<1>4. worker' = [worker EXCEPT ![w] = r]
  BY DEF ReadClock
<1>5. worker[w].pc = "sleeping" /\ worker[w].up /\ worker[w].timer <= 0
  BY DEF ReadClock
<1> HIDE DEF d
<1>6. /\ r \in Worker /\ r.pc = "due" /\ r.due_at = d /\ r.up = worker[w].up
      /\ r.timer = worker[w].timer /\ r.misses = worker[w].misses
  BY <1>1, <1>3, ReadRecord
<1> HIDE DEF r
<1>7. worker'[w] = r /\ WorkersOK' /\ Only(w)
  BY <1>4, <1>6 DEF WorkersOK, Only
<1> QED
  BY <1>2, <1>5, <1>6, <1>7 DEF d

LEMMA Sends ==
    ASSUME WorkersOK, now \in Nat, NEW w \in Workers, Send(w)
    PROVE  /\ WorkersOK' /\ Only(w)
           /\ worker[w].pc = "due" /\ worker'[w].pc = "sent" /\ worker'[w].up = worker[w].up
           /\ worker'[w].due_at = worker[w].due_at /\ worker'[w].timer = worker[w].timer
           /\ worker'[w].misses = worker[w].misses /\ worker'[w].at = now
           /\ cron # NULL /\ cron.created_at < now => worker'[w].seen
           /\ worker'[w].seen => cron # NULL
<1>1. worker[w] \in Worker
  BY DEF WorkersOK
<1>2. PICK seen \in BOOLEAN :
        /\ cron # NULL /\ cron.created_at < now => seen
        /\ seen => cron # NULL
        /\ worker' = [worker EXCEPT ![w] = [worker[w] EXCEPT !.pc = "sent", !.at = now, !.seen = seen]]
  BY DEF Send
<1>3. worker[w].pc = "due"
  BY DEF Send
<1> DEFINE r == [worker[w] EXCEPT !.pc = "sent", !.at = now, !.seen = seen]
<1>6. /\ r \in Worker /\ r.pc = "sent" /\ r.due_at = worker[w].due_at /\ r.up = worker[w].up
      /\ r.timer = worker[w].timer /\ r.misses = worker[w].misses /\ r.at = now /\ r.seen = seen
  BY <1>1 DEF Worker
<1>8. worker' = [worker EXCEPT ![w] = r]
  BY <1>2
<1> HIDE DEF r
<1>7. worker'[w] = r /\ WorkersOK' /\ Only(w)
  BY <1>8, <1>6 DEF WorkersOK, Only
<1> QED
  BY <1>2, <1>3, <1>6, <1>7

\* Commit resets the failures, Fail counts one.
LEMMA Ends ==
    ASSUME WorkersOK, NEW w \in Workers, Commit(w) \/ Fail(w)
    PROVE  /\ WorkersOK' /\ Only(w) /\ worker[w].pc = "sent"
           /\ \E m \in Nat :
                 /\ worker'[w] = IF worker[w].up THEN Asleep(m) ELSE Down
                 /\ \/ Commit(w) /\ m = 0
                    \/ Fail(w) /\ worker[w].misses < MaxMisses /\ m = worker[w].misses + 1
<1>1. worker[w] \in Worker /\ worker[w].pc = "sent"
  BY DEF WorkersOK, Commit, Fail
<1>2. PICK m \in Nat :
        /\ worker' = [worker EXCEPT ![w] = AfterStatement(w, m)]
        /\ \/ Commit(w) /\ m = 0
           \/ Fail(w) /\ worker[w].misses < MaxMisses /\ m = worker[w].misses + 1
  BY <1>1, Fields DEF Commit, Fail
<1>3. AfterStatement(w, m) \in Worker
  BY Resting DEF AfterStatement
<1>4. worker'[w] = AfterStatement(w, m) /\ WorkersOK' /\ Only(w)
  BY <1>2, <1>3 DEF WorkersOK, Only
<1> QED
  BY <1>1, <1>2, <1>4 DEF AfterStatement

LEMMA Ticks ==
    ASSUME WorkersOK, NEW w \in Workers, Tick
    PROVE  /\ WorkersOK' /\ now' = now + 1 /\ now < MaxNow
           /\ IF worker[w].up
              THEN /\ worker[w].timer > 0 - Latency
                   /\ worker'[w] = [worker[w] EXCEPT !.timer = worker[w].timer - 1]
              ELSE worker'[w] = worker[w]
<1> DEFINE r(v) == IF worker[v].up THEN [worker[v] EXCEPT !.timer = worker[v].timer - 1]
                                   ELSE worker[v]
<1>1. \A v \in Workers : r(v) \in Worker
  <2> TAKE v \in Workers
  <2>1. worker[v] \in Worker /\ worker[v].timer - 1 \in Int
    BY Fields DEF WorkersOK
  <2>2. [worker[v] EXCEPT !.timer = worker[v].timer - 1] \in Worker
    BY <2>1, TickedRecord
  <2> QED
    BY <2>1, <2>2
<1>2. worker' = [v \in Workers |-> r(v)]
  BY DEF Tick
<1> HIDE DEF r
<1>3. WorkersOK' /\ worker'[w] = r(w)
  BY <1>1, <1>2 DEF WorkersOK
<1> QED
  BY <1>3 DEF r, Tick

\* What the statement does to the row: it never goes back, and keeps its age.
LEMMA Committed ==
    ASSUME IInv, NEW w \in Workers, Commit(w)
    PROVE  /\ worker[w] \in Worker /\ worker[w].pc = "sent"
           /\ cron' \in CronRow /\ cron' # NULL /\ first' \in Nat
           /\ cron'.last_run_at >= worker[w].due_at
           /\ Claims(worker[w].due_at) => cron'.last_run_at = worker[w].due_at
           /\ ~ Claims(worker[w].due_at) => cron' = cron
           /\ cron # NULL => /\ cron \in CronRow /\ first' = first
                             /\ cron'.created_at = cron.created_at
                             /\ cron'.last_run_at >= cron.last_run_at
           /\ cron = NULL => cron'.created_at = worker[w].at /\ first' = now
<1> DEFINE d == worker[w].due_at
           a == IF cron = NULL THEN worker[w].at ELSE cron.created_at
           n == NextAfter(d)
<1>1. worker[w] \in Worker /\ worker[w].pc = "sent"
  BY DEF IInv, TypeOK, Commit
<1>2. d \in Int /\ worker[w].at \in Nat
  BY <1>1, Fields
<1>3. PICK t \in Clocks : d = LatestDue(t)
  BY <1>1 DEF IInv, Statement
<1>4. n \in Int
  BY <1>3, ScheduleAssumption
<1>5. cron # NULL => cron \in CronRow /\ first \in Nat
  BY DEF IInv, TypeOK
<1>6. a \in Nat
  BY <1>2, <1>5 DEF CronRow
<1>7. Recorded(w) = [last_run_at |-> d, next_run_at |-> n, created_at |-> a]
  BY DEF Recorded
<1>8. /\ cron' = IF Claims(d) THEN Recorded(w) ELSE cron
      /\ first' = IF cron = NULL THEN now ELSE first
  BY DEF Commit
<1>9. now \in Nat
  BY DEF IInv, TypeOK
<1> HIDE DEF d, n
<1>10. cron # NULL => cron.last_run_at \in Int /\ cron.created_at \in Nat
  BY <1>5 DEF CronRow
<1>11. Claims(d) <=> cron = NULL \/ cron.last_run_at < d
  BY DEF Claims
<1>12. CASE Claims(d)
  <2>1. /\ cron' \in CronRow /\ cron'.last_run_at = d /\ cron'.created_at = a
    BY <1>2, <1>4, <1>6, <1>7, <1>8, <1>12 DEF CronRow
  <2>2. cron' # NULL
    BY <2>1, CronAssumption
  <2> QED
    BY <2>1, <2>2, <1>1, <1>2, <1>5, <1>8, <1>9, <1>10, <1>11, <1>12 DEF d
<1>13. CASE ~ Claims(d)
  BY <1>13, <1>1, <1>2, <1>5, <1>8, <1>10, <1>11 DEF d
<1> QED
  BY <1>12, <1>13

\* The clock and the row's age.
LEMMA TimeNext == IInv /\ Next => Time'
<1> SUFFICES ASSUME IInv, Next PROVE Time'
  OBVIOUS
<1>0. now \in Nat /\ MaxNow \in Nat /\ now <= MaxNow
  BY Constants DEF IInv, TypeOK, Time
<1>1. CASE Tick
  <2>1. now' = now + 1 /\ now' <= MaxNow /\ cron' = cron /\ first' = first
    BY <1>0, <1>1 DEF Tick
  <2>2. cron # NULL => first \in Nat
    BY DEF IInv, TypeOK
  <2> QED
    BY <1>0, <2>1, <2>2 DEF IInv, Time
<1>2. ASSUME NEW w \in Workers, Commit(w) PROVE Time'
  <2>1. now' = now
    BY <1>2 DEF Commit
  <2>2. cron = NULL => worker[w].at <= now
    BY <1>2, Committed DEF IInv, Statement
  <2>3. /\ cron # NULL => first' = first /\ cron'.created_at = cron.created_at
        /\ cron = NULL => cron'.created_at = worker[w].at /\ first' = now
    BY <1>2, Committed
  <2> QED
    BY <1>0, <2>1, <2>2, <2>3 DEF IInv, Time
<1>3. CASE now' = now /\ cron' = cron /\ first' = first
  BY <1>3 DEF IInv, Time
<1>4. ASSUME NEW w \in Workers, Start(w) \/ Stop(w) \/ ReadClock(w) \/ Send(w) \/ Fail(w)
      PROVE  now' = now /\ cron' = cron /\ first' = first
  BY <1>4 DEF Start, Stop, ReadClock, Send, Fail
<1>5. ASSUME NEW j \in 1..MaxJobs, TakeJob(j) \/ FinishJob(j)
      PROVE  now' = now /\ cron' = cron /\ first' = first
  BY <1>5 DEF TakeJob, FinishJob
<1> QED
  BY <1>1, <1>2, <1>3, <1>4, <1>5 DEF Next

\* How a worker's loop may have moved: not at all, a tick, or a step of its own.
LEMMA WorkerCases ==
    ASSUME IInv, Next, NEW w \in Workers
    PROVE  /\ WorkersOK'
           /\ \/ Tick
              \/ worker'[w] = worker[w] /\ now' = now
              \/ now' = now /\ (Start(w) \/ Stop(w) \/ ReadClock(w) \/ Send(w) \/ Commit(w) \/ Fail(w))
<1>0. WorkersOK /\ now \in Nat /\ now <= MaxNow
  BY DEF IInv, TypeOK, WorkersOK, Time
<1>1. CASE Tick
  BY <1>0, <1>1, Ticks
<1>2. ASSUME NEW v \in Workers,
             Start(v) \/ Stop(v) \/ ReadClock(v) \/ Send(v) \/ Commit(v) \/ Fail(v)
      PROVE  WorkersOK' /\ now' = now /\ (v = w \/ worker'[w] = worker[w])
  <2>1. WorkersOK' /\ Only(v)
    BY <1>0, <1>2, Starts, Stops, Reads, Sends, Ends
  <2>2. now' = now
    BY <1>2 DEF Start, Stop, ReadClock, Send, Commit, Fail
  <2> QED
    BY <2>1, <2>2 DEF Only
<1>3. ASSUME NEW j \in 1..MaxJobs, TakeJob(j) \/ FinishJob(j)
      PROVE  WorkersOK' /\ now' = now /\ worker' = worker
  BY <1>0, <1>3 DEF TakeJob, FinishJob, WorkersOK
<1> QED
  BY <1>1, <1>2, <1>3 DEF Next

LEMMA PaceNext == ASSUME IInv, Next, NEW w \in Workers PROVE Pace(w)'
<1>0. /\ WorkersOK /\ worker[w] \in Worker /\ now \in Nat /\ now <= MaxNow
      /\ Latency \in Nat /\ CronPoll \in Nat /\ MaxMisses \in Nat /\ Pace(w)
  BY Constants DEF IInv, TypeOK, WorkersOK, Time
<1>1. CASE Tick
  <2>1. worker[w].timer \in Int /\ worker[w].timer - 1 \in Int
    BY <1>0, Fields
  <2>2. CASE worker[w].up
    <3>1. /\ worker[w].timer > 0 - Latency
          /\ worker'[w] = [worker[w] EXCEPT !.timer = worker[w].timer - 1]
      BY <1>0, <1>1, <2>2, Ticks
    <3>2. /\ worker'[w].up = worker[w].up /\ worker'[w].misses = worker[w].misses
          /\ worker'[w].timer = worker[w].timer - 1
      BY <1>0, <2>1, <3>1, TickedRecord
    <3> QED
      BY <1>0, <2>1, <3>1, <3>2 DEF Pace
  <2>3. CASE ~ worker[w].up
    BY <1>0, <1>1, <2>3, Ticks DEF Pace
  <2> QED
    BY <2>2, <2>3
<1>2. CASE worker'[w] = worker[w]
  BY <1>0, <1>2 DEF Pace
<1>3. CASE Start(w)
  BY <1>0, <1>3, Starts, Resting DEF Pace
<1>4. CASE Stop(w)
  <2>1. CASE worker'[w] = Down
    <3>1. w \notin Steady
      BY <1>0, <1>4, Stops
    <3>2. ~ worker'[w].up /\ worker'[w].misses = 0
      BY <2>1, Resting
    <3> QED
      BY <1>0, <3>1, <3>2 DEF Pace
  <2>2. CASE worker'[w] = [worker[w] EXCEPT !.up = FALSE]
    <3>1. ~ worker'[w].up /\ worker'[w].misses = worker[w].misses
      BY <1>0, <2>2, StoppedRecord
    <3> QED
      BY <1>0, <1>4, <3>1, Stops DEF Pace
  <2> QED
    BY <1>0, <1>4, <2>1, <2>2, Stops
<1>5. CASE ReadClock(w)
  BY <1>0, <1>5, Reads DEF Pace
<1>6. CASE Send(w)
  BY <1>0, <1>6, Sends DEF Pace
<1>7. CASE Commit(w) \/ Fail(w)
  <2>1. worker[w].misses \in Nat
    BY <1>0, Fields
  <2>2. PICK m \in Nat : /\ worker'[w] = IF worker[w].up THEN Asleep(m) ELSE Down
                         /\ m <= MaxMisses
    BY <1>0, <1>7, <2>1, Ends
  <2>3. worker[w].up => worker'[w].up /\ worker'[w].timer = CronPoll /\ worker'[w].misses = m
    BY <2>2, Resting
  <2>4. ~ worker[w].up => ~ worker'[w].up /\ worker'[w].misses = 0
    BY <2>2, Resting
  <2> QED
    BY <1>0, <2>2, <2>3, <2>4 DEF Pace
<1> QED
  BY <1>1, <1>2, <1>3, <1>4, <1>5, <1>6, <1>7, WorkerCases

\* The row's age is set once.
LEMMA FirstCases ==
    ASSUME IInv, Next
    PROVE  first' = first \/ (first = NULL /\ cron = NULL /\ first' = now)
<1>1. ASSUME NEW w \in Workers, Commit(w)
      PROVE  first' = first \/ (first = NULL /\ cron = NULL /\ first' = now)
  BY <1>1, Committed DEF IInv, TypeOK
<1>2. ASSUME NEW w \in Workers, Start(w) \/ Stop(w) \/ ReadClock(w) \/ Send(w) \/ Fail(w)
      PROVE  first' = first
  BY <1>2 DEF Start, Stop, ReadClock, Send, Fail
<1>3. ASSUME NEW j \in 1..MaxJobs, TakeJob(j) \/ FinishJob(j)
      PROVE  first' = first
  BY <1>3 DEF TakeJob, FinishJob
<1>4. CASE Tick
  BY <1>4 DEF Tick
<1> QED
  BY <1>1, <1>2, <1>3, <1>4 DEF Next

LEMMA StatementNext == ASSUME IInv, Next, NEW w \in Workers PROVE Statement(w)'
<1>0. /\ WorkersOK /\ worker[w] \in Worker /\ now \in Nat /\ now <= MaxNow /\ MaxSkew \in Nat
      /\ Statement(w) /\ (first # NULL => first \in Nat)
  BY Constants DEF IInv, TypeOK, WorkersOK, Time
<1>1. now' \in Nat /\ now' >= now
  <2>1. now' = now \/ Tick
    BY WorkerCases
  <2>2. Tick => now' = now + 1
    BY DEF Tick
  <2> QED
    BY <1>0, <2>1, <2>2
<1>2. Clocks \subseteq Int
  BY DEF Clocks
<1>s. ASSUME worker'[w].pc = worker[w].pc, worker'[w].due_at = worker[w].due_at,
             worker'[w].at = worker[w].at, worker'[w].seen = worker[w].seen
      PROVE  Statement(w)'
  <2>1. worker'[w].pc # "sleeping" =>
          \E t \in Clocks : t <= now' + MaxSkew /\ worker'[w].due_at = LatestDue(t)
    <3> SUFFICES ASSUME worker[w].pc # "sleeping"
                 PROVE  \E t \in Clocks : t <= now' + MaxSkew /\ worker[w].due_at = LatestDue(t)
      BY <1>s
    <3>1. PICK t \in Clocks : t <= now + MaxSkew /\ worker[w].due_at = LatestDue(t)
      BY <1>0 DEF Statement
    <3>2. /\ t \in Int /\ t <= now + MaxSkew
          /\ now \in Int /\ now' \in Int /\ now' >= now /\ MaxSkew \in Int
      BY <1>1, <1>2, <3>1, Constants, <1>0
    <3>3. t <= now' + MaxSkew
      BY <3>2
    <3> QED
      BY <3>1, <3>3
  <2>2. ASSUME worker'[w].pc = "sent"
        PROVE  /\ worker'[w].at <= now' /\ worker'[w].due_at <= worker'[w].at + MaxSkew
               /\ ~ worker'[w].seen /\ first' # NULL => worker'[w].at <= first'
    <3>1. /\ worker[w].at \in Nat /\ worker[w].at <= now
          /\ worker[w].due_at <= worker[w].at + MaxSkew
          /\ ~ worker[w].seen /\ first # NULL => worker[w].at <= first
      BY <1>0, <1>s, <2>2, Fields DEF Statement
    <3>2. worker'[w].at <= now'
      BY <3>1, <1>s, <1>0, <1>1
    <3>3. ~ worker'[w].seen /\ first' # NULL => worker'[w].at <= first'
      BY <3>1, <1>s, FirstCases
    <3> QED
      BY <3>1, <3>2, <3>3, <1>s
  <2> QED
    BY <2>1, <2>2 DEF Statement
<1>r. ASSUME worker'[w].pc = "sleeping" PROVE Statement(w)'
  BY <1>r DEF Statement
<1>3. CASE Tick
  <2>1. worker[w].timer - 1 \in Int
    BY <1>0, Fields
  <2>2. worker'[w] = worker[w] \/ worker'[w] = [worker[w] EXCEPT !.timer = worker[w].timer - 1]
    BY <1>0, <1>3, Ticks
  <2> QED
    <3>1. CASE worker'[w] = worker[w]
      BY <3>1, <1>s
    <3>2. CASE worker'[w] = [worker[w] EXCEPT !.timer = worker[w].timer - 1]
      <4>1. /\ worker'[w].pc = worker[w].pc /\ worker'[w].due_at = worker[w].due_at
            /\ worker'[w].at = worker[w].at /\ worker'[w].seen = worker[w].seen
        BY <1>0, <2>1, <3>2, TickedRecord
      <4> QED
        BY <4>1, <1>s
    <3> QED
      BY <2>2, <3>1, <3>2
<1>4. CASE worker'[w] = worker[w]
  BY <1>4, <1>s
<1>5. CASE Start(w)
  BY <1>0, <1>5, <1>r, Starts, Resting
<1>6. CASE Stop(w)
  <2>1. CASE worker'[w] = Down
    BY <2>1, <1>r, Resting
  <2>2. CASE worker'[w] = [worker[w] EXCEPT !.up = FALSE]
    BY <1>0, <2>2, <1>s, StoppedRecord
  <2> QED
    BY <1>0, <1>6, <2>1, <2>2, Stops
<1>7. CASE ReadClock(w)
  <2>1. /\ worker'[w].pc = "due" /\ now + Skew[w] \in Clocks /\ now + Skew[w] <= now + MaxSkew
        /\ worker'[w].due_at = LatestDue(now + Skew[w])
    BY <1>0, <1>7, Reads
  <2>2. now' = now
    BY <1>7 DEF ReadClock
  <2> QED
    BY <2>1, <2>2 DEF Statement
<1>8. CASE Send(w)
  <2>1. /\ worker[w].pc = "due" /\ worker'[w].pc = "sent" /\ worker'[w].at = now
        /\ worker'[w].due_at = worker[w].due_at
        /\ cron # NULL /\ cron.created_at < now => worker'[w].seen
    BY <1>0, <1>8, Sends
  <2>2. now' = now /\ first' = first
    BY <1>8 DEF Send
  <2>3. PICK t \in Clocks : t <= now + MaxSkew /\ worker[w].due_at = LatestDue(t)
    BY <1>0, <2>1 DEF Statement
  <2>4. worker[w].due_at \in Int /\ worker[w].due_at <= now + MaxSkew
    BY <1>0, <1>2, <2>3, ScheduleAssumption
  <2>5. first # NULL => cron # NULL /\ cron \in CronRow /\ cron.created_at <= first
    BY DEF IInv, TypeOK, Time
  <2>6. first # NULL => cron.created_at \in Nat
    BY <2>5 DEF CronRow
  <2>7. ~ worker'[w].seen /\ first # NULL => now <= first
    BY <1>0, <2>1, <2>5, <2>6
  <2>8. \E u \in Clocks : u <= now' + MaxSkew /\ worker'[w].due_at = LatestDue(u)
    BY <2>1, <2>2, <2>3
  <2> QED
    BY <1>0, <2>1, <2>2, <2>4, <2>7, <2>8 DEF Statement
<1>9. CASE Commit(w) \/ Fail(w)
  <2>1. PICK m \in Nat : worker'[w] = IF worker[w].up THEN Asleep(m) ELSE Down
    BY <1>0, <1>9, Ends
  <2> QED
    BY <2>1, <1>r, Resting
<1> QED
  BY <1>3, <1>4, <1>5, <1>6, <1>7, <1>8, <1>9, WorkerCases
-----------------------------------------------------------------------------
(* The steady workers *)

\* cron.last_run_at never goes back.
LEMMA ReachedStays ==
    ASSUME IInv, Next, NEW d \in Int, Reached(d)
    PROVE  Reached(d)'
<1>0. cron \in CronRow /\ cron.last_run_at \in Int
  BY DEF Reached, IInv, TypeOK, CronRow
<1>1. ASSUME NEW w \in Workers, Commit(w) PROVE Reached(d)'
  <2>1. cron' \in CronRow /\ cron' # NULL /\ cron'.last_run_at >= cron.last_run_at
    BY <1>1, Committed DEF Reached
  <2>2. cron'.last_run_at \in Int
    BY <2>1 DEF CronRow
  <2> QED
    BY <1>0, <2>1, <2>2 DEF Reached
<1>2. ASSUME NEW w \in Workers, Start(w) \/ Stop(w) \/ ReadClock(w) \/ Send(w) \/ Fail(w)
      PROVE  cron' = cron
  BY <1>2 DEF Start, Stop, ReadClock, Send, Fail
<1>3. ASSUME NEW j \in 1..MaxJobs, TakeJob(j) \/ FinishJob(j)
      PROVE  cron' = cron
  BY <1>3 DEF TakeJob, FinishJob
<1>4. Tick => cron' = cron
  BY DEF Tick
<1>5. CASE cron' = cron
  BY <1>5 DEF Reached
<1> QED
  BY <1>1, <1>2, <1>3, <1>4, <1>5 DEF Next

\* An occurrence that is not claimed is within a steady worker's reach.
LEMMA StillOpen ==
    ASSUME IInv, NEW w \in Steady, NEW d \in 0..MaxNow, LatestDue(d) = d, ~ Reached(d)
    PROVE  now < d + Delay
<1>0. /\ w \in Workers /\ worker[w] \in Worker /\ now \in Nat /\ d \in Nat /\ Latency \in Nat
      /\ MaxSkew \in Nat /\ Cycle \in Nat /\ Pace(w) /\ OnTime(w, d)
  BY Constants, CronAssumption DEF IInv, TypeOK
<1>1. /\ worker[w].timer \in Int /\ worker[w].timer >= 0 - Latency
      /\ worker[w].misses \in Nat /\ worker[w].misses <= MaxMisses
  BY <1>0, Fields DEF Pace
<1>2. Budget(worker[w].misses) \in Nat /\ Budget(0) \in Nat
  BY <1>1, BudgetSteps
<1>3. now + worker[w].timer < d + MaxSkew + Budget(0) + Cycle
  BY <1>0, <1>1, <1>2 DEF OnTime
<1> QED
  BY <1>0, <1>1, <1>2, <1>3, DelayIs

\* A steady worker keeps to its schedule.
LEMMA OnTimeNext ==
    ASSUME IInv, Next, NEW w \in Steady, NEW d \in 0..MaxNow, LatestDue(d) = d
    PROVE  OnTime(w, d)'
<1> SUFFICES ASSUME ~ Reached(d)' PROVE OnTime(w, d)'
  BY DEF OnTime
<1> DEFINE limit == d + MaxSkew + Budget(0) + Cycle
<1>0. /\ w \in Workers /\ WorkersOK /\ worker[w] \in Worker /\ now \in Nat /\ now <= MaxNow
      /\ d \in Nat /\ Latency \in Nat /\ CronPoll \in Nat /\ CronPoll > 0 /\ MaxMisses \in Nat
      /\ MaxSkew \in Nat /\ Cycle \in Nat /\ Cycle = CronPoll + Latency
      /\ Pace(w) /\ Statement(w) /\ OnTime(w, d)
  BY Constants, CronAssumption DEF IInv, TypeOK, WorkersOK, Time, Cycle
<1>1. ~ Reached(d)
  BY <1>0, ReachedStays
<1>2. /\ worker[w].timer \in Int /\ worker[w].timer >= 0 - Latency /\ worker[w].up
      /\ worker[w].misses \in Nat /\ worker[w].misses <= MaxMisses /\ worker[w].due_at \in Int
  BY <1>0, Fields DEF Pace
<1>3. Budget(worker[w].misses) \in Nat /\ Budget(0) \in Nat /\ Budget(worker[w].misses) <= Budget(0)
  BY <1>2, BudgetSteps
<1>4. IF worker[w].pc # "sleeping" /\ worker[w].due_at < d
      THEN now + worker[w].timer < d + MaxSkew
      ELSE now + worker[w].timer + Budget(worker[w].misses) < limit
  BY <1>0, <1>1 DEF OnTime
<1>s. ASSUME worker'[w].pc = worker[w].pc, worker'[w].due_at = worker[w].due_at,
             now' + worker'[w].timer = now + worker[w].timer,
             worker'[w].misses = worker[w].misses
      PROVE  OnTime(w, d)'
  BY <1>4, <1>s DEF OnTime
<1>5. CASE Tick
  <2>1. worker'[w] = [worker[w] EXCEPT !.timer = worker[w].timer - 1] /\ now' = now + 1
    BY <1>0, <1>2, <1>5, Ticks
  <2>2. worker[w].timer - 1 \in Int
    BY <1>2
  <2>3. /\ worker'[w].pc = worker[w].pc /\ worker'[w].due_at = worker[w].due_at
        /\ worker'[w].timer = worker[w].timer - 1 /\ worker'[w].misses = worker[w].misses
    BY <1>0, <2>1, <2>2, TickedRecord
  <2> QED
    BY <1>0, <1>2, <2>1, <2>3, <1>s
<1>6. CASE worker'[w] = worker[w] /\ now' = now
  BY <1>6, <1>s
<1>7. CASE Start(w)
  BY <1>0, <1>2, <1>7, Starts, Resting
<1>8. CASE Stop(w)
  BY <1>0, <1>8, Stops
<1>9. CASE ReadClock(w)
  <2>1. /\ now + Skew[w] \in Clocks /\ now + Skew[w] >= now - MaxSkew
        /\ worker[w].pc = "sleeping" /\ worker[w].timer <= 0
        /\ worker'[w].pc = "due" /\ worker'[w].due_at = LatestDue(now + Skew[w])
        /\ worker'[w].timer = worker[w].timer /\ worker'[w].misses = worker[w].misses
    BY <1>0, <1>9, Reads
  <2>2. now' = now
    BY <1>9 DEF ReadClock
  <2>3. d \in Clocks
    BY <1>0, Constants DEF Clocks
  <2>4. LatestDue(now + Skew[w]) < d => now + Skew[w] < d
    <3>1. d <= now + Skew[w] => d <= LatestDue(now + Skew[w])
      BY <2>1, <2>3, ScheduleAssumption
    <3>2. now + Skew[w] \in Int /\ LatestDue(now + Skew[w]) \in Int
      BY <2>1, ScheduleAssumption DEF Clocks
    <3> QED
      BY <1>0, <3>1, <3>2
  <2>5. Skew[w] \in Int
    BY <1>0, CronAssumption
  <2>6. worker'[w].due_at < d => now + worker[w].timer < d + MaxSkew
    BY <1>0, <1>2, <2>1, <2>4, <2>5
  <2>7. now + worker[w].timer + Budget(worker[w].misses) < limit
    BY <1>4, <2>1
  <2> QED
    BY <2>1, <2>2, <2>6, <2>7 DEF OnTime
<1>10. CASE Send(w)
  <2>1. /\ worker[w].pc = "due" /\ worker'[w].pc = "sent"
        /\ worker'[w].due_at = worker[w].due_at
        /\ worker'[w].timer = worker[w].timer /\ worker'[w].misses = worker[w].misses
    BY <1>0, <1>10, Sends
  <2>2. now' = now
    BY <1>10 DEF Send
  <2> QED
    BY <1>4, <2>1, <2>2 DEF OnTime
<1>11. CASE Commit(w) \/ Fail(w)
  <2>0. worker[w].pc = "sent" /\ now' = now
    BY <1>11 DEF Commit, Fail
  <2>1. PICK m \in Nat : /\ worker'[w] = Asleep(m)
                         /\ \/ Commit(w) /\ m = 0
                            \/ Fail(w) /\ worker[w].misses < MaxMisses /\ m = worker[w].misses + 1
    BY <1>0, <1>2, <1>11, Ends
  <2>2. worker'[w].pc = "sleeping" /\ worker'[w].timer = CronPoll /\ worker'[w].misses = m
    BY <2>1, Resting
  <2>3. m <= MaxMisses
    BY <1>2, <2>1, <1>0
  <2>4. Budget(m) \in Nat /\ Budget(m) <= Budget(0)
    BY <2>3, BudgetSteps
  <2>5. SUFFICES now + CronPoll + Budget(m) < limit
    BY <2>0, <2>2 DEF OnTime
  <2>6. CASE worker[w].due_at < d
    BY <1>0, <1>2, <1>3, <1>4, <2>0, <2>4, <2>6
  <2>7. CASE ~ (worker[w].due_at < d)
    <3>1. CASE Commit(w)
      <4>1. cron' \in CronRow /\ cron' # NULL /\ cron'.last_run_at >= worker[w].due_at
        BY <1>0, <3>1, Committed
      <4>2. cron'.last_run_at \in Int
        BY <4>1 DEF CronRow
      <4>3. Reached(d)'
        BY <1>0, <1>2, <2>7, <4>1, <4>2 DEF Reached
      <4> QED
        BY <4>3
    <3>2. CASE worker[w].misses < MaxMisses /\ m = worker[w].misses + 1
      <4>1. Budget(worker[w].misses) = Budget(m) + Cycle
        BY <1>2, <3>2, BudgetSteps
      <4>2. now + worker[w].timer + Budget(worker[w].misses) < limit
        BY <1>4, <2>7
      <4> QED
        BY <1>0, <1>2, <1>3, <2>4, <4>1, <4>2
    <3> QED
      BY <2>1, <3>1, <3>2
  <2> QED
    BY <2>6, <2>7
<1> QED
  BY <1>0, <1>5, <1>6, <1>7, <1>8, <1>9, <1>10, <1>11, WorkerCases

\* What is claimed is enqueued, unless it is as old as the row.
LEMMA KeptNext ==
    ASSUME IInv, Next, NEW d \in 0..MaxNow, LatestDue(d) = d
    PROVE  Kept(d)'
<1>0. d \in Nat /\ Kept(d) /\ now \in Nat /\ MaxSkew \in Nat /\ Latency \in Nat /\ MaxNow \in Nat
  BY Constants DEF IInv, TypeOK
<1>1. ASSUME NEW w \in Workers, Commit(w) PROVE Kept(d)'
  <2> SUFFICES ASSUME Steady # {}, first' # NULL, first' + MaxSkew < d,
                      d + Delay + MaxSkew <= NextAfter(d), Reached(d)'
               PROVE  d \in enqueued'
    BY DEF Kept
  <2> DEFINE due == worker[w].due_at
             at  == worker[w].at
  <2>1. /\ worker[w] \in Worker /\ worker[w].pc = "sent"
        /\ Claims(due) => cron'.last_run_at = due
        /\ ~ Claims(due) => cron' = cron
        /\ cron = NULL => first' = now
        /\ cron # NULL => first' = first
    BY <1>1, Committed
  <2>2. /\ enqueued' = IF Claims(due) /\ Existed(w) THEN enqueued \cup {due} ELSE enqueued
    BY <1>1 DEF Commit
  <2>3. due \in Int /\ at \in Nat /\ worker[w].seen \in BOOLEAN
    BY <2>1, Fields
  <2>4. /\ at <= now /\ due <= at + MaxSkew
        /\ ~ worker[w].seen /\ first # NULL => at <= first
    BY <2>1 DEF IInv, Statement
  <2>5. PICK t \in Clocks : due = LatestDue(t)
    BY <2>1 DEF IInv, Statement
  <2>6. cron # NULL => first # NULL /\ first \in Nat /\ cron.last_run_at \in Int
    BY DEF IInv, TypeOK, CronRow
  <2> HIDE DEF due, at
  <2>7. CASE cron # NULL /\ Reached(d)
    BY <1>0, <2>1, <2>2, <2>7 DEF Kept
  <2>8. CASE ~ Reached(d)
    <3>1. Claims(due) /\ cron'.last_run_at = due /\ d <= due
      BY <2>1, <2>8 DEF Reached
    <3>2. cron # NULL
      BY <1>0, <2>1, <2>3, <2>4, <3>1
    <3>3. first < at
      BY <1>0, <2>1, <2>3, <2>4, <2>6, <3>1, <3>2
    <3>4. Existed(w)
      BY <2>3, <2>4, <2>6, <3>2, <3>3 DEF Existed
    <3>5. d = due
      <4> SUFFICES ASSUME d < due PROVE FALSE
        BY <1>0, <2>3, <3>1
      <4>1. d \in Clocks
        BY <1>0 DEF Clocks
      <4>2. NextAfter(d) <= due
        BY <2>5, <4>1, ScheduleAssumption
      <4>3. NextAfter(d) \in Int
        BY <4>1, ScheduleAssumption
      <4>4. d + Delay <= now
        BY <1>0, <2>3, <2>4, <4>2, <4>3, DelayIs
      <4>5. PICK v \in Steady : TRUE
        OBVIOUS
      <4>6. now < d + Delay
        BY <2>8, StillOpen
      <4> QED
        BY <1>0, <4>4, <4>6, DelayIs
    <3> QED
      BY <2>2, <3>1, <3>4, <3>5
  <2> QED
    BY <2>7, <2>8 DEF Reached
<1>2. ASSUME first' = first, cron' = cron, enqueued' = enqueued PROVE Kept(d)'
  BY <1>0, <1>2 DEF Kept, Reached
<1>3. ASSUME NEW w \in Workers, Start(w) \/ Stop(w) \/ ReadClock(w) \/ Send(w) \/ Fail(w)
      PROVE  first' = first /\ cron' = cron /\ enqueued' = enqueued
  BY <1>3 DEF Start, Stop, ReadClock, Send, Fail
<1>4. ASSUME NEW j \in 1..MaxJobs, TakeJob(j) \/ FinishJob(j)
      PROVE  first' = first /\ cron' = cron /\ enqueued' = enqueued
  BY <1>4 DEF TakeJob, FinishJob
<1>5. Tick => first' = first /\ cron' = cron /\ enqueued' = enqueued
  BY DEF Tick
<1> QED
  BY <1>1, <1>2, <1>3, <1>4, <1>5 DEF Next
-----------------------------------------------------------------------------
(* The jobs *)

LEMMA JobFields ==
    ASSUME NEW r \in JobRow
    PROVE  r.run_at \in Int /\ r.status \in Statuses
  BY DEF JobRow

LEMMA UpsertedJob ==
    ASSUME NEW r \in JobRow, NEW d \in Defs, NEW mode, NEW at \in Int
    PROVE  /\ Upserted(r, d, mode, at) \in JobRow
           /\ Upserted(r, d, mode, at).job_key = r.job_key
           /\ Upserted(r, d, mode, at).status = r.status
           /\ Upserted(r, d, mode, at).run_at \in {r.run_at, at}
<1> DEFINE a == IF mode = "replace" THEN at ELSE r.run_at
           u == [r EXCEPT !.def = d, !.run_at = a]
<1>1. a \in Int /\ a \in {r.run_at, at} /\ r.run_at \in Int
  BY JobFields
<1>2. Upserted(r, d, mode, at) = u \/ Upserted(r, d, mode, at) = r
  BY DEF Upserted
<1> HIDE DEF a
<1>3. u \in JobRow /\ u.job_key = r.job_key /\ u.status = r.status /\ u.run_at = a
  BY <1>1 DEF JobRow
<1> QED
  BY <1>1, <1>2, <1>3

\* NextId is the first number that is not taken.
LEMMA FirstFree ==
    ASSUME NEW n \in 0..MaxJobs, DOMAIN jobs = 1..n
    PROVE  NextId = n + 1
<1> DEFINE P(m) == m \notin DOMAIN jobs /\ \A k \in 1..(m - 1) : k \in DOMAIN jobs
<1>1. MaxJobs \in Nat
  BY Constants
<1>2. n + 1 \in 1..(MaxJobs + 1) /\ P(n + 1)
  BY <1>1
<1>3. \A m \in 1..(MaxJobs + 1) : P(m) => m = n + 1
  BY <1>1
<1> HIDE DEF P
<1>4. NextId = CHOOSE m \in 1..(MaxJobs + 1) : P(m)
  BY DEF NextId, P
<1> QED
  BY <1>2, <1>3, <1>4

\* One job at most is as late as the occurrence that was just claimed.
LEMMA Enqueued ==
    ASSUME IInv, NEW w \in Workers, Commit(w), Claims(worker[w].due_at), Existed(w)
    PROVE  Rows'
<1> DEFINE due  == worker[w].due_at
           key  == cron_job.key
           held == KeyHolders(jobs, key)
<1>1. /\ jobs' = InsertCronJob(due) /\ NextId <= MaxJobs /\ cron_job' = cron_job
  BY DEF Commit
<1>2. /\ cron_job.def \in Defs /\ key \in Keys \cup {NULL}
  BY CronAssumption DEF IInv, TypeOK
<1>3. /\ worker[w] \in Worker /\ cron' # NULL /\ cron'.last_run_at = due
  BY Committed
<1>4. due \in Int
  BY <1>3, Fields
<1>5. PICK n \in 0..MaxJobs : DOMAIN jobs = 1..n
  BY DEF IInv, Rows
<1>6. NextId = n + 1 /\ n + 1 \in 1..MaxJobs
  BY <1>1, <1>5, FirstFree, Constants
<1>7. /\ \A j \in DOMAIN jobs : jobs[j] \in JobRow /\ jobs[j].job_key = key
      /\ \A i, j \in DOMAIN jobs : key # NULL /\ Active(jobs[i]) /\ Active(jobs[j]) => i = j
      /\ \A i, j \in DOMAIN jobs : jobs[i].run_at = jobs[j].run_at => i = j
  BY DEF IInv, Rows, OncePerOccurrence
<1>8. \A j \in DOMAIN jobs : jobs[j].run_at \in Int /\ jobs[j].run_at < due
  <2> TAKE j \in DOMAIN jobs
  <2>1. jobs[j].run_at \in Int
    BY <1>7, JobFields
  <2>2. cron # NULL /\ cron \in CronRow /\ jobs[j].run_at <= cron.last_run_at
    BY DEF IInv, TypeOK, Rows
  <2>3. cron.last_run_at \in Int
    BY <2>2 DEF CronRow
  <2>4. cron.last_run_at < due
    BY <2>2 DEF Claims
  <2> QED
    BY <1>4, <2>1, <2>2, <2>3, <2>4
<1> HIDE DEF due
<1>9. CASE held # {}
  <2> DEFINE u(j) == Upserted(jobs[j], cron_job.def, cron_job.mode, due)
  <2>1. jobs' = [j \in DOMAIN jobs |-> IF j \in held THEN u(j) ELSE jobs[j]]
    BY <1>1, <1>9 DEF InsertCronJob, InsertJob
  <2>2. \A j \in DOMAIN jobs : /\ u(j) \in JobRow /\ u(j).job_key = key
                               /\ u(j).status = jobs[j].status
                               /\ u(j).run_at \in {jobs[j].run_at, due}
    BY <1>2, <1>4, <1>7, UpsertedJob
  <2>3. \A i, j \in held : i = j
    BY <1>7 DEF KeyHolders
  <2> HIDE DEF u, held
  <2>4. DOMAIN jobs' = DOMAIN jobs
    BY <2>1
  <2>5. \A j \in DOMAIN jobs : /\ jobs'[j] \in JobRow /\ jobs'[j].job_key = key
                               /\ jobs'[j].status = jobs[j].status
                               /\ jobs'[j].run_at = jobs[j].run_at \/ (j \in held /\ jobs'[j].run_at = due)
    BY <1>7, <2>1, <2>2
  <2>6. jobs' \in [DOMAIN jobs -> JobRow]
    BY <2>1, <2>5
  <2>7. \A j \in DOMAIN jobs : jobs'[j].run_at <= due
    BY <1>4, <1>8, <2>5
  <2>8. \A i, j \in DOMAIN jobs : jobs'[i].run_at = jobs'[j].run_at => i = j
    BY <1>4, <1>7, <1>8, <2>3, <2>5
  <2>9. \A i, j \in DOMAIN jobs : key # NULL /\ Active(jobs'[i]) /\ Active(jobs'[j]) => i = j
    BY <1>7, <2>5 DEF Active
  <2> QED
    BY <1>1, <1>3, <1>5, <2>4, <2>5, <2>6, <2>7, <2>8, <2>9 DEF Rows, OncePerOccurrence
<1>10. CASE held = {}
  <2> DEFINE r == NewRow(cron_job.def, key, due)
  <2>1. jobs' = [j \in DOMAIN jobs \cup {n + 1} |-> IF j = n + 1 THEN r ELSE jobs[j]]
    BY <1>1, <1>6, <1>10 DEF InsertCronJob, InsertJob
  <2>2. r \in JobRow /\ r.job_key = key /\ r.run_at = due
    BY <1>2, <1>4 DEF NewRow, JobRow, Statuses
  <2>3. key # NULL => \A j \in DOMAIN jobs : ~ Active(jobs[j])
    BY <1>7, <1>10 DEF KeyHolders
  <2> HIDE DEF r, held
  <2>4. DOMAIN jobs' = 1..(n + 1) /\ n + 1 \notin DOMAIN jobs
    BY <1>5, <1>6, <2>1
  <2>5. /\ jobs'[n + 1] = r
        /\ \A j \in DOMAIN jobs : jobs'[j] = jobs[j]
        /\ DOMAIN jobs' = DOMAIN jobs \cup {n + 1}
    BY <2>1, <2>4
  <2>6. \A j \in DOMAIN jobs' : jobs'[j] \in JobRow /\ jobs'[j].job_key = key
    BY <1>7, <2>2, <2>5
  <2>7. jobs' \in [DOMAIN jobs' -> JobRow]
    BY <2>1, <2>5, <2>6
  <2>8. \A j \in DOMAIN jobs' : jobs'[j].run_at <= due
    BY <1>4, <1>8, <2>2, <2>5
  <2>9. \A i, j \in DOMAIN jobs' : jobs'[i].run_at = jobs'[j].run_at => i = j
    BY <1>4, <1>7, <1>8, <2>2, <2>5
  <2>10. \A i, j \in DOMAIN jobs' : key # NULL /\ Active(jobs'[i]) /\ Active(jobs'[j]) => i = j
    BY <1>7, <2>3, <2>5
  <2>11. \E m \in 0..MaxJobs : DOMAIN jobs' = 1..m
    BY <1>6, <2>4
  <2> QED
    BY <1>1, <1>3, <2>6, <2>7, <2>8, <2>9, <2>10, <2>11 DEF Rows, OncePerOccurrence
<1> QED
  BY <1>9, <1>10

\* A claim loop changes the status of a job, and nothing this module looks at.
LEMMA JobSteps ==
    ASSUME NEW r \in JobRow, NEW t \in JobRow, t.job_key = r.job_key, t.run_at = r.run_at,
           Active(t) => Active(r), IInv, NEW j \in DOMAIN jobs, r = jobs[j],
           jobs' = [jobs EXCEPT ![j] = t], cron' = cron, cron_job' = cron_job
    PROVE  Rows'
<1>1. jobs \in [DOMAIN jobs -> JobRow] /\ Rows
  BY DEF IInv, Rows
<1>2. /\ DOMAIN jobs' = DOMAIN jobs /\ jobs' \in [DOMAIN jobs -> JobRow]
      /\ \A i \in DOMAIN jobs : /\ jobs'[i].job_key = jobs[i].job_key
                                /\ jobs'[i].run_at = jobs[i].run_at
                                /\ Active(jobs'[i]) => Active(jobs[i])
  BY <1>1
<1> QED
  BY <1>1, <1>2 DEF Rows, OncePerOccurrence

LEMMA RowsNext == IInv /\ Next => Rows'
<1> SUFFICES ASSUME IInv, Next PROVE Rows'
  OBVIOUS
<1>s. ASSUME jobs' = jobs, cron' = cron, cron_job' = cron_job PROVE Rows'
  BY <1>s DEF IInv, Rows, OncePerOccurrence
<1>1. ASSUME NEW w \in Workers, Commit(w) PROVE Rows'
  <2>1. CASE Claims(worker[w].due_at) /\ Existed(w)
    BY <1>1, <2>1, Enqueued
  <2>2. CASE ~ (Claims(worker[w].due_at) /\ Existed(w))
    <3>1. jobs' = jobs /\ cron_job' = cron_job
      BY <1>1, <2>2 DEF Commit
    <3>2. cron' # NULL /\ cron' \in CronRow
          /\ (cron # NULL => cron \in CronRow /\ cron'.last_run_at >= cron.last_run_at)
      BY <1>1, Committed
    <3>3. \A j \in DOMAIN jobs : jobs[j].run_at <= cron'.last_run_at
      <4> TAKE j \in DOMAIN jobs
      <4>1. jobs[j] \in JobRow /\ cron # NULL /\ jobs[j].run_at <= cron.last_run_at
        BY DEF IInv, Rows
      <4>2. jobs[j].run_at \in Int /\ cron.last_run_at \in Int /\ cron'.last_run_at \in Int
        BY <3>2, <4>1, JobFields DEF CronRow
      <4> QED
        BY <3>2, <4>1, <4>2
    <3>4. Rows
      BY DEF IInv
    <3> QED
      BY <3>1, <3>2, <3>3, <3>4 DEF Rows, OncePerOccurrence
  <2> QED
    BY <2>1, <2>2
<1>2. ASSUME NEW w \in Workers, Start(w) \/ Stop(w) \/ ReadClock(w) \/ Send(w) \/ Fail(w)
      PROVE  jobs' = jobs /\ cron' = cron /\ cron_job' = cron_job
  BY <1>2 DEF Start, Stop, ReadClock, Send, Fail
<1>3. ASSUME NEW j \in 1..MaxJobs, TakeJob(j) PROVE Rows'
  <2> DEFINE t == [jobs[j] EXCEPT !.status = "running"]
  <2>1. /\ j \in DOMAIN jobs /\ jobs[j].status = "queued" /\ cron' = cron /\ cron_job' = cron_job
        /\ jobs' = [jobs EXCEPT ![j] = t]
    BY <1>3 DEF TakeJob
  <2>2. jobs[j] \in JobRow
    BY <2>1 DEF IInv, Rows
  <2>3. /\ t \in JobRow /\ t.job_key = jobs[j].job_key /\ t.run_at = jobs[j].run_at
    BY <2>2 DEF JobRow, Statuses
  <2>4. Active(jobs[j])
    BY <2>1 DEF Active
  <2> HIDE DEF t
  <2> QED
    BY <2>1, <2>2, <2>3, <2>4, JobSteps
<1>4. ASSUME NEW j \in 1..MaxJobs, FinishJob(j) PROVE Rows'
  <2> DEFINE t == Finished(jobs[j], "succeeded", now)
  <2>1. /\ j \in DOMAIN jobs /\ jobs[j].status = "running" /\ cron' = cron /\ cron_job' = cron_job
        /\ jobs' = [jobs EXCEPT ![j] = t]
    BY <1>4 DEF FinishJob
  <2>2. jobs[j] \in JobRow /\ now \in Nat
    BY <2>1 DEF IInv, Rows, TypeOK
  <2>3. /\ t \in JobRow /\ t.job_key = jobs[j].job_key /\ t.run_at = jobs[j].run_at
    BY <2>2 DEF Finished, JobRow, Statuses
  <2>4. Active(jobs[j])
    BY <2>1 DEF Active
  <2> HIDE DEF t
  <2> QED
    BY <2>1, <2>2, <2>3, <2>4, JobSteps
<1>5. Tick => jobs' = jobs /\ cron' = cron /\ cron_job' = cron_job
  BY DEF Tick
<1> QED
  BY <1>s, <1>1, <1>2, <1>3, <1>4, <1>5 DEF Next
-----------------------------------------------------------------------------
(* The theorems *)

LEMMA TypeNext == IInv /\ Next => TypeOK'
<1> SUFFICES ASSUME IInv, Next PROVE TypeOK'
  OBVIOUS
<1>0. TypeOK /\ Rows' /\ Time
  BY RowsNext DEF IInv
<1>1. \A j \in DOMAIN jobs' : jobs'[j].status \in Statuses /\ jobs'[j].run_at \in Int
  BY <1>0, JobFields DEF Rows
<1>2. DOMAIN jobs' \subseteq 1..MaxJobs
  BY <1>0, Constants DEF Rows
<1>3. worker' \in [Workers -> Worker]
  <2>1. CASE Workers # {}
    BY <2>1, WorkerCases DEF WorkersOK
  <2>2. CASE Workers = {}
    <3>1. worker' = worker \/ worker' = [w \in Workers |-> IF worker[w].up
                                          THEN [worker[w] EXCEPT !.timer = @ - 1] ELSE worker[w]]
      BY <2>2 DEF Next, Tick, TakeJob, FinishJob
    <3> QED
      BY <1>0, <2>2, <3>1 DEF TypeOK
  <2> QED
    BY <2>1, <2>2
<1>4. CASE Tick
  BY <1>0, <1>1, <1>2, <1>3, <1>4 DEF Tick, TypeOK
<1>5. ASSUME NEW w \in Workers, Commit(w) PROVE TypeOK'
  <2>1. worker[w].due_at \in Int
    BY <1>5, Committed, Fields
  <2>2. /\ enqueued' = enqueued \/ enqueued' = enqueued \cup {worker[w].due_at}
        /\ now' = now /\ cron_job' = cron_job
    BY <1>5 DEF Commit
  <2>3. enqueued' \subseteq Int
    BY <1>0, <2>1, <2>2 DEF TypeOK
  <2>4. cron' \in CronRow /\ cron' # NULL /\ first' \in Nat
    BY <1>5, Committed
  <2>5. NULL \notin Nat
    BY TableAssumption
  <2> QED
    BY <1>0, <1>1, <1>2, <1>3, <2>2, <2>3, <2>4, <2>5 DEF TypeOK
<1>6. ASSUME NEW w \in Workers, Start(w) \/ Stop(w) \/ ReadClock(w) \/ Send(w) \/ Fail(w)
      PROVE  cron_job' = cron_job /\ now' = now /\ cron' = cron /\ first' = first /\ enqueued' = enqueued
  BY <1>6 DEF Start, Stop, ReadClock, Send, Fail
<1>7. ASSUME NEW j \in 1..MaxJobs, TakeJob(j) \/ FinishJob(j)
      PROVE  cron_job' = cron_job /\ now' = now /\ cron' = cron /\ first' = first /\ enqueued' = enqueued
  BY <1>7 DEF TakeJob, FinishJob
<1>8. CASE cron_job' = cron_job /\ now' = now /\ cron' = cron /\ first' = first /\ enqueued' = enqueued
  BY <1>0, <1>1, <1>2, <1>3, <1>8 DEF TypeOK
<1> QED
  BY <1>4, <1>5, <1>6, <1>7, <1>8 DEF Next

LEMMA InvInit == Init => IInv
<1> SUFFICES ASSUME Init PROVE IInv
  OBVIOUS
<1>0. /\ now = 0 /\ cron = NULL /\ first = NULL /\ enqueued = {} /\ DOMAIN jobs = {}
      /\ worker = [w \in Workers |-> IF w \in Steady THEN Up ELSE Down]
      /\ jobs = [j \in {} |-> NULL] /\ cron_job \in CronJobs
  BY DEF Init
<1>1. /\ worker \in [Workers -> Worker]
      /\ \A w \in Workers : worker[w].pc = "sleeping" /\ worker[w].misses = 0
      /\ \A w \in Workers : worker[w].up => worker[w].timer = 0
      /\ \A w \in Steady : worker[w] = Up
  BY <1>0, Resting, CronAssumption
<1>2. TypeOK
  BY <1>0, <1>1 DEF TypeOK
<1>3. Rows
  <2>1. DOMAIN jobs = 1..0 /\ 0 \in 0..MaxJobs
    BY <1>0, Constants
  <2>2. jobs \in [DOMAIN jobs -> JobRow]
    BY <1>0
  <2> QED
    BY <1>0, <2>1, <2>2 DEF Rows, OncePerOccurrence
<1>4. Time
  BY <1>0, Constants DEF Time
<1>5. \A w \in Workers : Statement(w) /\ Pace(w)
  BY <1>0, <1>1, Constants, Resting DEF Statement, Pace
<1>6. ASSUME NEW w \in Steady, NEW d \in 0..MaxNow PROVE OnTime(w, d)
  <2>1. worker[w].pc = "sleeping" /\ worker[w].misses = 0 /\ worker[w].timer = 0
    BY <1>1, Resting
  <2>2. Budget(0) \in Nat /\ d \in Nat /\ MaxSkew \in Nat /\ Cycle \in Nat /\ Cycle > 0
    BY BudgetSteps, Constants
  <2> QED
    BY <1>0, <2>1, <2>2 DEF OnTime
<1>7. \A d \in 0..MaxNow : Kept(d)
  BY <1>0 DEF Kept
<1> QED
  BY <1>2, <1>3, <1>4, <1>5, <1>6, <1>7 DEF IInv

LEMMA InvNext == IInv /\ [Next]_vars => IInv'
<1> SUFFICES ASSUME IInv, [Next]_vars PROVE IInv'
  OBVIOUS
<1>1. CASE UNCHANGED vars
  BY <1>1 DEF vars, IInv, TypeOK, Rows, OncePerOccurrence, Time, Statement, Pace, OnTime,
              Reached, Kept
<1>2. CASE Next
  <2>1. \A w \in Workers : Statement(w)' /\ Pace(w)'
    BY <1>2, StatementNext, PaceNext
  <2>2. \A w \in Steady : \A d \in 0..MaxNow : LatestDue(d) = d => OnTime(w, d)'
    BY <1>2, OnTimeNext
  <2>3. \A d \in 0..MaxNow : LatestDue(d) = d => Kept(d)'
    BY <1>2, KeptNext
  <2> QED
    BY <1>2, <2>1, <2>2, <2>3, TypeNext, RowsNext, TimeNext DEF IInv
<1> QED
  BY <1>1, <1>2

\* The types of the clock, the row, the jobs and the workers.
THEOREM TypeCorrect == Spec => []TypeOK
<1>1. IInv => TypeOK
  BY DEF IInv
<1> QED
  BY InvInit, InvNext, <1>1, PTL DEF Spec

\* However many workers poll, with whatever clocks and schedule, and whichever of
\* their statements fail or outlive them, try_enqueue_cron enqueues an occurrence once:
\* a job is inserted, or moved by `replace`, only past the occurrence claimed last.
THEOREM Once == Spec => []OncePerOccurrence
<1>1. IInv => OncePerOccurrence
  BY DEF IInv, Rows
<1> QED
  BY InvInit, InvNext, <1>1, PTL DEF Spec

\* A job comes, or gets another run_at, with a claim that moves the row to it.
Given(j) ==
    \/ j \in DOMAIN jobs /\ jobs'[j].run_at = jobs[j].run_at
    \/ /\ cron = NULL \/ cron.last_run_at < cron'.last_run_at
       /\ jobs'[j].run_at = cron'.last_run_at

LEMMA GivenByClaim == ASSUME IInv, Next PROVE \A j \in DOMAIN jobs' : Given(j)
<1>r. \A i \in DOMAIN jobs : jobs[i] \in JobRow
  BY DEF IInv, Rows
<1>1. ASSUME NEW w \in Workers, Commit(w), NEW j \in DOMAIN jobs' PROVE Given(j)
  <2> DEFINE due == worker[w].due_at
             key == cron_job.key
             held == KeyHolders(jobs, key)
  <2>1. CASE ~ (Claims(due) /\ Existed(w))
    <3>1. jobs' = jobs
      BY <1>1, <2>1 DEF Commit
    <3> QED
      BY <1>1, <3>1 DEF Given
  <2>2. CASE Claims(due) /\ Existed(w)
    <3>1. jobs' = InsertCronJob(due) /\ cron'.last_run_at = due /\ due \in Int
      BY <1>1, <2>2, Committed, Fields DEF Commit
    <3>2. cron = NULL \/ cron.last_run_at < cron'.last_run_at
      BY <2>2, <3>1 DEF Claims
    <3>3. cron_job.def \in Defs /\ key \in Keys \cup {NULL}
      BY CronAssumption DEF IInv, TypeOK
    <3> HIDE DEF due
    <3>4. CASE held # {}
      <4> DEFINE u(i) == Upserted(jobs[i], cron_job.def, cron_job.mode, due)
      <4>1. jobs' = [i \in DOMAIN jobs |-> IF i \in held THEN u(i) ELSE jobs[i]]
        BY <3>1, <3>4 DEF InsertCronJob, InsertJob
      <4>2. j \in DOMAIN jobs /\ jobs'[j] \in {u(j), jobs[j]}
        BY <1>1, <4>1
      <4>3. u(j).run_at \in {jobs[j].run_at, due}
        BY <1>r, <3>1, <3>3, <4>2, UpsertedJob
      <4> HIDE DEF u
      <4> QED
        BY <3>1, <3>2, <4>2, <4>3 DEF Given
    <3>5. CASE held = {}
      <4> DEFINE r == NewRow(cron_job.def, key, due)
      <4>1. jobs' = [i \in DOMAIN jobs \cup {NextId} |-> IF i = NextId THEN r ELSE jobs[i]]
        BY <3>1, <3>5 DEF InsertCronJob, InsertJob
      <4>2. r.run_at = due
        BY DEF NewRow
      <4> HIDE DEF r
      <4>3. (j \in DOMAIN jobs /\ jobs'[j] = jobs[j]) \/ jobs'[j] = r
        BY <1>1, <4>1
      <4> QED
        BY <3>1, <3>2, <4>2, <4>3 DEF Given
    <3> QED
      BY <3>4, <3>5
  <2> QED
    BY <2>1, <2>2
<1>2. ASSUME jobs' = jobs PROVE \A j \in DOMAIN jobs' : Given(j)
  BY <1>2 DEF Given
<1>3. ASSUME NEW i \in 1..MaxJobs, TakeJob(i) \/ FinishJob(i), NEW j \in DOMAIN jobs'
      PROVE  Given(j)
  <2>1. \/ jobs' = [jobs EXCEPT ![i] = [jobs[i] EXCEPT !.status = "running"]]
        \/ jobs' = [jobs EXCEPT ![i] = Finished(jobs[i], "succeeded", now)]
    BY <1>3 DEF TakeJob, FinishJob
  <2>2. i \in DOMAIN jobs /\ j \in DOMAIN jobs
    BY <1>3, <2>1 DEF TakeJob, FinishJob
  <2>3. /\ [jobs[i] EXCEPT !.status = "running"].run_at = jobs[i].run_at
        /\ Finished(jobs[i], "succeeded", now).run_at = jobs[i].run_at
    BY <1>r, <2>2 DEF Finished, JobRow
  <2> QED
    BY <2>1, <2>2, <2>3 DEF Given
<1> QED
  BY <1>1, <1>2, <1>3 DEF Next, Tick, Start, Stop, ReadClock, Send, Fail

\* The row of pgspawn.crons is never deleted and never goes back, and every job that is
\* enqueued or moved takes the occurrence to which the same step moves it forward.
THEOREM Advances == Spec => CronAdvances
<1> DEFINE A == /\ cron # NULL => cron' # NULL /\ cron'.last_run_at >= cron.last_run_at
                /\ \A j \in DOMAIN jobs' : Given(j)
<1>1. IInv /\ [Next]_vars => [A]_vars
  <2> SUFFICES ASSUME IInv, Next PROVE A
    OBVIOUS
  <2>1. ASSUME cron # NULL PROVE cron' # NULL /\ cron'.last_run_at >= cron.last_run_at
    <3>1. cron.last_run_at \in Int
      BY <2>1 DEF IInv, TypeOK, CronRow
    <3>2. Reached(cron.last_run_at)
      BY <2>1, <3>1 DEF Reached
    <3> QED
      BY <2>1, <3>1, <3>2, Committed, ReachedStays DEF Next, Reached, Tick, Start, Stop, ReadClock,
                                                       Send, Fail, TakeJob, FinishJob
  <2> QED
    BY <2>1, GivenByClaim
<1> QED
  BY InvInit, InvNext, <1>1, PTL DEF Spec, CronAdvances, Given

\* While a worker is up, an occurrence is lost only if the schedule leaves it less time
\* than a poll with its failures and the difference of the clocks take: until the
\* occurrence is claimed the steady worker is on its way to it (OnTime), no clock shows
\* the next one before it has arrived, and the claim enqueues it (Kept).
THEOREM NoneLost == Steady # {} => (Spec => []NoOccurrenceLost)
<1> SUFFICES ASSUME Steady # {} PROVE Spec => []NoOccurrenceLost
  OBVIOUS
<1>1. IInv => NoOccurrenceLost
  <2> SUFFICES ASSUME IInv, NEW d \in 0..now, LatestDue(d) = d, first # NULL,
                      first + MaxSkew < d, d + Delay + MaxSkew <= NextAfter(d), d + Delay < now
               PROVE  d \in enqueued
    BY DEF NoOccurrenceLost
  <2>1. now \in Nat /\ d \in 0..MaxNow /\ Delay \in Nat
    BY Constants, DelayIs DEF IInv, TypeOK, Time
  <2>2. PICK w \in Steady : TRUE
    OBVIOUS
  <2>3. Reached(d)
    BY <2>1, StillOpen
  <2> QED
    BY <2>1, <2>3 DEF IInv, Kept
<1> QED
  BY InvInit, InvNext, <1>1, PTL DEF Spec
-----------------------------------------------------------------------------
(* What is enqueued is new *)

\* What a worker found due was the latest on its clock, and its statement started soon
\* after; a row it saw is there to stay.
Prompt(w) ==
    /\ worker[w].pc # "sleeping" =>
          \E t \in Clocks :
             /\ worker[w].due_at = LatestDue(t)
             /\ worker[w].pc = "due" => worker[w].up /\ now + worker[w].timer <= t + MaxSkew
             /\ worker[w].pc = "sent" => worker[w].at <= t + MaxSkew + Latency
    /\ worker[w].pc = "sent" /\ worker[w].seen => cron # NULL

\* The row was dated soon after a clock showed an instant by which nothing later than
\* what is claimed was due.
Dated ==
    cron # NULL => \E t \in Clocks : /\ LatestDue(t) <= cron.last_run_at
                                     /\ cron.created_at <= t + MaxSkew + Latency

New == (\A w \in Workers : Prompt(w)) /\ Dated /\ NothingOldEnqueued

\* The row stays, and is claimed for later occurrences only.
LEMMA CronCases ==
    ASSUME IInv, Next
    PROVE  /\ cron # NULL => cron' # NULL
           /\ \/ cron' = cron /\ enqueued' = enqueued
              \/ \E w \in Workers : Commit(w)
<1>1. ASSUME NEW w \in Workers, Commit(w) PROVE cron' # NULL
  BY <1>1, Committed
<1>2. ASSUME NEW w \in Workers, Start(w) \/ Stop(w) \/ ReadClock(w) \/ Send(w) \/ Fail(w)
      PROVE  cron' = cron /\ enqueued' = enqueued
  BY <1>2 DEF Start, Stop, ReadClock, Send, Fail
<1>3. ASSUME NEW j \in 1..MaxJobs, TakeJob(j) \/ FinishJob(j)
      PROVE  cron' = cron /\ enqueued' = enqueued
  BY <1>3 DEF TakeJob, FinishJob
<1>4. Tick => cron' = cron /\ enqueued' = enqueued
  BY DEF Tick
<1> QED
  BY <1>1, <1>2, <1>3, <1>4 DEF Next

LEMMA PromptNext == ASSUME IInv, NEW w \in Workers, Prompt(w), Next PROVE Prompt(w)'
<1>0. /\ WorkersOK /\ worker[w] \in Worker /\ now \in Nat /\ now <= MaxNow
      /\ MaxSkew \in Nat /\ Latency \in Nat /\ Pace(w) /\ worker[w].timer \in Int
  BY Constants, Fields DEF IInv, TypeOK, WorkersOK, Time
<1>1. cron # NULL => cron' # NULL
  BY CronCases
<1>2. Clocks \subseteq Int
  BY DEF Clocks
<1>s. ASSUME worker'[w].pc = worker[w].pc, worker'[w].due_at = worker[w].due_at,
             worker'[w].at = worker[w].at, worker'[w].seen = worker[w].seen,
             worker[w].pc = "due" =>
                worker'[w].up = worker[w].up /\ now' + worker'[w].timer = now + worker[w].timer
      PROVE  Prompt(w)'
  BY <1>s, <1>1 DEF Prompt
<1>r. ASSUME worker'[w].pc = "sleeping" PROVE Prompt(w)'
  BY <1>r DEF Prompt
<1>3. CASE Tick
  <2>1. now' = now + 1 /\ worker[w].timer - 1 \in Int
    BY <1>0, <1>3 DEF Tick
  <2>2. CASE worker[w].up
    <3>1. worker'[w] = [worker[w] EXCEPT !.timer = worker[w].timer - 1]
      BY <1>0, <1>3, <2>2, Ticks
    <3>2. /\ worker'[w].pc = worker[w].pc /\ worker'[w].due_at = worker[w].due_at
          /\ worker'[w].at = worker[w].at /\ worker'[w].seen = worker[w].seen
          /\ worker'[w].up = worker[w].up /\ worker'[w].timer = worker[w].timer - 1
      BY <1>0, <2>1, <3>1, TickedRecord
    <3>3. now' + worker'[w].timer = now + worker[w].timer
      BY <1>0, <2>1, <3>2
    <3> QED
      BY <1>s, <3>2, <3>3
  <2>3. CASE ~ worker[w].up
    <3>1. worker'[w] = worker[w]
      BY <1>0, <1>3, <2>3, Ticks
    <3>2. worker[w].pc # "due"
      BY <2>3 DEF Prompt
    <3> QED
      BY <1>s, <3>1, <3>2
  <2> QED
    BY <2>2, <2>3
<1>4. CASE worker'[w] = worker[w] /\ now' = now
  BY <1>4, <1>s
<1>5. CASE Start(w)
  BY <1>0, <1>5, <1>r, Starts, Resting
<1>6. CASE Stop(w)
  <2>1. CASE worker'[w] = Down
    BY <2>1, <1>r, Resting
  <2>2. CASE worker[w].pc = "sent" /\ worker'[w] = [worker[w] EXCEPT !.up = FALSE]
    <3>1. /\ worker'[w].pc = worker[w].pc /\ worker'[w].due_at = worker[w].due_at
          /\ worker'[w].at = worker[w].at /\ worker'[w].seen = worker[w].seen
          /\ worker[w].pc # "due"
      BY <1>0, <2>2, StoppedRecord
    <3> QED
      BY <1>s, <3>1
  <2> QED
    BY <1>0, <1>6, <2>1, <2>2, Stops
<1>7. CASE ReadClock(w)
  <2> DEFINE t == now + Skew[w]
  <2>1. /\ worker'[w].pc = "due" /\ t \in Clocks /\ t >= now - MaxSkew
        /\ worker'[w].due_at = LatestDue(t) /\ worker'[w].up
        /\ worker'[w].timer = worker[w].timer /\ worker[w].timer <= 0
    BY <1>0, <1>7, Reads
  <2>2. now' = now /\ t \in Int
    BY <1>2, <1>7, <2>1 DEF ReadClock
  <2> HIDE DEF t
  <2>3. now' + worker'[w].timer <= t + MaxSkew
    BY <1>0, <2>1, <2>2
  <2> QED
    BY <2>1, <2>3 DEF Prompt
<1>8. CASE Send(w)
  <2>1. /\ worker[w].pc = "due" /\ worker'[w].pc = "sent" /\ worker'[w].at = now
        /\ worker'[w].due_at = worker[w].due_at /\ (worker'[w].seen => cron # NULL)
    BY <1>0, <1>8, Sends
  <2>2. PICK t \in Clocks : /\ worker[w].due_at = LatestDue(t) /\ worker[w].up
                            /\ now + worker[w].timer <= t + MaxSkew
    BY <2>1 DEF Prompt
  <2>3. now <= t + MaxSkew + Latency
    BY <1>0, <1>2, <2>2 DEF Pace
  <2> QED
    BY <1>1, <2>1, <2>2, <2>3 DEF Prompt
<1>9. CASE Commit(w) \/ Fail(w)
  <2>1. PICK m \in Nat : worker'[w] = IF worker[w].up THEN Asleep(m) ELSE Down
    BY <1>0, <1>9, Ends
  <2> QED
    BY <2>1, <1>r, Resting
<1> QED
  BY <1>3, <1>4, <1>5, <1>6, <1>7, <1>8, <1>9, WorkerCases

\* The row is dated by the statement that inserts it, and keeps its date.
LEMMA DatedNext == ASSUME IInv, New, Next PROVE Dated'
<1>1. CASE cron' = cron
  BY <1>1 DEF New, Dated
<1>2. ASSUME NEW w \in Workers, Commit(w) PROVE Dated'
  <2>1. /\ worker[w] \in Worker /\ worker[w].pc = "sent"
        /\ cron' \in CronRow /\ cron' # NULL /\ cron'.last_run_at >= worker[w].due_at
        /\ cron # NULL => /\ cron \in CronRow /\ cron'.created_at = cron.created_at
                          /\ cron'.last_run_at >= cron.last_run_at
        /\ cron = NULL => cron'.created_at = worker[w].at
    BY <1>2, Committed
  <2>2. CASE cron = NULL
    <3>1. PICK t \in Clocks : /\ worker[w].due_at = LatestDue(t)
                              /\ worker[w].at <= t + MaxSkew + Latency
      BY <2>1 DEF New, Prompt
    <3> QED
      BY <2>1, <2>2, <3>1 DEF Dated
  <2>3. CASE cron # NULL
    <3>1. PICK t \in Clocks : /\ LatestDue(t) <= cron.last_run_at
                              /\ cron.created_at <= t + MaxSkew + Latency
      BY <2>3 DEF New, Dated
    <3>2. LatestDue(t) \in Int /\ cron.last_run_at \in Int /\ cron'.last_run_at \in Int
      BY <2>1, <2>3, ScheduleAssumption DEF CronRow
    <3>3. LatestDue(t) <= cron'.last_run_at
      BY <2>1, <2>3, <3>1, <3>2
    <3> QED
      BY <2>1, <2>3, <3>1, <3>3 DEF Dated
  <2> QED
    BY <2>2, <2>3
<1> QED
  BY <1>1, <1>2, CronCases

\* An occurrence that is enqueued is later than what was claimed when the row was
\* dated, so later than that instant.
LEMMA NothingOldNext == ASSUME IInv, New, Next PROVE NothingOldEnqueued'
<1> SUFFICES ASSUME ~ cron_job'.catch_up, NEW d \in enqueued'
             PROVE  cron' # NULL /\ cron'.created_at < d + MaxSkew + Latency
  BY DEF NothingOldEnqueued
<1>0. cron_job' = cron_job
  BY DEF Next, Tick, Start, Stop, ReadClock, Send, Commit, Fail, TakeJob, FinishJob
<1>1. CASE cron' = cron /\ enqueued' = enqueued
  BY <1>0, <1>1 DEF New, NothingOldEnqueued
<1>2. ASSUME NEW w \in Workers, Commit(w)
      PROVE  cron' # NULL /\ cron'.created_at < d + MaxSkew + Latency
  <2>1. /\ worker[w] \in Worker /\ worker[w].pc = "sent" /\ cron' # NULL
        /\ cron # NULL => cron \in CronRow /\ cron'.created_at = cron.created_at
    BY <1>2, Committed
  <2>2. CASE d \in enqueued
    BY <1>0, <2>1, <2>2 DEF New, NothingOldEnqueued
  <2>3. CASE d \notin enqueued
    <3>1. d = worker[w].due_at /\ Claims(d) /\ worker[w].seen
      BY <1>0, <1>2, <2>3 DEF Commit, Existed
    <3>2. cron # NULL
      BY <2>1, <3>1 DEF New, Prompt
    <3>3. PICK t \in Clocks : d = LatestDue(t)
      BY <2>1, <3>1 DEF New, Prompt
    <3>4. PICK u \in Clocks : /\ LatestDue(u) <= cron.last_run_at
                              /\ cron.created_at <= u + MaxSkew + Latency
      BY <3>2 DEF New, Dated
    <3>5. /\ LatestDue(u) \in Int /\ LatestDue(t) \in Int /\ u \in Int
          /\ LatestDue(t) <= u => LatestDue(t) <= LatestDue(u)
      BY ScheduleAssumption DEF Clocks
    <3>6. /\ cron.last_run_at \in Int /\ cron.created_at \in Int
          /\ cron.last_run_at < d
      BY <2>1, <3>1, <3>2 DEF CronRow, Claims
    <3>7. u < d
      BY <3>3, <3>4, <3>5, <3>6
    <3>8. cron.created_at < d + MaxSkew + Latency
      BY <3>3, <3>4, <3>5, <3>6, <3>7, Constants
    <3> QED
      BY <2>1, <3>2, <3>8
  <2> QED
    BY <2>2, <2>3
<1> QED
  BY <1>1, <1>2, CronCases

LEMMA NewNext == IInv /\ New /\ [Next]_vars => New'
<1> SUFFICES ASSUME IInv, New, [Next]_vars PROVE New'
  OBVIOUS
<1>1. CASE UNCHANGED vars
  BY <1>1 DEF vars, New, Prompt, Dated, NothingOldEnqueued
<1>2. CASE Next
  <2>1. \A w \in Workers : Prompt(w)'
    BY <1>2, PromptNext DEF New
  <2> QED
    BY <1>2, <2>1, DatedNext, NothingOldNext DEF New
<1> QED
  BY <1>1, <1>2

LEMMA NewInit == Init => New
<1> SUFFICES ASSUME Init PROVE New
  OBVIOUS
<1>1. \A w \in Workers : worker[w].pc = "sleeping"
  BY Resting DEF Init
<1>2. cron = NULL /\ enqueued = {}
  BY DEF Init
<1> QED
  BY <1>1, <1>2 DEF New, Prompt, Dated, NothingOldEnqueued

\* Without catch_up a definition that is new enqueues nothing that was due before its
\* row was dated, up to the difference of the clocks and the time between reading one
\* and the statement's now(): however late a statement of a stopped worker commits, it
\* claims what was due when it was sent (Dated), `existing` keeps it from enqueueing
\* that, and whoever saw the row enqueues only what came later.
THEOREM NothingOld == Spec => []NothingOldEnqueued
<1>1. New => NothingOldEnqueued
  BY DEF New
<1>2. Init => IInv /\ New
  BY InvInit, NewInit
<1>3. (IInv /\ New) /\ [Next]_vars => (IInv /\ New)'
  BY InvNext, NewNext
<1> QED
  BY <1>1, <1>2, <1>3, PTL DEF Spec
=============================================================================
