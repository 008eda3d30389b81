---------------------------- MODULE WakeupProofs -----------------------------
(***************************************************************************)
(* Proofs about Wakeup, for any number of claim loops and jobs and any     *)
(* intervals: a loop that sleeps has missed no notification, and whatever  *)
(* is missed anyway is found within a bounded delay.                       *)
(***************************************************************************)
EXTENDS Wakeup, WellFoundedInduction, TLAPS

Owners == {"updating", "running"}

\* A loop that has selected or executes a job is the only one.
Owns(l) ==
    loop[l].pc \in Owners =>
        LET j == loop[l].job
        IN  /\ j \in Jobs \ held
            /\ job[j].status = IF loop[l].pc = "updating" THEN "queued" ELSE "running"
            /\ \A k \in Loops \ {l} : loop[k].pc \in Owners => loop[k].job # j

\* A loop between its claim and the end of its wait that has not been woken: what has
\* been committed since is on its way, or lost; else the wait ends no later than the
\* first job becomes due.
Informed(l) ==
    /\ loop[l].pc \in {"claiming", "updating"} => ~ loop[l].news
    /\ loop[l].pc \in {"inspecting", "waiting"} /\ ~ loop[l].woken =>
          /\ loop[l].news /\ ~ loop[l].deaf => pending \/ listener.pc # "listening"
          /\ loop[l].pc = "waiting" /\ ~ loop[l].news /\ ~ loop[l].blind =>
                \A j \in Runnable : loop[l].timer <= job[j].wait

IInv == TypeOK /\ (\A l \in Loops : Owns(l)) /\ (\A l \in Loops : Informed(l))
-----------------------------------------------------------------------------
(* Constants, minima and records *)

LEMMA Constants ==
    /\ PollInterval \in Nat /\ RetryInterval \in Nat /\ StatementTime \in Nat
    /\ MaxReconnect \in Nat /\ RetryInterval <= MaxReconnect
    /\ MaxDelay \in Nat /\ MaxFaults \in Nat /\ MaxTouches \in [Jobs -> Nat]
    /\ NULL \notin Jobs /\ NULL \notin Nat
  BY WakeupAssumption

LEMMA LessThanWellFounded == IsWellFoundedOn({p \in Nat \X Nat : p[1] < p[2]}, Nat)
  BY NatLessThanWellFounded DEF OpToRel

\* A set of numbers has a least element.
LEMMA MinIs ==
    ASSUME NEW S \in SUBSET Nat, S # {}
    PROVE  Min(S) \in S /\ \A x \in S : Min(S) <= x
<1> DEFINE R == {p \in Nat \X Nat : p[1] < p[2]}
<1>1. IsWellFoundedOn(R, Nat)
  BY LessThanWellFounded
<1> HIDE DEF R
<1>2. PICK m \in S : \A y \in S : <<y, m>> \notin R
  BY <1>1, WFMin
<1>3. ASSUME NEW y \in S PROVE m <= y
  <2>1. y \in Nat /\ m \in Nat
    OBVIOUS
  <2>2. <<y, m>> \notin R
    BY <1>2
  <2>3. y < m => <<y, m>> \in R
    BY <2>1 DEF R
  <2> QED
    BY <2>1, <2>2, <2>3
<1> QED
  BY <1>3 DEF Min

\* What a loop waits: no longer than until the first job is due, unless one is.
LEMMA WaitIs ==
    ASSUME IInv
    PROVE  /\ idle_wait_duration(NextRunnableIn) \in Nat
           /\ NextRunnableIn # 0 =>
                 \A j \in Runnable : idle_wait_duration(NextRunnableIn) <= job[j].wait
<1> DEFINE W == {job[j].wait : j \in Runnable}
           n == NextRunnableIn
<1>1. \A j \in Runnable : job[j].wait \in Nat
  BY DEF Runnable, IInv, TypeOK, Job
<1>2. W \in SUBSET Nat
  BY <1>1
<1>3. CASE Runnable = {}
  BY <1>3, Constants DEF NextRunnableIn, idle_wait_duration
<1>4. CASE Runnable # {}
  <2>1. W # {} /\ n = Min(W)
    BY <1>4 DEF NextRunnableIn
  <2>2. n \in Nat /\ \A j \in Runnable : n <= job[j].wait
    <3>1. n \in W /\ \A x \in W : n <= x
      BY <1>2, <2>1, MinIs
    <3>2. \A j \in Runnable : job[j].wait \in W
      OBVIOUS
    <3> HIDE DEF W, n
    <3> QED
      BY <1>2, <3>1, <3>2
  <2> HIDE DEF W, n
  <2>3. CASE n = 0
    BY <2>3, Constants DEF idle_wait_duration, n
  <2>4. CASE n # 0
    <3> DEFINE P == {n, PollInterval}
    <3>1. P \in SUBSET Nat /\ P # {}
      BY <2>2, Constants
    <3>2. Min(P) \in P /\ Min(P) <= n
      BY <3>1, MinIs
    <3>3. idle_wait_duration(n) = Min(P)
      BY <2>2, <2>4, Constants DEF idle_wait_duration
    <3>4. Min(P) \in Nat
      BY <3>1, <3>2
    <3> HIDE DEF P
    <3> QED
      BY <1>1, <2>2, <3>2, <3>3, <3>4 DEF n
  <2> QED
    BY <2>3, <2>4
<1> QED
  BY <1>3, <1>4

LEMMA LoopFields ==
    ASSUME NEW r \in Loop
    PROVE  /\ r.pc \in Timed \cup {"top", "running"} /\ r.job \in Jobs \cup {NULL} /\ r.timer \in Nat
           /\ r.woken \in BOOLEAN /\ r.blind \in BOOLEAN /\ r.news \in BOOLEAN /\ r.deaf \in BOOLEAN
  BY DEF Loop

LEMMA Fresh ==
    ASSUME NEW pc \in Timed \cup {"top", "running"}, NEW n \in Nat
    PROVE  At(pc, n) \in Loop /\ At(pc, n).pc = pc /\ At(pc, n).job = NULL /\ ~ At(pc, n).news
  BY DEF At, Loop

LEMMA Running ==
    ASSUME NEW j \in Jobs
    PROVE  LET t == [At("running", 0) EXCEPT !.job = j]
           IN  t \in Loop /\ t.pc = "running" /\ t.job = j
  BY DEF At, Loop, Timed

LEMMA Woken ==
    ASSUME NEW r \in Loop
    PROVE  LET t == [r EXCEPT !.woken = TRUE]
           IN  t \in Loop /\ t.pc = r.pc /\ t.job = r.job /\ t.woken /\ t.news = r.news
  BY DEF Loop

LEMMA HeardRecord ==
    ASSUME NEW r \in Loop
    PROVE  LET t == [r EXCEPT !.news = TRUE]
           IN  t \in Loop /\ t.pc = r.pc /\ t.job = r.job /\ t.news
  BY DEF Loop

LEMMA Deafened ==
    ASSUME NEW r \in Loop
    PROVE  LET t == [r EXCEPT !.deaf = r.news]
           IN  /\ t \in Loop /\ t.pc = r.pc /\ t.job = r.job /\ t.timer = r.timer
               /\ t.woken = r.woken /\ t.blind = r.blind /\ t.news = r.news /\ t.deaf = r.news
  BY DEF Loop

LEMMA Aged ==
    ASSUME NEW r \in Loop, NEW n \in Nat
    PROVE  LET t == [r EXCEPT !.timer = n]
           IN  /\ t \in Loop /\ t.pc = r.pc /\ t.job = r.job /\ t.timer = n
               /\ t.woken = r.woken /\ t.blind = r.blind /\ t.news = r.news /\ t.deaf = r.deaf
  BY DEF Loop

LEMMA Selecting ==
    ASSUME NEW r \in Loop, NEW j \in Jobs
    PROVE  LET t == [r EXCEPT !.pc = "updating", !.job = j]
           IN  t \in Loop /\ t.pc = "updating" /\ t.job = j /\ t.news = r.news
  BY DEF Loop, Timed

LEMMA Inspecting ==
    ASSUME NEW r \in Loop, NEW n \in Nat
    PROVE  LET t == [r EXCEPT !.pc = "inspecting", !.job = NULL, !.timer = n]
           IN  /\ t \in Loop /\ t.pc = "inspecting" /\ t.woken = r.woken /\ t.news = r.news
               /\ t.deaf = r.deaf
  BY DEF Loop, Timed

LEMMA JobFields ==
    ASSUME NEW r \in Job
    PROVE  /\ r.status \in {"absent", "queued", "running", "remote", "done"}
           /\ r.wait \in 0..MaxDelay /\ r.touches \in Nat
  BY DEF Job

LEMMA JobMoved ==
    ASSUME NEW r \in Job, NEW s \in {"absent", "queued", "running", "remote", "done"}
    PROVE  LET t == [r EXCEPT !.status = s]
           IN  t \in Job /\ t.status = s /\ t.touches = r.touches
  BY DEF Job

LEMMA JobDelayed ==
    ASSUME NEW r \in Job, NEW n \in 0..MaxDelay
    PROVE  LET t == [r EXCEPT !.wait = n]
           IN  t \in Job /\ t.status = r.status /\ t.wait = n /\ t.touches = r.touches
  BY DEF Job

LEMMA JobTouched ==
    ASSUME NEW r \in Job, NEW s \in {"absent", "queued", "running", "remote", "done"},
           NEW n \in 0..MaxDelay
    PROVE  LET t == [status |-> s, wait |-> n, touches |-> r.touches + 1]
           IN  t \in Job /\ t.status = s /\ t.wait = n /\ t.touches = r.touches + 1
<1>1. r.touches + 1 \in Nat
  BY JobFields
<1> QED
  BY <1>1 DEF Job
-----------------------------------------------------------------------------
(* What notifications do to the loops *)

Waits == {"inspecting", "waiting"}

LEMMA HeardOK ==
    ASSUME NEW f \in [Loops -> Loop]
    PROVE  /\ Heard(f) \in [Loops -> Loop]
           /\ \A l \in Loops : /\ Heard(f)[l].pc = f[l].pc /\ Heard(f)[l].job = f[l].job
                               /\ f[l].pc \in Waits => Heard(f)[l].news
                               /\ f[l].pc \notin Waits => Heard(f)[l] = f[l]
<1> DEFINE h(l) == IF f[l].pc \in Waits THEN [f[l] EXCEPT !.news = TRUE] ELSE f[l]
<1>1. \A l \in Loops : /\ h(l) \in Loop /\ h(l).pc = f[l].pc /\ h(l).job = f[l].job
                       /\ f[l].pc \in Waits => h(l).news
                       /\ f[l].pc \notin Waits => h(l) = f[l]
  BY HeardRecord
<1>2. Heard(f) = [l \in Loops |-> h(l)]
  BY DEF Heard, Waits
<1> HIDE DEF h
<1> QED
  BY <1>1, <1>2

LEMMA NotifyWaitersOK ==
    ASSUME loop \in [Loops -> Loop]
    PROVE  /\ NotifyWaiters \in [Loops -> Loop]
           /\ \A l \in Loops :
                 /\ NotifyWaiters[l].pc = loop[l].pc /\ NotifyWaiters[l].job = loop[l].job
                 /\ NotifyWaiters[l].news = loop[l].news
                 /\ loop[l].pc \in Waits => NotifyWaiters[l].woken
<1> DEFINE h(l) == IF loop[l].pc \in Timed THEN [loop[l] EXCEPT !.woken = TRUE] ELSE loop[l]
<1>1. \A l \in Loops : /\ h(l) \in Loop /\ h(l).pc = loop[l].pc /\ h(l).job = loop[l].job
                       /\ h(l).news = loop[l].news
                       /\ loop[l].pc \in Waits => h(l).woken
  BY Woken DEF Waits, Timed
<1>2. NotifyWaiters = [l \in Loops |-> h(l)]
  BY DEF NotifyWaiters
<1> HIDE DEF h
<1> QED
  BY <1>1, <1>2

\* A notification is on its way to the loops that wait, or they know that it cannot be.
LEMMA InformedByNotify ==
    ASSUME NEW f \in [Loops -> Loop], NEW l \in Loops, loop' = Heard(f), Notify,
           listener' = listener, f[l].pc \in {"claiming", "updating"} => ~ f[l].news
    PROVE  Informed(l)'
<1>1. /\ loop'[l].pc = f[l].pc
      /\ f[l].pc \in Waits => loop'[l].news
      /\ f[l].pc \notin Waits => loop'[l] = f[l]
  BY HeardOK
<1>2. pending' = (listener.pc = "listening")
  BY DEF Notify
<1> QED
  BY <1>1, <1>2 DEF Informed, Waits

LEMMA InformedByWakeUp ==
    ASSUME IInv, NEW l \in Loops, loop' = NotifyWaiters
    PROVE  Informed(l)'
<1>1. loop \in [Loops -> Loop] /\ Informed(l)
  BY DEF IInv, TypeOK
<1>2. /\ loop'[l].pc = loop[l].pc /\ loop'[l].news = loop[l].news
      /\ loop[l].pc \in Waits => loop'[l].woken
  BY <1>1, NotifyWaitersOK
<1> QED
  BY <1>1, <1>2 DEF Informed, Waits

\* Nothing became runnable, and nothing happened to the loop.
LEMMA InformedStill ==
    ASSUME IInv, NEW l \in Loops, loop'[l] = loop[l], pending' = pending, listener' = listener,
           Runnable' \subseteq Runnable, \A j \in Runnable' : job'[j].wait = job[j].wait
    PROVE  Informed(l)'
  BY DEF IInv, Informed

\* A loop that does not wait has nothing to be informed of.
LEMMA InformedElsewhere ==
    ASSUME NEW l \in Loops, loop'[l].pc \notin Waits, ~ loop'[l].news
    PROVE  Informed(l)'
  BY DEF Informed, Waits
-----------------------------------------------------------------------------
(* Who holds a job *)

\* No loop has selected or executes job j.
Free(j) == \A l \in Loops : loop[l].pc \in Owners => loop[l].job # j

LEMMA FreeStatus ==
    ASSUME IInv, NEW j, job[j].status \notin {"queued", "running"} \/ j \in held
    PROVE  Free(j)
  BY DEF IInv, Owns, Free

LEMMA FreeQueued ==
    ASSUME IInv, NEW j, job[j].status = "queued", j \notin Selected
    PROVE  Free(j)
  BY DEF IInv, Owns, Free, Selected, Owners

\* A step of somebody else on a job nobody holds.
LEMMA OwnsOthers ==
    ASSUME IInv, NEW j, Free(j), held' \subseteq held \cup {j},
           \A i \in Jobs \ {j} : job'[i] = job[i],
           \A l \in Loops : loop'[l].pc = loop[l].pc /\ loop'[l].job = loop[l].job
    PROVE  \A l \in Loops : Owns(l)'
  BY DEF IInv, Owns, Free

\* A loop lets go of its job, or has none.
LEMMA OwnsLess ==
    ASSUME IInv, NEW l \in Loops, loop'[l].pc \notin Owners, held' = held,
           \A k \in Loops \ {l} : loop'[k].pc = loop[k].pc /\ loop'[k].job = loop[k].job,
           \A i \in Jobs : job'[i] = job[i] \/ (loop[l].pc \in Owners /\ i = loop[l].job)
    PROVE  \A k \in Loops : Owns(k)'
  BY DEF IInv, Owns
-----------------------------------------------------------------------------
(* Callers and other processes *)

\* A job moves, and the touches are counted.
LEMMA JobTypes ==
    ASSUME IInv, NEW j \in Jobs, NEW s \in {"absent", "queued", "running", "remote", "done"},
           NEW n \in 0..MaxDelay,
           \/ job' = [job EXCEPT ![j].status = s]
           \/ job' = [job EXCEPT ![j].status = s, ![j].wait = n]
           \/ job' = [job EXCEPT ![j].wait = n] /\ s = job[j].status
           \/ CanTouch(j) /\ job' = Touched(j, s, n)
    PROVE  /\ job' \in [Jobs -> Job] /\ \A i \in Jobs : job'[i].touches <= MaxTouches[i]
           /\ job'[j].status = s /\ \A i \in Jobs \ {j} : job'[i] = job[i]
<1>1. /\ job \in [Jobs -> Job] /\ job[j] \in Job /\ job[j].touches \in Nat
      /\ \A i \in Jobs : job[i].touches <= MaxTouches[i]
      /\ MaxTouches[j] \in Nat
  BY JobFields, Constants DEF IInv, TypeOK
<1>2. PICK t \in Job : /\ job' = [job EXCEPT ![j] = t]
                       /\ t.status = s /\ t.touches <= MaxTouches[j]
  <2>1. CASE job' = [job EXCEPT ![j].status = s]
    <3> DEFINE t == [job[j] EXCEPT !.status = s]
    <3>1. t \in Job /\ t.status = s /\ t.touches = job[j].touches
      BY <1>1, JobMoved
    <3>2. job' = [job EXCEPT ![j] = t]
      BY <2>1
    <3> HIDE DEF t
    <3> QED
      BY <1>1, <3>1, <3>2
  <2>2. CASE job' = [job EXCEPT ![j].status = s, ![j].wait = n]
    <3> DEFINE t == [job[j] EXCEPT !.status = s, !.wait = n]
    <3>1. t \in Job /\ t.status = s /\ t.touches = job[j].touches
      BY <1>1 DEF Job
    <3>2. job' = [job EXCEPT ![j] = t]
      BY <1>1, <2>2
    <3> HIDE DEF t
    <3> QED
      BY <1>1, <3>1, <3>2
  <2>3. CASE job' = [job EXCEPT ![j].wait = n] /\ s = job[j].status
    <3> DEFINE t == [job[j] EXCEPT !.wait = n]
    <3>1. t \in Job /\ t.status = s /\ t.touches = job[j].touches
      BY <1>1, <2>3, JobDelayed
    <3>2. job' = [job EXCEPT ![j] = t]
      BY <2>3
    <3> HIDE DEF t
    <3> QED
      BY <1>1, <3>1, <3>2
  <2>4. CASE CanTouch(j) /\ job' = Touched(j, s, n)
    <3> DEFINE t == [status |-> s, wait |-> n, touches |-> job[j].touches + 1]
    <3>1. t \in Job /\ t.status = s /\ t.touches = job[j].touches + 1
      BY <1>1, JobTouched
    <3>2. job' = [job EXCEPT ![j] = t] /\ job[j].touches < MaxTouches[j]
      BY <2>4 DEF Touched, CanTouch
    <3>3. t.touches <= MaxTouches[j]
      BY <1>1, <3>1, <3>2
    <3> HIDE DEF t
    <3> QED
      BY <3>1, <3>2, <3>3
  <2> QED
    BY <2>1, <2>2, <2>3, <2>4
<1> QED
  BY <1>1, <1>2

\* A job finishes outside of any named queue: nothing becomes runnable.
LEMMA DoneUnqueued ==
    ASSUME IInv, NEW j \in Jobs, QueueOf[j] = NULL, job'[j].status = "done",
           \A i \in Jobs \ {j} : job'[i] = job[i]
    PROVE  Runnable' \subseteq Runnable /\ \A i \in Runnable' : job'[i].wait = job[i].wait
  BY DEF Runnable, QueueBusy

\* A job is claimed: nothing becomes runnable either.
LEMMA ClaimedElsewhere ==
    ASSUME IInv, NEW j \in Jobs, job[j].status = "queued", job'[j].status \in {"running", "remote"},
           \A i \in Jobs \ {j} : job'[i] = job[i]
    PROVE  Runnable' \subseteq Runnable /\ \A i \in Runnable' : job'[i].wait = job[i].wait
  BY DEF Runnable, QueueBusy

LEMMA LoopsOK ==
    ASSUME IInv
    PROVE  /\ loop \in [Loops -> Loop]
           /\ \A l \in Loops : loop[l].pc \in {"claiming", "updating"} => ~ loop[l].news
  BY DEF IInv, TypeOK, Informed

\* A statement that notifies commits.
LEMMA NotifiedOK ==
    ASSUME IInv, Notified(loop), listener' = listener
    PROVE  /\ loop' \in [Loops -> Loop] /\ pending' \in BOOLEAN
           /\ pending' => listener'.pc = "listening"
           /\ \A l \in Loops : loop'[l].pc = loop[l].pc /\ loop'[l].job = loop[l].job
           /\ \A l \in Loops : Informed(l)'
<1>1. loop' = Heard(loop) /\ Notify
  BY DEF Notified
<1>2. \A l \in Loops : Informed(l)'
  BY <1>1, LoopsOK, InformedByNotify
<1> QED
  BY <1>1, <1>2, LoopsOK, HeardOK DEF Notify

\* A job nobody holds moves, and the loops hear of it or need not.
LEMMA OtherStep ==
    ASSUME IInv, NEW j \in Jobs, Free(j), Untouched,
           job' \in [Jobs -> Job], \A i \in Jobs : job'[i].touches <= MaxTouches[i],
           \A i \in Jobs \ {j} : job'[i] = job[i],
           held' \subseteq held \cup {j}, j \in held' => job'[j].status = "queued",
           \/ Notified(loop)
           \/ /\ loop' = loop /\ pending' = pending
              /\ Runnable' \subseteq Runnable
              /\ \A i \in Runnable' : job'[i].wait = job[i].wait
    PROVE  IInv'
<1>1. listener' = listener /\ faults' = faults /\ neglect' = neglect /\ setbacks' = setbacks
  BY DEF Untouched
<1>2. /\ loop' \in [Loops -> Loop] /\ pending' \in BOOLEAN /\ (pending' => listener'.pc = "listening")
      /\ \A l \in Loops : loop'[l].pc = loop[l].pc /\ loop'[l].job = loop[l].job
      /\ \A l \in Loops : Informed(l)'
  <2>1. CASE Notified(loop)
    BY <1>1, <2>1, NotifiedOK
  <2>2. CASE /\ loop' = loop /\ pending' = pending
             /\ Runnable' \subseteq Runnable
             /\ \A i \in Runnable' : job'[i].wait = job[i].wait
    <3>1. \A l \in Loops : Informed(l)'
      BY <1>1, <2>2, InformedStill
    <3> QED
      BY <1>1, <2>2, <3>1 DEF IInv, TypeOK
  <2> QED
    BY <2>1, <2>2
<1>3. \A l \in Loops : Owns(l)'
  BY <1>2, OwnsOthers
<1>4. held' \subseteq Jobs /\ \A i \in held' : job'[i].status = "queued"
  BY DEF IInv, TypeOK
<1>5. TypeOK'
  BY <1>1, <1>2, <1>4 DEF IInv, TypeOK
<1> QED
  BY <1>2, <1>3, <1>5 DEF IInv

LEMMA CallersNext == IInv /\ Callers => IInv'
<1> SUFFICES ASSUME IInv, Callers PROVE IInv'
  OBVIOUS
<1> DEFINE Status == {"absent", "queued", "running", "remote", "done"}
<1>0. /\ job \in [Jobs -> Job] /\ \A i \in Jobs : job[i].touches <= MaxTouches[i]
      /\ held \subseteq Jobs /\ \A i \in held : job[i].status = "queued"
      /\ \A i \in Jobs : job[i].wait \in 0..MaxDelay /\ job[i].status \in Status
      /\ 0 \in 0..MaxDelay
  BY JobFields, Constants DEF IInv, TypeOK
<1>1. ASSUME NEW j \in Jobs, NEW wait \in 0..MaxDelay, Insert(j, wait) PROVE IInv'
  <2>1. /\ job[j].status = "absent" /\ Notified(loop) /\ held' = held /\ Untouched
        /\ job' = [job EXCEPT ![j].status = "queued", ![j].wait = wait]
    BY <1>1 DEF Insert
  <2>2. /\ job' \in [Jobs -> Job] /\ \A i \in Jobs : job'[i].touches <= MaxTouches[i]
        /\ job'[j].status = "queued" /\ \A i \in Jobs \ {j} : job'[i] = job[i]
    BY <2>1, JobTypes
  <2>3. Free(j)
    BY <2>1, FreeStatus
  <2> QED
    BY <2>1, <2>2, <2>3, OtherStep
<1>2. ASSUME NEW j \in Jobs, NEW wait \in 0..MaxDelay, Reschedule(j, wait) PROVE IInv'
  <2>1. /\ job[j].status = "queued" /\ j \notin held \cup Selected /\ CanTouch(j)
        /\ Notified(loop) /\ held' = held /\ Untouched /\ job' = Touched(j, "queued", wait)
    BY <1>2 DEF Reschedule
  <2>2. /\ job' \in [Jobs -> Job] /\ \A i \in Jobs : job'[i].touches <= MaxTouches[i]
        /\ job'[j].status = "queued" /\ \A i \in Jobs \ {j} : job'[i] = job[i]
    BY <2>1, JobTypes
  <2>3. Free(j)
    BY <2>1, FreeQueued
  <2> QED
    BY <2>1, <2>2, <2>3, OtherStep
<1>3. ASSUME NEW j \in Jobs, CallerLocks(j) PROVE IInv'
  <2>1. /\ job[j].status = "queued" /\ j \notin held \cup Selected /\ CanTouch(j)
        /\ loop' = loop /\ pending' = pending /\ held' = held \cup {j} /\ Untouched
        /\ job' = Touched(j, "queued", job[j].wait)
    BY <1>3 DEF CallerLocks
  <2>2. /\ job' \in [Jobs -> Job] /\ \A i \in Jobs : job'[i].touches <= MaxTouches[i]
        /\ job'[j].status = "queued" /\ \A i \in Jobs \ {j} : job'[i] = job[i]
    BY <1>0, <2>1, JobTypes
  <2>3. Free(j)
    BY <2>1, FreeQueued
  <2>4. job'[j].wait = job[j].wait
    BY <1>0, <2>1 DEF Touched
  <2>5. /\ \A i \in Jobs : job'[i].status = job[i].status
        /\ \A i \in Jobs : job'[i].wait = job[i].wait
    BY <2>1, <2>2, <2>4
  <2>6. Runnable' = Runnable /\ \A i \in Runnable' : job'[i].wait = job[i].wait
    BY <2>5 DEF Runnable, QueueBusy
  <2> QED
    BY <2>1, <2>2, <2>3, <2>6, OtherStep
<1>4. ASSUME NEW j \in Jobs, CallerEnds(j) PROVE IInv'
  <2>1. j \in held /\ held' = held \ {j} /\ Untouched /\ job[j].status = "queued"
    BY <1>0, <1>4 DEF CallerEnds
  <2>2. Free(j)
    BY <2>1, FreeStatus
  <2>3. CASE \E wait \in 0..MaxDelay : job' = [job EXCEPT ![j].wait = wait] /\ Notified(loop)
    <3>1. PICK wait \in 0..MaxDelay : job' = [job EXCEPT ![j].wait = wait] /\ Notified(loop)
      BY <2>3
    <3>2. /\ job' \in [Jobs -> Job] /\ \A i \in Jobs : job'[i].touches <= MaxTouches[i]
          /\ job'[j].status = "queued" /\ \A i \in Jobs \ {j} : job'[i] = job[i]
      BY <1>0, <2>1, <3>1, JobTypes
    <3> QED
      BY <2>1, <2>2, <3>1, <3>2, OtherStep
  <2>4. CASE UNCHANGED <<job, pending, loop>>
    <3>1. Runnable' = Runnable
      BY <2>4 DEF Runnable, QueueBusy
    <3> QED
      BY <1>0, <2>1, <2>2, <2>4, <3>1, OtherStep
  <2> QED
    BY <1>4, <2>3, <2>4 DEF CallerEnds
<1>5. ASSUME NEW j \in Jobs, RemoteClaim(j) PROVE IInv'
  <2>1. /\ job[j].status = "queued" /\ j \notin held \cup Selected
        /\ loop' = loop /\ pending' = pending /\ held' = held /\ Untouched
        /\ job' = [job EXCEPT ![j].status = "remote"]
    BY <1>5 DEF RemoteClaim, Claimable, Runnable
  <2>2. /\ job' \in [Jobs -> Job] /\ \A i \in Jobs : job'[i].touches <= MaxTouches[i]
        /\ job'[j].status = "remote" /\ \A i \in Jobs \ {j} : job'[i] = job[i]
    BY <1>0, <2>1, JobTypes
  <2>3. Free(j)
    BY <2>1, FreeQueued
  <2>4. Runnable' \subseteq Runnable /\ \A i \in Runnable' : job'[i].wait = job[i].wait
    BY <2>1, <2>2, ClaimedElsewhere
  <2> QED
    BY <2>1, <2>2, <2>3, <2>4, OtherStep
<1>6. ASSUME NEW j \in Jobs, RemoteReport(j) PROVE IInv'
  <2>1. /\ job[j].status = "remote" /\ FinishOrRequeue(j, loop) /\ held' = held /\ Untouched
        /\ j \notin held
    BY <1>0, <1>6 DEF RemoteReport
  <2>2. Free(j)
    BY <2>1, FreeStatus
  <2>3. CASE /\ job' = [job EXCEPT ![j].status = "done"]
             /\ IF QueueOf[j] # NULL THEN Notified(loop) ELSE UNCHANGED pending /\ loop' = loop
    <3>1. /\ job' \in [Jobs -> Job] /\ \A i \in Jobs : job'[i].touches <= MaxTouches[i]
          /\ job'[j].status = "done" /\ \A i \in Jobs \ {j} : job'[i] = job[i]
      BY <1>0, <2>3, JobTypes
    <3>2. CASE QueueOf[j] # NULL
      BY <2>1, <2>2, <2>3, <3>1, <3>2, OtherStep
    <3>3. CASE QueueOf[j] = NULL
      <4>1. Runnable' \subseteq Runnable /\ \A i \in Runnable' : job'[i].wait = job[i].wait
        BY <3>1, <3>3, DoneUnqueued
      <4> QED
        BY <2>1, <2>2, <2>3, <3>1, <3>3, <4>1, OtherStep
    <3> QED
      BY <3>2, <3>3
  <2>4. CASE /\ CanTouch(j) /\ Notified(loop)
             /\ \E wait \in 0..MaxDelay : job' = Touched(j, "queued", wait)
    <3>1. PICK wait \in 0..MaxDelay : job' = Touched(j, "queued", wait)
      BY <2>4
    <3>2. /\ job' \in [Jobs -> Job] /\ \A i \in Jobs : job'[i].touches <= MaxTouches[i]
          /\ job'[j].status = "queued" /\ \A i \in Jobs \ {j} : job'[i] = job[i]
      BY <2>4, <3>1, JobTypes
    <3> QED
      BY <2>1, <2>2, <2>4, <3>2, OtherStep
  <2> QED
    BY <2>1, <2>3, <2>4 DEF FinishOrRequeue
<1> QED
  BY <1>1, <1>2, <1>3, <1>4, <1>5, <1>6 DEF Callers
-----------------------------------------------------------------------------
(* Claim loops *)

Counters == faults' \in 0..MaxFaults /\ neglect' \in Nat /\ setbacks' \in Nat

\* A fault is counted within its bound, and the other two counters are numbers.
LEMMA CountersOK ==
    ASSUME IInv,
           faults' = faults \/ (faults' = faults + 1 /\ faults < MaxFaults),
           neglect' \in {0, neglect, neglect + 1}, setbacks' \in {0, setbacks, setbacks + 1}
    PROVE  Counters
  BY Constants DEF IInv, TypeOK, Counters

\* A loop moves on and holds no job, and nobody else moves.
LEMMA LoopMoves ==
    ASSUME IInv, NEW l \in Loops, NEW r \in Loop, loop' = [loop EXCEPT ![l] = r],
           r.pc \notin Owners, LoopOnly, Counters, Informed(l)'
    PROVE  IInv'
<1>1. job' = job /\ held' = held /\ pending' = pending /\ listener' = listener
  BY DEF LoopOnly
<1>2. /\ loop' \in [Loops -> Loop] /\ loop'[l] = r
      /\ \A k \in Loops \ {l} : loop'[k] = loop[k]
  BY LoopsOK
<1>3. TypeOK'
  BY <1>1, <1>2 DEF IInv, TypeOK, Counters
<1>4. \A k \in Loops : Owns(k)'
  BY <1>1, <1>2, OwnsLess
<1>5. Runnable' = Runnable
  BY <1>1 DEF Runnable, QueueBusy
<1>6. \A k \in Loops \ {l} : Informed(k)'
  BY <1>1, <1>2, <1>5, InformedStill
<1> QED
  BY <1>3, <1>4, <1>6 DEF IInv

\* From the top, from an error, after a wait: no news yet.
LEMMA LoopElsewhere ==
    ASSUME IInv, NEW l \in Loops, NEW pc \in {"top", "claiming", "failed"}, NEW n \in Nat,
           loop' = [loop EXCEPT ![l] = At(pc, n)], LoopOnly, Counters
    PROVE  IInv'
<1>1. pc \in Timed \cup {"top", "running"} /\ pc \notin Owners /\ pc \notin Waits
  BY DEF Timed, Owners, Waits
<1>2. At(pc, n) \in Loop /\ At(pc, n).pc = pc /\ ~ At(pc, n).news
  BY <1>1, Fresh
<1>3. loop'[l] = At(pc, n)
  BY LoopsOK
<1>4. Informed(l)'
  BY <1>1, <1>2, <1>3, InformedElsewhere
<1> QED
  BY <1>1, <1>2, <1>4, LoopMoves

\* The claim found nothing or lost its race.
LEMMA LoopInspects ==
    ASSUME IInv, NEW l \in Loops, loop[l].pc \in {"claiming", "updating"}, ToInspect(l),
           LoopOnly, Counters
    PROVE  IInv'
<1> DEFINE r == [loop[l] EXCEPT !.pc = "inspecting", !.job = NULL, !.timer = StatementTime]
<1>1. loop[l] \in Loop /\ ~ loop[l].news /\ StatementTime \in Nat
  BY LoopsOK, Constants
<1>2. r \in Loop /\ r.pc = "inspecting" /\ r.news = loop[l].news
  BY <1>1, Inspecting
<1>3. loop' = [loop EXCEPT ![l] = r]
  BY DEF ToInspect
<1> HIDE DEF r
<1>4. loop'[l] = r
  BY <1>3, LoopsOK
<1>5. Informed(l)'
  BY <1>1, <1>2, <1>4 DEF Informed
<1>6. r.pc \notin Owners
  BY <1>2 DEF Owners
<1> QED
  BY <1>2, <1>3, <1>5, <1>6, LoopMoves

\* next_runnable_in has answered, or failed.
LEMMA LoopWaits ==
    ASSUME IInv, NEW l \in Loops, loop[l].pc = "inspecting", LoopOnly, Counters,
           NEW n \in Nat, NEW b \in BOOLEAN,
           loop' = [loop EXCEPT ![l] = [loop[l] EXCEPT !.pc = "waiting", !.timer = n, !.blind = b]],
           b \/ \A j \in Runnable : n <= job[j].wait
    PROVE  IInv'
<1> DEFINE r == [loop[l] EXCEPT !.pc = "waiting", !.timer = n, !.blind = b]
<1>1. loop[l] \in Loop
  BY LoopsOK
<1>2. /\ r \in Loop /\ r.pc = "waiting" /\ r.timer = n /\ r.blind = b
      /\ r.woken = loop[l].woken /\ r.news = loop[l].news /\ r.deaf = loop[l].deaf
  BY <1>1 DEF Loop, Timed
<1> HIDE DEF r
<1>3. loop' = [loop EXCEPT ![l] = r]
  BY DEF r
<1>4. loop'[l] = r
  BY <1>3, LoopsOK
<1>5. job' = job /\ pending' = pending /\ listener' = listener
  BY DEF LoopOnly
<1>6. Runnable' = Runnable
  BY <1>5 DEF Runnable, QueueBusy
<1>7. Informed(l)
  BY DEF IInv
<1>8. Informed(l)'
  BY <1>2, <1>4, <1>5, <1>6, <1>7 DEF Informed
<1>9. r.pc \notin Owners
  BY <1>2 DEF Owners
<1> QED
  BY <1>2, <1>3, <1>8, <1>9, LoopMoves

\* The candidate's row is locked by one loop.
LEMMA SelectNext == ASSUME IInv, NEW l \in Loops, ClaimSelect(l) PROVE IInv'
<1>1. PICK j \in Claimable :
        loop' = [loop EXCEPT ![l] = [loop[l] EXCEPT !.pc = "updating", !.job = j]]
  BY DEF ClaimSelect
<1>2. /\ loop[l].pc = "claiming" /\ job' = job /\ held' = held /\ pending' = pending
      /\ listener' = listener /\ faults' = faults /\ neglect' = neglect /\ setbacks' = setbacks
  BY DEF ClaimSelect, LoopOnly, NoSetback
<1>3. j \in Jobs /\ job[j].status = "queued" /\ j \notin held /\ j \notin Selected
  BY DEF Claimable, Runnable
<1>4. loop[l] \in Loop /\ ~ loop[l].news
  BY <1>2, LoopsOK
<1> DEFINE r == [loop[l] EXCEPT !.pc = "updating", !.job = j]
<1>5. r \in Loop /\ r.pc = "updating" /\ r.job = j /\ r.news = loop[l].news
  BY <1>3, <1>4, Selecting
<1> HIDE DEF r
<1>6. /\ loop' \in [Loops -> Loop] /\ loop'[l] = r
      /\ \A k \in Loops \ {l} : loop'[k] = loop[k]
  BY <1>1, <1>5, LoopsOK DEF r
<1>7. TypeOK'
  BY <1>2, <1>6 DEF IInv, TypeOK
<1>8. Free(j)
  BY <1>3, FreeQueued
<1>9. \A k \in Loops : Owns(k)'
  BY <1>2, <1>3, <1>5, <1>6, <1>8 DEF IInv, Owns, Free, Owners
<1>10. Runnable' = Runnable
  BY <1>2 DEF Runnable, QueueBusy
<1>11. \A k \in Loops \ {l} : Informed(k)'
  BY <1>2, <1>6, <1>10, InformedStill
<1>12. Informed(l)'
  BY <1>4, <1>5, <1>6, InformedElsewhere DEF Waits
<1> QED
  BY <1>7, <1>9, <1>11, <1>12 DEF IInv

\* It becomes the loop's job.
LEMMA UpdateNext == ASSUME IInv, NEW l \in Loops, ClaimUpdate(l) PROVE IInv'
<1> DEFINE j == loop[l].job
           r == [At("running", 0) EXCEPT !.job = j]
<1>1. /\ loop[l].pc = "updating" /\ held' = held /\ pending' = pending
      /\ listener' = listener /\ faults' = faults /\ neglect' = 0 /\ setbacks' = 0
      /\ job' = [job EXCEPT ![j].status = "running"] /\ loop' = [loop EXCEPT ![l] = r]
  BY DEF ClaimUpdate
<1>2. /\ j \in Jobs \ held /\ job[j].status = "queued"
      /\ \A k \in Loops \ {l} : loop[k].pc \in Owners => loop[k].job # j
  BY <1>1 DEF IInv, Owns, Owners
<1>3. r \in Loop /\ r.pc = "running" /\ r.job = j
  BY <1>2, Running
<1>n. ~ r.news
  BY DEF At
<1> HIDE DEF r, j
<1>4. 0 \in 0..MaxDelay
  BY Constants
<1>5. /\ job' \in [Jobs -> Job] /\ \A i \in Jobs : job'[i].touches <= MaxTouches[i]
      /\ job'[j].status = "running" /\ \A i \in Jobs \ {j} : job'[i] = job[i]
  BY <1>1, <1>2, <1>4, JobTypes
<1>6. /\ loop' \in [Loops -> Loop] /\ loop'[l] = r
      /\ \A k \in Loops \ {l} : loop'[k] = loop[k]
  BY <1>1, <1>3, LoopsOK
<1>7. TypeOK'
  BY <1>1, <1>2, <1>5, <1>6 DEF IInv, TypeOK
<1>8. \A k \in Loops : Owns(k)'
  BY <1>1, <1>2, <1>3, <1>5, <1>6 DEF IInv, Owns, Owners
<1>9. Runnable' \subseteq Runnable /\ \A i \in Runnable' : job'[i].wait = job[i].wait
  BY <1>2, <1>5, ClaimedElsewhere
<1>10. \A k \in Loops \ {l} : Informed(k)'
  BY <1>1, <1>6, <1>9, InformedStill
<1>11. Informed(l)'
  BY <1>3, <1>6, <1>n, InformedElsewhere DEF Waits
<1> QED
  BY <1>7, <1>8, <1>10, <1>11 DEF IInv

\* The report of its handler commits.
LEMMA HandlerNext == ASSUME IInv, NEW l \in Loops, HandlerReturns(l) PROVE IInv'
<1> DEFINE j     == loop[l].job
           woken == IF QueueOf[j] # NULL THEN NotifyWaiters ELSE loop
           f     == [woken EXCEPT ![l] = At("top", 0)]
<1>1. /\ loop[l].pc = "running" /\ held' = held /\ listener' = listener
      /\ faults' = faults /\ neglect' = neglect /\ setbacks' = setbacks
      /\ FinishOrRequeue(j, f)
  BY DEF HandlerReturns, NoSetback
<1>2. /\ j \in Jobs \ held /\ job[j].status = "running"
      /\ \A k \in Loops \ {l} : loop[k].pc \in Owners => loop[k].job # j
  BY <1>1 DEF IInv, Owns, Owners
<1>3. /\ At("top", 0) \in Loop /\ At("top", 0).pc = "top" /\ ~ At("top", 0).news
  BY Fresh
<1>4. /\ woken \in [Loops -> Loop]
      /\ \A k \in Loops : woken[k].pc = loop[k].pc /\ woken[k].job = loop[k].job
                          /\ woken[k].news = loop[k].news
  BY LoopsOK, NotifyWaitersOK
<1>w. QueueOf[j] = NULL => woken = loop
  OBVIOUS
<1> HIDE DEF woken, j
<1>5. /\ f \in [Loops -> Loop] /\ f[l] = At("top", 0)
      /\ \A k \in Loops \ {l} : f[k] = woken[k]
  BY <1>3, <1>4
<1> HIDE DEF f
<1>6. \A k \in Loops : f[k].pc \in {"claiming", "updating"} => ~ f[k].news
  BY <1>3, <1>4, <1>5, LoopsOK
<1>7. /\ job' \in [Jobs -> Job] /\ (\A i \in Jobs : job'[i].touches <= MaxTouches[i])
      /\ (\A i \in Jobs \ {j} : job'[i] = job[i])
      /\ \/ Notified(f)
         \/ job'[j].status = "done" /\ QueueOf[j] = NULL /\ pending' = pending /\ loop' = f
  <2>0. 0 \in 0..MaxDelay
    BY Constants
  <2>1. CASE /\ job' = [job EXCEPT ![j].status = "done"]
             /\ IF QueueOf[j] # NULL THEN Notified(f) ELSE UNCHANGED pending /\ loop' = f
    <3>1. /\ job' \in [Jobs -> Job] /\ \A i \in Jobs : job'[i].touches <= MaxTouches[i]
          /\ job'[j].status = "done" /\ \A i \in Jobs \ {j} : job'[i] = job[i]
      BY <1>2, <2>0, <2>1, JobTypes
    <3> QED
      BY <2>1, <3>1
  <2>2. CASE /\ CanTouch(j) /\ Notified(f)
             /\ \E wait \in 0..MaxDelay : job' = Touched(j, "queued", wait)
    <3>1. PICK wait \in 0..MaxDelay : job' = Touched(j, "queued", wait)
      BY <2>2
    <3>2. /\ job' \in [Jobs -> Job] /\ \A i \in Jobs : job'[i].touches <= MaxTouches[i]
          /\ job'[j].status = "queued" /\ \A i \in Jobs \ {j} : job'[i] = job[i]
      BY <1>2, <2>2, <3>1, JobTypes
    <3> QED
      BY <2>2, <3>2
  <2> QED
    BY <1>1, <2>1, <2>2 DEF FinishOrRequeue
<1>8. /\ loop' \in [Loops -> Loop] /\ pending' \in BOOLEAN
      /\ (pending' => listener'.pc = "listening")
      /\ (\A k \in Loops : loop'[k].pc = f[k].pc /\ loop'[k].job = f[k].job)
      /\ (\A k \in Loops : Informed(k)')
  <2>1. CASE Notified(f)
    <3>1. loop' = Heard(f) /\ Notify
      BY <2>1 DEF Notified
    <3>2. \A k \in Loops : Informed(k)'
      BY <1>1, <1>5, <1>6, <3>1, InformedByNotify
    <3> QED
      BY <1>1, <1>5, <3>1, <3>2, HeardOK DEF Notify
  <2>2. CASE job'[j].status = "done" /\ QueueOf[j] = NULL /\ pending' = pending /\ loop' = f
    <3>1. Runnable' \subseteq Runnable /\ \A i \in Runnable' : job'[i].wait = job[i].wait
      BY <1>2, <1>7, <2>2, DoneUnqueued
    <3>2. \A k \in Loops \ {l} : loop'[k] = loop[k]
      BY <1>5, <1>w, <2>2
    <3>3. \A k \in Loops \ {l} : Informed(k)'
      BY <1>1, <2>2, <3>1, <3>2, InformedStill
    <3>4. Informed(l)'
      BY <1>3, <1>5, <2>2, InformedElsewhere DEF Waits
    <3> QED
      BY <1>1, <1>5, <2>2, <3>3, <3>4 DEF IInv, TypeOK
  <2> QED
    BY <1>7, <2>1, <2>2
<1>9. /\ loop'[l].pc = "top"
      /\ \A k \in Loops \ {l} : loop'[k].pc = loop[k].pc /\ loop'[k].job = loop[k].job
  BY <1>3, <1>4, <1>5, <1>8
<1>10. \A k \in Loops : Owns(k)'
  <2>1. \A i \in Jobs : job'[i] = job[i] \/ (loop[l].pc \in Owners /\ i = loop[l].job)
    BY <1>1, <1>7 DEF j, Owners
  <2>2. loop'[l].pc \notin Owners
    BY <1>9 DEF Owners
  <2> QED
    BY <1>1, <1>9, <2>1, <2>2, OwnsLess
<1>11. held' \subseteq Jobs /\ \A i \in held' : job'[i].status = "queued"
  BY <1>1, <1>2, <1>7 DEF IInv, TypeOK
<1>12. TypeOK'
  BY <1>1, <1>7, <1>8, <1>11 DEF IInv, TypeOK
<1> QED
  BY <1>8, <1>10, <1>12 DEF IInv

LEMMA ClaimLoopNext == ASSUME IInv, NEW l \in Loops, ClaimLoop(l) PROVE IInv'
<1>0. /\ StatementTime \in Nat /\ RetryInterval \in Nat /\ 0 \in Nat
      /\ neglect \in Nat /\ setbacks \in Nat /\ faults \in 0..MaxFaults
  BY Constants DEF IInv, TypeOK
<1>c. \A kind : CanFail(kind) => faults < MaxFaults
  BY DEF CanFail
<1>n. NoSetback => Counters
  BY CountersOK DEF NoSetback
<1>1. CASE BeginClaim(l)
  BY <1>0, <1>1, <1>n, LoopElsewhere DEF BeginClaim
<1>2. CASE ClaimSelect(l)
  BY <1>2, SelectNext
<1>3. CASE ClaimNone(l)
  <2>1. Counters
    BY <1>3, CountersOK DEF ClaimNone
  <2> QED
    BY <1>3, <2>1, LoopInspects DEF ClaimNone
<1>4. CASE ClaimUpdate(l)
  BY <1>4, UpdateNext
<1>5. CASE ClaimLosesRace(l)
  <2>1. Counters
    BY <1>5, CountersOK DEF ClaimLosesRace, Setback
  <2> QED
    BY <1>5, <2>1, LoopInspects DEF ClaimLosesRace
<1>6. CASE ClaimErr(l)
  <2>1. Counters
    BY <1>6, <1>c, CountersOK DEF ClaimErr, Setback, Fault
  <2> QED
    BY <1>0, <1>6, <2>1, LoopElsewhere DEF ClaimErr
<1>7. CASE Inspect(l)
  <2> DEFINE n == idle_wait_duration(NextRunnableIn)
             b == NextRunnableIn = 0
  <2>1. n \in Nat /\ b \in BOOLEAN /\ (b \/ \A j \in Runnable : n <= job[j].wait)
    BY WaitIs
  <2>2. /\ loop[l].pc = "inspecting" /\ LoopOnly
        /\ loop' = [loop EXCEPT ![l] = [loop[l] EXCEPT !.pc = "waiting", !.timer = n, !.blind = b]]
    BY <1>7, LoopsOK DEF Inspect
  <2>3. Counters
    BY <1>7, <1>n DEF Inspect
  <2> HIDE DEF n, b
  <2> QED
    BY <2>1, <2>2, <2>3, LoopWaits
<1>8. CASE InspectErr(l)
  <2>1. Counters
    BY <1>8, <1>c, CountersOK DEF InspectErr, Setback, Fault
  <2>2. /\ loop[l].pc = "inspecting" /\ LoopOnly
        /\ loop' = [loop EXCEPT ![l] = [loop[l] EXCEPT !.pc = "waiting", !.timer = RetryInterval,
                                                       !.blind = TRUE]]
    BY <1>8, LoopsOK DEF InspectErr
  <2> QED
    BY <1>0, <2>1, <2>2, LoopWaits
<1>9. CASE Wake(l)
  BY <1>0, <1>9, <1>n, LoopElsewhere DEF Wake
<1>10. CASE HandlerReturns(l)
  BY <1>10, HandlerNext
<1> QED
  BY <1>1, <1>2, <1>3, <1>4, <1>5, <1>6, <1>7, <1>8, <1>9, <1>10 DEF ClaimLoop
-----------------------------------------------------------------------------
(* The listener, and time *)

LEMMA DownIs == ASSUME NEW n \in Nat PROVE Down(n) \in Nat /\ Down(n) <= n
  BY DEF Down

\* The listener stays within its delays.
LEMMA BackOffOK ==
    ASSUME IInv, BackOff
    PROVE  /\ listener'.pc = "backoff"
           /\ listener'.delay \in RetryInterval..MaxReconnect /\ listener'.timer \in 0..MaxReconnect
<1>1. listener.delay \in Nat /\ RetryInterval <= listener.delay /\ listener.delay <= MaxReconnect
  BY Constants DEF IInv, TypeOK
<1> DEFINE P == {2 * listener.delay, MaxReconnect}
<1>2. P \in SUBSET Nat /\ P # {}
  BY <1>1, Constants
<1>3. Min(P) \in P /\ Min(P) <= MaxReconnect
  BY <1>2, MinIs
<1>4. /\ listener'.pc = "backoff" /\ listener'.timer = listener.delay
      /\ listener'.delay = Min(P)
  BY DEF BackOff
<1>5. Min(P) \in Nat /\ RetryInterval <= Min(P)
  BY <1>1, <1>3, Constants
<1> HIDE DEF P
<1> QED
  BY <1>1, <1>3, <1>4, <1>5, Constants

\* A step of the listener, with jobs and rows left alone.
LEMMA ListenerStep ==
    ASSUME IInv, job' = job, held' = held, neglect' = neglect, setbacks' = setbacks,
           faults' \in 0..MaxFaults, pending' \in BOOLEAN, pending' => listener'.pc = "listening",
           listener'.pc \in {"connecting", "listening", "backoff"},
           listener'.delay \in RetryInterval..MaxReconnect, listener'.timer \in 0..MaxReconnect,
           loop' \in [Loops -> Loop],
           \A l \in Loops : loop'[l].pc = loop[l].pc /\ loop'[l].job = loop[l].job,
           \A l \in Loops : Informed(l)'
    PROVE  IInv'
<1>1. TypeOK'
  BY DEF IInv, TypeOK
<1>2. \A l \in Loops : Owns(l)'
  BY DEF IInv, Owns
<1> QED
  BY <1>1, <1>2 DEF IInv

LEMMA ListenerNext == IInv /\ ListenerLoop => IInv'
<1> SUFFICES ASSUME IInv, ListenerLoop PROVE IInv'
  OBVIOUS
<1>0. /\ loop \in [Loops -> Loop] /\ faults \in 0..MaxFaults /\ pending \in BOOLEAN
      /\ (pending => listener.pc = "listening")
      /\ listener.delay \in RetryInterval..MaxReconnect /\ listener.timer \in 0..MaxReconnect
      /\ RetryInterval \in RetryInterval..MaxReconnect /\ 0 \in 0..MaxReconnect
      /\ \A l \in Loops : Informed(l)
  BY Constants DEF IInv, TypeOK
<1>c. \A kind : CanFail(kind) => faults + 1 \in 0..MaxFaults
  BY <1>0, Constants DEF CanFail
<1>w. ASSUME loop' = NotifyWaiters
      PROVE  /\ loop' \in [Loops -> Loop]
             /\ \A l \in Loops : loop'[l].pc = loop[l].pc /\ loop'[l].job = loop[l].job
             /\ \A l \in Loops : Informed(l)'
  BY <1>0, <1>w, NotifyWaitersOK, InformedByWakeUp
<1>1. CASE Connect
  <2>1. /\ loop' = NotifyWaiters /\ job' = job /\ held' = held /\ pending' = pending
        /\ faults' = faults /\ neglect' = neglect /\ setbacks' = setbacks
        /\ listener' = [pc |-> "listening", timer |-> 0, delay |-> RetryInterval]
    BY <1>1 DEF Connect, NoSetback
  <2>2. listener'.pc = "listening" /\ listener'.timer = 0 /\ listener'.delay = RetryInterval
    BY <2>1
  <2> QED
    BY <1>0, <1>w, <2>1, <2>2, ListenerStep
<1>2. CASE ConnectFails
  <2>1. /\ loop' = loop /\ job' = job /\ held' = held /\ pending' = pending
        /\ neglect' = neglect /\ setbacks' = setbacks /\ faults' \in 0..MaxFaults
        /\ listener.pc = "connecting" /\ BackOff
    BY <1>2, <1>c DEF ConnectFails, Fault
  <2>2. /\ listener'.pc = "backoff"
        /\ listener'.delay \in RetryInterval..MaxReconnect /\ listener'.timer \in 0..MaxReconnect
    BY <2>1, BackOffOK
  <2>3. \A l \in Loops : Informed(l)'
    BY <1>0, <2>1, <2>2 DEF Informed, Runnable, QueueBusy
  <2> QED
    BY <1>0, <2>1, <2>2, <2>3, ListenerStep
<1>3. CASE ListenerBreaks
  <2>1. /\ loop' = loop /\ job' = job /\ held' = held /\ pending' = FALSE
        /\ neglect' = neglect /\ setbacks' = setbacks /\ faults' \in 0..MaxFaults
        /\ BackOff
    BY <1>3, <1>c DEF ListenerBreaks, Fault
  <2>2. /\ listener'.pc = "backoff"
        /\ listener'.delay \in RetryInterval..MaxReconnect /\ listener'.timer \in 0..MaxReconnect
    BY <2>1, BackOffOK
  <2>3. \A l \in Loops : Informed(l)'
    BY <1>0, <2>1, <2>2 DEF Informed, Runnable, QueueBusy
  <2> QED
    BY <1>0, <2>1, <2>2, <2>3, ListenerStep
<1>4. CASE ListenerBlips
  <2>1. /\ job' = job /\ held' = held /\ pending' = FALSE /\ listener' = listener
        /\ neglect' = neglect /\ setbacks' = setbacks /\ faults' \in 0..MaxFaults
        /\ loop' = [l \in Loops |-> [loop[l] EXCEPT !.deaf = loop[l].news]]
        /\ listener.pc = "listening"
    BY <1>4, <1>c DEF ListenerBlips, Fault
  <2>2. \A l \in Loops :
          /\ loop'[l] \in Loop /\ loop'[l].pc = loop[l].pc /\ loop'[l].job = loop[l].job
          /\ loop'[l].timer = loop[l].timer /\ loop'[l].woken = loop[l].woken
          /\ loop'[l].blind = loop[l].blind /\ loop'[l].news = loop[l].news
          /\ loop'[l].deaf = loop[l].news
    BY <1>0, <2>1, Deafened
  <2>3. loop' \in [Loops -> Loop]
    BY <2>1, <2>2
  <2>4. Runnable' = Runnable
    BY <2>1 DEF Runnable, QueueBusy
  <2>5. \A l \in Loops : Informed(l)'
    BY <1>0, <2>1, <2>2, <2>4 DEF Informed
  <2> QED
    BY <1>0, <2>1, <2>2, <2>3, <2>5, ListenerStep
<1>5. CASE ReconnectTimer
  <2>1. /\ loop' = loop /\ job' = job /\ held' = held /\ pending' = pending
        /\ neglect' = neglect /\ setbacks' = setbacks /\ faults' = faults
        /\ listener.pc = "backoff" /\ listener' = [listener EXCEPT !.pc = "connecting"]
    BY <1>5 DEF ReconnectTimer, NoSetback
  <2>2. /\ listener'.pc = "connecting" \/ listener'.pc = listener.pc
        /\ listener'.delay = listener.delay /\ listener'.timer = listener.timer
    BY <2>1
  <2>3. \A l \in Loops : Informed(l)'
    BY <1>0, <2>1, <2>2 DEF Informed, Runnable, QueueBusy
  <2> QED
    BY <1>0, <2>1, <2>2, <2>3, ListenerStep
<1>6. CASE Deliver
  <2>1. /\ loop' = NotifyWaiters /\ job' = job /\ held' = held /\ pending' = FALSE
        /\ faults' = faults /\ neglect' = neglect /\ setbacks' = setbacks
        /\ listener' = listener /\ listener.pc = "listening"
    BY <1>6 DEF Deliver, NoSetback
  <2> QED
    BY <1>0, <1>w, <2>1, ListenerStep
<1> QED
  BY <1>1, <1>2, <1>3, <1>4, <1>5, <1>6 DEF ListenerLoop

\* Jobs become due no earlier than the loops that wait for them wake up.
LEMMA TickNext == IInv /\ Tick => IInv'
<1> SUFFICES ASSUME IInv, Tick PROVE IInv'
  OBVIOUS
<1>0. /\ job \in [Jobs -> Job] /\ loop \in [Loops -> Loop]
      /\ neglect \in Nat /\ setbacks \in Nat /\ MaxReconnect \in Nat
  BY Constants DEF IInv, TypeOK
<1>1. \A j \in Jobs : /\ job'[j] \in Job /\ job'[j].status = job[j].status
                      /\ job'[j].wait = Down(job[j].wait) /\ job'[j].touches = job[j].touches
  <2> TAKE j \in Jobs
  <2> DEFINE n == Down(job[j].wait)
  <2>1. job'[j] = [job[j] EXCEPT !.wait = n]
    BY DEF Tick
  <2>2. job[j] \in Job /\ n \in 0..MaxDelay
    BY <1>0, JobFields, DownIs, Constants
  <2> HIDE DEF n
  <2>3. /\ job'[j] \in Job /\ job'[j].status = job[j].status
        /\ job'[j].wait = n /\ job'[j].touches = job[j].touches
    BY <2>1, <2>2, JobDelayed
  <2> QED
    BY <2>3 DEF n
<1>2. \A l \in Loops :
        /\ loop'[l] \in Loop /\ loop'[l].pc = loop[l].pc /\ loop'[l].job = loop[l].job
        /\ loop'[l].timer = Down(loop[l].timer) /\ loop'[l].woken = loop[l].woken
        /\ loop'[l].blind = loop[l].blind /\ loop'[l].news = loop[l].news
        /\ loop'[l].deaf = loop[l].deaf
  <2> TAKE l \in Loops
  <2> DEFINE n == Down(loop[l].timer)
  <2>1. loop'[l] = [loop[l] EXCEPT !.timer = n]
    BY DEF Tick
  <2>2. loop[l] \in Loop /\ n \in Nat
    BY <1>0, LoopFields, DownIs
  <2> HIDE DEF n
  <2>3. /\ loop'[l] \in Loop /\ loop'[l].pc = loop[l].pc /\ loop'[l].job = loop[l].job
        /\ loop'[l].timer = n /\ loop'[l].woken = loop[l].woken
        /\ loop'[l].blind = loop[l].blind /\ loop'[l].news = loop[l].news
        /\ loop'[l].deaf = loop[l].deaf
    BY <2>1, <2>2, Aged
  <2> QED
    BY <2>3 DEF n
<1>3. loop' \in [Loops -> Loop] /\ job' \in [Jobs -> Job]
  <2>1. DOMAIN job' = Jobs /\ job' = [j \in Jobs |-> job'[j]]
    BY DEF Tick
  <2>2. DOMAIN loop' = Loops /\ loop' = [l \in Loops |-> loop'[l]]
    BY DEF Tick
  <2>3. job' \in [Jobs -> Job]
    BY <1>1, <2>1
  <2> QED
    BY <1>2, <2>2, <2>3
<1>4. /\ held' = held /\ pending' = pending /\ faults' = faults
      /\ neglect' \in Nat /\ setbacks' \in Nat
  BY <1>0 DEF Tick
<1>5. /\ listener'.pc = listener.pc /\ listener'.delay = listener.delay
      /\ listener'.timer \in 0..MaxReconnect
  <2>1. listener.timer \in 0..MaxReconnect
    BY DEF IInv, TypeOK
  <2>2. listener' = [listener EXCEPT !.timer = Down(@)]
    BY DEF Tick
  <2>3. listener'.timer = Down(listener.timer) \/ listener'.timer = listener.timer
    BY <2>2
  <2>4. Down(listener.timer) \in 0..MaxReconnect
    BY <1>0, <2>1, DownIs
  <2> QED
    BY <2>1, <2>2, <2>3, <2>4
<1>6. TypeOK'
  <2>1. held' \subseteq Jobs /\ \A j \in held' : job'[j].status = "queued"
    BY <1>1, <1>4 DEF IInv, TypeOK
  <2>2. \A j \in Jobs : job'[j].touches <= MaxTouches[j]
    BY <1>1 DEF IInv, TypeOK
  <2> QED
    BY <1>3, <1>4, <1>5, <2>1, <2>2 DEF IInv, TypeOK
<1>7. \A l \in Loops : Owns(l)'
  BY <1>1, <1>2, <1>4 DEF IInv, Owns
<1>8. Runnable' = Runnable
  BY <1>1 DEF Runnable, QueueBusy
<1>9. \A l \in Loops : Informed(l)'
  <2> TAKE l \in Loops
  <2>1. Informed(l) /\ loop[l].timer \in Nat
    BY <1>0, LoopFields DEF IInv
  <2>2. \A j \in Runnable : loop[l].timer <= job[j].wait => loop'[l].timer <= job'[j].wait
    <3> TAKE j \in Runnable
    <3>1. job[j].wait \in Nat /\ j \in Jobs
      BY <1>0, JobFields DEF Runnable
    <3> QED
      BY <1>1, <1>2, <2>1, <3>1 DEF Down
  <2> QED
    BY <1>2, <1>4, <1>5, <1>8, <2>1, <2>2 DEF Informed
<1> QED
  BY <1>6, <1>7, <1>9 DEF IInv
-----------------------------------------------------------------------------
(* No lost wake-up *)

LEMMA InvInit == Init => IInv
<1> SUFFICES ASSUME Init PROVE IInv
  OBVIOUS
<1>1. /\ At("top", 0) \in Loop /\ At("top", 0).pc = "top" /\ ~ At("top", 0).news
  BY Fresh
<1>2. loop \in [Loops -> Loop] /\ \A l \in Loops : loop[l].pc = "top" /\ ~ loop[l].news
  BY <1>1 DEF Init
<1> DEFINE r == [status |-> "absent", wait |-> 0, touches |-> 0]
<1>3. r \in Job /\ r.touches = 0
  BY Constants DEF Job
<1>4. job \in [Jobs -> Job] /\ \A j \in Jobs : job[j].touches = 0
  BY <1>3 DEF Init
<1>5. TypeOK
  <2>1. \A j \in Jobs : job[j].touches <= MaxTouches[j]
    BY <1>4, Constants
  <2>2. listener = [pc |-> "connecting", timer |-> 0, delay |-> RetryInterval]
    BY DEF Init
  <2>3. /\ listener.pc = "connecting" /\ listener.delay \in RetryInterval..MaxReconnect
        /\ listener.timer \in 0..MaxReconnect
    BY <2>2, Constants
  <2>4. /\ held = {} /\ pending = FALSE /\ faults \in 0..MaxFaults
        /\ neglect \in Nat /\ setbacks \in Nat
    BY Constants DEF Init
  <2> QED
    BY <1>2, <1>4, <2>1, <2>3, <2>4 DEF TypeOK
<1> QED
  BY <1>2, <1>5 DEF IInv, Owns, Informed, Owners

LEMMA InvNext == IInv /\ [Next]_vars => IInv'
<1> SUFFICES ASSUME IInv, [Next]_vars PROVE IInv'
  OBVIOUS
<1>1. CASE UNCHANGED vars
  BY <1>1 DEF vars, IInv, TypeOK, Owns, Informed, Runnable, QueueBusy
<1>2. CASE Next
  BY <1>2, TickNext, CallersNext, ClaimLoopNext, ListenerNext DEF Next
<1> QED
  BY <1>1, <1>2

\* The types of jobs, loops and listener.
THEOREM TypeCorrect == Spec => []TypeOK
<1>1. IInv => TypeOK
  BY DEF IInv
<1> QED
  BY InvInit, InvNext, <1>1, PTL DEF Spec

\* Whatever callers, other processes and any number of loops do between a loop's claim
\* and the end of its wait, and whenever the listener connects, breaks or reconnects, a
\* loop that sleeps while the listener has nothing to deliver has missed no
\* notification and leaves no claimable job alone: what notifies is on its way or has
\* woken it, and everything else it knew of is due no earlier than it wakes (Informed).
THEOREM NothingMissed == Spec => []NoLostWakeup
<1>1. IInv => NoLostWakeup
  <2> SUFFICES ASSUME IInv, NEW l \in Loops,
                      loop[l].pc = "waiting", ~ loop[l].woken, loop[l].timer > 0,
                      listener.pc = "listening", ~ pending
               PROVE  /\ loop[l].news => loop[l].deaf
                      /\ Claimable # {} => loop[l].blind \/ loop[l].deaf
    BY DEF NoLostWakeup
  <2>1. Informed(l) /\ loop[l] \in Loop
    BY LoopsOK DEF IInv
  <2>2. loop[l].timer \in Nat
    BY <2>1, LoopFields
  <2>3. loop[l].news => loop[l].deaf
    BY <2>1 DEF Informed
  <2>4. ASSUME NEW j \in Claimable, ~ loop[l].blind, ~ loop[l].deaf PROVE FALSE
    <3>1. j \in Runnable /\ job[j].wait = 0
      BY DEF Claimable
    <3>2. loop[l].timer <= job[j].wait
      BY <2>1, <2>3, <2>4, <3>1 DEF Informed
    <3> QED
      BY <2>2, <3>1, <3>2
  <2> QED
    BY <2>3, <2>4
<1> QED
  BY InvInit, InvNext, <1>1, PTL DEF Spec
-----------------------------------------------------------------------------
(* The delay: what an idle loop has left until its claim answers *)

\* Sleeping and the statements around the sleep.
Round == LongestWait + 2 * StatementTime

\* The latest instant at which the claim of an idle loop has answered.
TimeLeft(r) ==
    CASE r.pc = "top"                      -> StatementTime
      [] r.pc \in {"claiming", "updating"} -> r.timer
      [] r.pc = "inspecting"               -> r.timer + LongestWait + StatementTime
      [] OTHER                             -> r.timer + StatementTime

Bounded(r) ==
    /\ r.pc \in {"claiming", "updating", "inspecting"} => r.timer <= StatementTime
    /\ r.pc \in {"waiting", "failed"} => r.timer <= LongestWait

Idle(r) == r.pc # "running"

\* While jobs are neglected some idle loop will have asked within what the setbacks
\* so far account for.
Asks(f, ticks, failures) ==
    \/ ticks = 0
    \/ \E l \in Loops : Idle(f[l]) /\ ticks + TimeLeft(f[l]) <= (failures + 1) * Round

Timely ==
    /\ \A l \in Loops : Bounded(loop[l])
    /\ Asks(loop, neglect, setbacks)

LEMMA LongestIs ==
    /\ LongestWait \in Nat /\ PollInterval <= LongestWait /\ RetryInterval <= LongestWait
    /\ Round \in Nat /\ Round = LongestWait + 2 * StatementTime
<1> DEFINE P == {PollInterval, RetryInterval}
           m == IF PollInterval <= RetryInterval THEN RetryInterval ELSE PollInterval
<1>0. PollInterval \in Nat /\ RetryInterval \in Nat /\ StatementTime \in Nat
  BY Constants
<1>1. m \in P /\ \A y \in P : m >= y
  BY <1>0
<1>2. Max(P) \in P /\ \A y \in P : Max(P) >= y
  BY <1>1 DEF Max
<1>3. LongestWait = Max(P)
  BY DEF LongestWait
<1> HIDE DEF P, m
<1>4. PollInterval \in P /\ RetryInterval \in P /\ \A y \in P : y \in Nat
  BY <1>0 DEF P
<1>5. LongestWait \in Nat /\ PollInterval <= LongestWait /\ RetryInterval <= LongestWait
  BY <1>2, <1>3, <1>4
<1> QED
  BY <1>0, <1>5 DEF Round

\* Another setback allows another round.
LEMMA RoundsGrow ==
    ASSUME NEW n \in Nat
    PROVE  /\ (n + 1) * Round \in Nat /\ ((n + 1) + 1) * Round = (n + 1) * Round + Round
           /\ Round <= (n + 1) * Round
<1> DEFINE R == Round
<1>1. R \in Nat
  BY LongestIs
<1> HIDE DEF R
<1>2. (n + 1) * R = n * R + R /\ ((n + 1) + 1) * R = (n + 1) * R + R /\ n * R \in Nat
  BY <1>1
<1> QED
  BY <1>1, <1>2 DEF R

LEMMA TimeLeftIs ==
    ASSUME NEW r \in Loop, Bounded(r), Idle(r)
    PROVE  TimeLeft(r) \in Nat /\ TimeLeft(r) <= Round
<1>1. r.timer \in Nat /\ r.pc \in Timed \cup {"top", "running"}
  BY LoopFields
<1> QED
  BY <1>1, LongestIs, Constants DEF TimeLeft, Bounded, Idle, Timed

\* A step that gives no idle loop more time and counts nothing.
LEMMA NobodyLater ==
    ASSUME Timely, loop \in [Loops -> Loop], neglect \in Nat, setbacks \in Nat,
           neglect' = neglect, setbacks' = setbacks,
           loop' \in [Loops -> Loop], \A l \in Loops : Bounded(loop'[l]),
           \A l \in Loops : Idle(loop[l]) =>
              Idle(loop'[l]) /\ TimeLeft(loop'[l]) <= TimeLeft(loop[l])
    PROVE  Timely'
<1>1. CASE neglect = 0
  BY <1>1 DEF Timely, Asks
<1>2. CASE neglect # 0
  <2>1. PICK l \in Loops : Idle(loop[l]) /\ neglect + TimeLeft(loop[l]) <= (setbacks + 1) * Round
    BY <1>2 DEF Timely, Asks
  <2>2. /\ TimeLeft(loop[l]) \in Nat /\ TimeLeft(loop'[l]) \in Nat /\ Idle(loop'[l])
        /\ TimeLeft(loop'[l]) <= TimeLeft(loop[l]) /\ (setbacks + 1) * Round \in Nat
    BY <2>1, TimeLeftIs, RoundsGrow DEF Timely
  <2>3. neglect + TimeLeft(loop'[l]) <= (setbacks + 1) * Round
    BY <2>1, <2>2
  <2>4. Asks(loop', neglect', setbacks')
    BY <2>2, <2>3 DEF Asks
  <2> QED
    BY <2>4 DEF Timely
<1> QED
  BY <1>1, <1>2

\* The flags of a loop take no time.
LEMMA SameTimes ==
    ASSUME NEW r \in Loop, NEW s \in Loop, s.pc = r.pc, s.timer = r.timer, Bounded(r)
    PROVE  Bounded(s) /\ (Idle(r) => Idle(s) /\ TimeLeft(s) <= TimeLeft(r))
<1>1. TimeLeft(s) = TimeLeft(r) /\ Bounded(s) /\ (Idle(r) => Idle(s))
  BY DEF TimeLeft, Bounded, Idle
<1> QED
  BY <1>1, TimeLeftIs

\* The loops that hear of something, or are woken, keep their times.
LEMMA HeardTimes ==
    ASSUME NEW f \in [Loops -> Loop], NEW l \in Loops
    PROVE  Heard(f)[l].pc = f[l].pc /\ Heard(f)[l].timer = f[l].timer
  BY DEF Heard, Loop

LEMMA WokenTimes ==
    ASSUME loop \in [Loops -> Loop], NEW l \in Loops
    PROVE  NotifyWaiters[l].pc = loop[l].pc /\ NotifyWaiters[l].timer = loop[l].timer
  BY DEF NotifyWaiters, Loop

LEMMA OnlyFlags ==
    ASSUME Timely, IInv, neglect' = neglect, setbacks' = setbacks, loop' \in [Loops -> Loop],
           \A l \in Loops : loop'[l].pc = loop[l].pc /\ loop'[l].timer = loop[l].timer
    PROVE  Timely'
<1>1. loop \in [Loops -> Loop] /\ neglect \in Nat /\ setbacks \in Nat
  BY DEF IInv, TypeOK
<1>2. ASSUME NEW l \in Loops
      PROVE  /\ Bounded(loop'[l])
             /\ Idle(loop[l]) => Idle(loop'[l]) /\ TimeLeft(loop'[l]) <= TimeLeft(loop[l])
  <2>1. Bounded(loop[l]) /\ loop[l] \in Loop /\ loop'[l] \in Loop
    BY <1>1 DEF Timely
  <2> QED
    BY <2>1, SameTimes
<1> QED
  BY <1>1, <1>2, NobodyLater

\* The claim found nothing, or a job: nobody is neglected from here on.
LEMMA NobodyNeglected ==
    ASSUME Timely, IInv, NEW l \in Loops, NEW r \in Loop, loop' = [loop EXCEPT ![l] = r],
           Bounded(r), neglect' = 0
    PROVE  Timely'
<1>1. loop'[l] = r /\ \A k \in Loops \ {l} : loop'[k] = loop[k]
  BY LoopsOK
<1> QED
  BY <1>1 DEF Timely, Asks

\* A statement of an idle loop failed or lost its race: the loop asks again within a
\* round, whoever else does.
LEMMA AskedInVain ==
    ASSUME Timely, IInv, NEW l \in Loops, NEW r \in Loop, loop' = [loop EXCEPT ![l] = r],
           Bounded(r), Idle(r), neglect' = neglect, setbacks' = setbacks + 1
    PROVE  Timely'
<1>1. loop'[l] = r /\ \A k \in Loops \ {l} : loop'[k] = loop[k]
  BY LoopsOK
<1>2. /\ loop \in [Loops -> Loop] /\ neglect \in Nat /\ setbacks \in Nat
      /\ setbacks + 1 \in Nat
  BY DEF IInv, TypeOK
<1>3. /\ TimeLeft(r) \in Nat /\ TimeLeft(r) <= Round /\ Round \in Nat
      /\ (setbacks + 1) * Round \in Nat
      /\ ((setbacks + 1) + 1) * Round = (setbacks + 1) * Round + Round
  BY <1>2, TimeLeftIs, LongestIs, RoundsGrow
<1>4. neglect <= (setbacks + 1) * Round
  <2>1. CASE neglect = 0
    BY <1>3, <2>1
  <2>2. CASE neglect # 0
    <3>1. PICK k \in Loops : Idle(loop[k]) /\ neglect + TimeLeft(loop[k]) <= (setbacks + 1) * Round
      BY <2>2 DEF Timely, Asks
    <3>2. TimeLeft(loop[k]) \in Nat
      BY <1>2, <3>1, TimeLeftIs DEF Timely
    <3> QED
      BY <1>2, <1>3, <3>1, <3>2
  <2> QED
    BY <2>1, <2>2
<1>5. neglect + TimeLeft(r) <= ((setbacks + 1) + 1) * Round
  BY <1>2, <1>3, <1>4
<1>6. Asks(loop', neglect', setbacks')
  BY <1>1, <1>5 DEF Asks
<1>7. \A k \in Loops : Bounded(loop'[k])
  BY <1>1 DEF Timely
<1> QED
  BY <1>6, <1>7 DEF Timely

\* A loop moves on in time.
LEMMA MovesOn ==
    ASSUME Timely, IInv, NEW l \in Loops, NEW r \in Loop, loop' = [loop EXCEPT ![l] = r],
           Bounded(r), Idle(loop[l]) => Idle(r) /\ TimeLeft(r) <= TimeLeft(loop[l]),
           neglect' = neglect, setbacks' = setbacks
    PROVE  Timely'
<1>1. /\ loop \in [Loops -> Loop] /\ neglect \in Nat /\ setbacks \in Nat
      /\ \A k \in Loops : Bounded(loop[k])
  BY DEF IInv, TypeOK, Timely
<1>2. loop' \in [Loops -> Loop] /\ loop'[l] = r /\ \A k \in Loops \ {l} : loop'[k] = loop[k]
  BY <1>1
<1>3. ASSUME NEW k \in Loops
      PROVE  /\ Bounded(loop'[k])
             /\ Idle(loop[k]) => Idle(loop'[k]) /\ TimeLeft(loop'[k]) <= TimeLeft(loop[k])
  <2>1. loop[k] \in Loop /\ Bounded(loop[k])
    BY <1>1
  <2>2. CASE k = l
    BY <1>2, <2>2
  <2>3. CASE k # l
    BY <1>2, <2>1, <2>3, SameTimes
  <2> QED
    BY <2>2, <2>3
<1> QED
  BY <1>1, <1>2, <1>3, NobodyLater

\* The records a loop takes on.
LEMMA FreshTimes ==
    ASSUME NEW pc \in Timed \cup {"top", "running"}, NEW n \in Nat
    PROVE  At(pc, n) \in Loop /\ At(pc, n).pc = pc /\ At(pc, n).timer = n
  BY DEF At, Loop

LEMMA InspectsTimely ==
    ASSUME NEW r \in Loop
    PROVE  LET t == [r EXCEPT !.pc = "inspecting", !.job = NULL, !.timer = StatementTime]
           IN  t \in Loop /\ Bounded(t) /\ Idle(t)
<1> DEFINE t == [r EXCEPT !.pc = "inspecting", !.job = NULL, !.timer = StatementTime]
<1>1. t \in Loop /\ t.pc = "inspecting" /\ t.timer = StatementTime /\ StatementTime \in Nat
  BY Constants DEF Loop, Timed
<1> HIDE DEF t
<1>2. Bounded(t) /\ Idle(t)
  BY <1>1 DEF Bounded, Idle
<1> QED
  BY <1>1, <1>2 DEF t

LEMMA WaitsTimely ==
    ASSUME NEW r \in Loop, r.pc = "inspecting", NEW n \in Nat, n <= LongestWait,
           NEW b \in BOOLEAN
    PROVE  LET t == [r EXCEPT !.pc = "waiting", !.timer = n, !.blind = b]
           IN  t \in Loop /\ Bounded(t) /\ Idle(t) /\ TimeLeft(t) <= TimeLeft(r)
<1> DEFINE t == [r EXCEPT !.pc = "waiting", !.timer = n, !.blind = b]
<1>1. t \in Loop /\ t.pc = "waiting" /\ t.timer = n /\ r.timer \in Nat
  BY LoopFields DEF Loop, Timed
<1> HIDE DEF t
<1>2. Bounded(t) /\ Idle(t)
  BY <1>1 DEF Bounded, Idle
<1>3. TimeLeft(t) = n + StatementTime /\ TimeLeft(r) = r.timer + LongestWait + StatementTime
  BY <1>1 DEF TimeLeft
<1>4. TimeLeft(t) <= TimeLeft(r)
  BY <1>1, <1>3, LongestIs, Constants
<1> QED
  BY <1>1, <1>2, <1>4 DEF t

LEMMA WaitBounded ==
    ASSUME IInv
    PROVE  idle_wait_duration(NextRunnableIn) <= LongestWait
<1> DEFINE n == NextRunnableIn
           P == {n, PollInterval}
<1>1. PollInterval \in Nat /\ LongestWait \in Nat /\ PollInterval <= LongestWait
  BY Constants, LongestIs
<1>2. CASE n \in {NULL, 0}
  BY <1>1, <1>2 DEF idle_wait_duration
<1>3. CASE n \notin {NULL, 0}
  <2>1. n \in Nat
    <3> DEFINE W == {job[j].wait : j \in Runnable}
    <3>1. W \in SUBSET Nat
      BY DEF Runnable, IInv, TypeOK, Job
    <3>2. W # {} /\ n = Min(W)
      BY <1>3 DEF NextRunnableIn
    <3>3. n \in W
      <4> HIDE DEF W, n
      <4> QED
        BY <3>1, <3>2, MinIs
    <3> QED
      BY <3>1, <3>3
  <2> HIDE DEF n
  <2>2. P \in SUBSET Nat /\ P # {}
    BY <1>1, <2>1
  <2>3. Min(P) <= PollInterval /\ Min(P) \in Nat
    BY <2>2, MinIs
  <2>4. idle_wait_duration(n) = Min(P)
    BY <1>3 DEF idle_wait_duration
  <2> HIDE DEF P
  <2>5. idle_wait_duration(n) <= LongestWait
    BY <1>1, <2>3, <2>4
  <2> QED
    BY <2>5 DEF n
<1> QED
  BY <1>2, <1>3

LEMMA TimelyClaimLoop == ASSUME Timely, IInv, NEW l \in Loops, ClaimLoop(l), IInv' PROVE Timely'
<1>0. /\ loop \in [Loops -> Loop] /\ loop[l] \in Loop /\ Bounded(loop[l])
      /\ loop[l].timer \in Nat /\ StatementTime \in Nat /\ RetryInterval \in Nat
      /\ RetryInterval <= LongestWait /\ loop' \in [Loops -> Loop]
  BY LoopFields, Constants, LongestIs DEF IInv, TypeOK, Timely
<1>1. CASE BeginClaim(l)
  <2> DEFINE r == At("claiming", StatementTime)
  <2>1. r \in Loop /\ r.pc = "claiming" /\ r.timer = StatementTime
    BY <1>0, FreshTimes DEF Timed
  <2>2. /\ loop[l].pc = "top" /\ loop' = [loop EXCEPT ![l] = r]
        /\ neglect' = neglect /\ setbacks' = setbacks
    BY <1>1 DEF BeginClaim, NoSetback
  <2> HIDE DEF r
  <2>3. Bounded(r) /\ Idle(r) /\ TimeLeft(r) <= TimeLeft(loop[l])
    BY <1>0, <2>1, <2>2 DEF Bounded, Idle, TimeLeft
  <2> QED
    BY <2>1, <2>2, <2>3, MovesOn
<1>2. CASE ClaimSelect(l)
  <2>1. PICK j \in Claimable :
          loop' = [loop EXCEPT ![l] = [loop[l] EXCEPT !.pc = "updating", !.job = j]]
    BY <1>2 DEF ClaimSelect
  <2> DEFINE r == [loop[l] EXCEPT !.pc = "updating", !.job = j]
  <2>2. j \in Jobs
    BY DEF Claimable, Runnable
  <2>3. r \in Loop /\ r.pc = "updating" /\ r.timer = loop[l].timer
    BY <1>0, <2>2 DEF Loop, Timed
  <2>4. /\ loop[l].pc = "claiming" /\ neglect' = neglect /\ setbacks' = setbacks
        /\ loop' = [loop EXCEPT ![l] = r]
    BY <1>2, <2>1 DEF ClaimSelect, NoSetback
  <2> HIDE DEF r
  <2>5. Bounded(r) /\ Idle(r) /\ TimeLeft(r) <= TimeLeft(loop[l])
    BY <1>0, <2>3, <2>4 DEF Bounded, Idle, TimeLeft
  <2> QED
    BY <2>3, <2>4, <2>5, MovesOn
<1> DEFINE i == [loop[l] EXCEPT !.pc = "inspecting", !.job = NULL, !.timer = StatementTime]
<1>i. i \in Loop /\ Bounded(i) /\ Idle(i)
  BY <1>0, InspectsTimely
<1>j. ToInspect(l) => loop' = [loop EXCEPT ![l] = i]
  BY DEF ToInspect
<1> HIDE DEF i
<1>3. CASE ClaimNone(l)
  BY <1>3, <1>i, <1>j, NobodyNeglected DEF ClaimNone
<1>4. CASE ClaimUpdate(l)
  <2> DEFINE r == [At("running", 0) EXCEPT !.job = loop[l].job]
  <2>1. loop' = [loop EXCEPT ![l] = r] /\ neglect' = 0
    BY <1>4 DEF ClaimUpdate
  <2>2. loop[l].job \in Jobs
    BY <1>4 DEF ClaimUpdate, IInv, Owns, Owners
  <2>3. r \in Loop /\ r.pc = "running"
    BY <2>2, Running
  <2> HIDE DEF r
  <2>4. Bounded(r)
    BY <2>3 DEF Bounded
  <2> QED
    BY <2>1, <2>3, <2>4, NobodyNeglected
<1>5. CASE ClaimLosesRace(l)
  BY <1>5, <1>i, <1>j, AskedInVain DEF ClaimLosesRace, Setback
<1>6. CASE ClaimErr(l)
  <2> DEFINE r == At("failed", RetryInterval)
  <2>1. r \in Loop /\ r.pc = "failed" /\ r.timer = RetryInterval
    BY <1>0, FreshTimes DEF Timed
  <2>2. loop' = [loop EXCEPT ![l] = r] /\ neglect' = neglect /\ setbacks' = setbacks + 1
    BY <1>6 DEF ClaimErr, Setback
  <2> HIDE DEF r
  <2>3. Bounded(r) /\ Idle(r)
    BY <1>0, <2>1 DEF Bounded, Idle
  <2> QED
    BY <2>1, <2>2, <2>3, AskedInVain
<1>7. CASE Inspect(l)
  <2> DEFINE n == idle_wait_duration(NextRunnableIn)
             b == NextRunnableIn = 0
             r == [loop[l] EXCEPT !.pc = "waiting", !.timer = n, !.blind = b]
  <2>1. n \in Nat /\ n <= LongestWait /\ b \in BOOLEAN
    BY WaitIs, WaitBounded
  <2>2. /\ loop[l].pc = "inspecting" /\ loop' = [loop EXCEPT ![l] = r]
        /\ neglect' = neglect /\ setbacks' = setbacks
    BY <1>0, <1>7 DEF Inspect, NoSetback
  <2>3. r \in Loop /\ Bounded(r) /\ Idle(r) /\ TimeLeft(r) <= TimeLeft(loop[l])
    <3> HIDE DEF n, b
    <3> QED
      BY <1>0, <2>1, <2>2, WaitsTimely
  <2> HIDE DEF r
  <2> QED
    BY <2>2, <2>3, MovesOn
<1>8. CASE InspectErr(l)
  <2> DEFINE r == [loop[l] EXCEPT !.pc = "waiting", !.timer = RetryInterval, !.blind = TRUE]
  <2>1. /\ loop[l].pc = "inspecting" /\ loop' = [loop EXCEPT ![l] = r]
        /\ neglect' = neglect /\ setbacks' = setbacks + 1
    BY <1>0, <1>8 DEF InspectErr, Setback
  <2>2. r \in Loop /\ Bounded(r) /\ Idle(r)
    BY <1>0, <2>1, WaitsTimely
  <2> HIDE DEF r
  <2> QED
    BY <2>1, <2>2, AskedInVain
<1>9. CASE Wake(l)
  <2> DEFINE r == At("top", 0)
  <2>1. r \in Loop /\ r.pc = "top"
    BY FreshTimes
  <2>2. /\ loop[l].pc \in {"waiting", "failed"} /\ loop' = [loop EXCEPT ![l] = r]
        /\ neglect' = neglect /\ setbacks' = setbacks
    BY <1>9 DEF Wake, NoSetback
  <2> HIDE DEF r
  <2>3. Bounded(r) /\ Idle(r)
    BY <2>1 DEF Bounded, Idle
  <2>4. TimeLeft(r) = StatementTime /\ TimeLeft(loop[l]) = loop[l].timer + StatementTime
    BY <2>1, <2>2 DEF TimeLeft
  <2>5. TimeLeft(r) <= TimeLeft(loop[l])
    BY <1>0, <2>4
  <2> QED
    BY <2>1, <2>2, <2>3, <2>5, MovesOn
<1>10. CASE HandlerReturns(l)
  <2> DEFINE woken == IF QueueOf[loop[l].job] # NULL THEN NotifyWaiters ELSE loop
             f     == [woken EXCEPT ![l] = At("top", 0)]
  <2>1. /\ loop[l].pc = "running" /\ neglect' = neglect /\ setbacks' = setbacks
        /\ loop' = Heard(f) \/ loop' = f
    BY <1>10 DEF HandlerReturns, FinishOrRequeue, Notified, NoSetback
  <2>2. At("top", 0) \in Loop /\ At("top", 0).pc = "top" /\ At("top", 0).timer = 0
    BY FreshTimes
  <2>3. /\ woken \in [Loops -> Loop]
        /\ \A k \in Loops : woken[k].pc = loop[k].pc /\ woken[k].timer = loop[k].timer
    BY <1>0, NotifyWaitersOK, WokenTimes
  <2> HIDE DEF woken
  <2>4. /\ f \in [Loops -> Loop] /\ f[l] = At("top", 0)
        /\ \A k \in Loops \ {l} : f[k] = woken[k]
    BY <2>2, <2>3
  <2> HIDE DEF f
  <2>5. \A k \in Loops : loop'[k].pc = f[k].pc /\ loop'[k].timer = f[k].timer
    BY <2>1, <2>4, HeardTimes
  <2>6. ASSUME NEW k \in Loops
        PROVE  /\ Bounded(loop'[k])
               /\ Idle(loop[k]) => Idle(loop'[k]) /\ TimeLeft(loop'[k]) <= TimeLeft(loop[k])
    <3>1. CASE k = l
      <4>1. loop'[l].pc = "top"
        BY <2>2, <2>4, <2>5
      <4> QED
        BY <2>1, <3>1, <4>1 DEF Bounded, Idle
    <3>2. CASE k # l
      <4>1. loop'[k].pc = loop[k].pc /\ loop'[k].timer = loop[k].timer
        BY <2>3, <2>4, <2>5, <3>2
      <4>2. loop'[k] \in Loop /\ loop[k] \in Loop /\ Bounded(loop[k])
        BY <1>0 DEF Timely
      <4> QED
        BY <4>1, <4>2, SameTimes
    <3> QED
      BY <3>1, <3>2
  <2>7. neglect \in Nat /\ setbacks \in Nat
    BY DEF IInv, TypeOK
  <2> QED
    BY <1>0, <2>1, <2>6, <2>7, NobodyLater
<1> QED
  BY <1>1, <1>2, <1>3, <1>4, <1>5, <1>6, <1>7, <1>8, <1>9, <1>10 DEF ClaimLoop

\* Whatever others commit reaches the loops as news.
LEMMA TimelyCallers == ASSUME Timely, IInv, Callers, IInv' PROVE Timely'
<1>1. /\ neglect' = neglect /\ setbacks' = setbacks
      /\ loop' = loop \/ loop' = Heard(loop)
  BY DEF Callers, Insert, Reschedule, CallerLocks, CallerEnds, RemoteClaim, RemoteReport,
         FinishOrRequeue, Notified, Untouched
<1>2. loop \in [Loops -> Loop] /\ loop' \in [Loops -> Loop]
  BY DEF IInv, TypeOK
<1>3. \A l \in Loops : loop'[l].pc = loop[l].pc /\ loop'[l].timer = loop[l].timer
  BY <1>1, <1>2, HeardTimes
<1> QED
  BY <1>1, <1>2, <1>3, OnlyFlags

LEMMA TimelyListener == ASSUME Timely, IInv, ListenerLoop, IInv' PROVE Timely'
<1> DEFINE deaf == [l \in Loops |-> [loop[l] EXCEPT !.deaf = loop[l].news]]
<1>1. /\ neglect' = neglect /\ setbacks' = setbacks
      /\ loop' = loop \/ loop' = NotifyWaiters \/ loop' = deaf
  BY DEF ListenerLoop, Connect, ConnectFails, ListenerBreaks, ListenerBlips, ReconnectTimer,
         Deliver, NoSetback
<1>2. loop \in [Loops -> Loop] /\ loop' \in [Loops -> Loop]
  BY DEF IInv, TypeOK
<1>3. \A l \in Loops : deaf[l].pc = loop[l].pc /\ deaf[l].timer = loop[l].timer
  BY <1>2, Deafened
<1> HIDE DEF deaf
<1>4. \A l \in Loops : loop'[l].pc = loop[l].pc /\ loop'[l].timer = loop[l].timer
  BY <1>1, <1>2, <1>3, WokenTimes
<1> QED
  BY <1>1, <1>2, <1>4, OnlyFlags

\* A unit of time passes for an idle loop: it had one left.
LEMMA OneLess ==
    ASSUME NEW r \in Loop, NEW s \in Loop, s.pc = r.pc, s.timer = Down(r.timer), Bounded(r)
    PROVE  /\ Bounded(s) /\ (Idle(r) => Idle(s))
           /\ r.pc \in Timed /\ r.timer # 0 => TimeLeft(s) + 1 = TimeLeft(r)
<1>1. r.timer \in Nat /\ s.timer \in Nat /\ s.timer <= r.timer
  BY LoopFields, DownIs
<1>2. r.timer # 0 => s.timer + 1 = r.timer
  BY <1>1 DEF Down
<1>3. LongestWait \in Nat /\ StatementTime \in Nat
  BY LongestIs, Constants
<1>4. Bounded(s)
  BY <1>1, <1>3 DEF Bounded
<1>5. ASSUME r.pc \in Timed, r.timer # 0 PROVE TimeLeft(s) + 1 = TimeLeft(r)
  BY <1>1, <1>2, <1>3, <1>5 DEF TimeLeft, Timed
<1> QED
  BY <1>4, <1>5 DEF Idle

\* Nothing urgent is left, so every idle loop counts down.
LEMMA TimelyTick == ASSUME Timely, IInv, Tick, IInv' PROVE Timely'
<1>0. /\ loop \in [Loops -> Loop] /\ loop' \in [Loops -> Loop]
      /\ neglect \in Nat /\ setbacks \in Nat /\ \A l \in Loops : Bounded(loop[l])
  BY DEF IInv, TypeOK, Timely
<1>1. \A l \in Loops : loop'[l].pc = loop[l].pc /\ loop'[l].timer = Down(loop[l].timer)
  <2> TAKE l \in Loops
  <2> DEFINE n == Down(loop[l].timer)
  <2>1. loop'[l] = [loop[l] EXCEPT !.timer = n]
    BY DEF Tick
  <2>2. loop[l] \in Loop /\ n \in Nat
    BY <1>0, LoopFields, DownIs
  <2> HIDE DEF n
  <2>3. loop'[l].pc = loop[l].pc /\ loop'[l].timer = n
    BY <2>1, <2>2, Aged
  <2> QED
    BY <2>3 DEF n
<1>2. \A l \in Loops : Bounded(loop'[l]) /\ (Idle(loop[l]) => Idle(loop'[l]))
  BY <1>0, <1>1, OneLess
<1>3. \A l \in Loops : Idle(loop[l]) => TimeLeft(loop'[l]) + 1 = TimeLeft(loop[l])
  <2> SUFFICES ASSUME NEW l \in Loops, Idle(loop[l])
               PROVE  TimeLeft(loop'[l]) + 1 = TimeLeft(loop[l])
    OBVIOUS
  <2>1. loop[l] \in Loop /\ loop'[l] \in Loop
    BY <1>0
  <2>2. loop[l].pc \in Timed /\ loop[l].timer # 0
    BY <2>1, LoopFields DEF Tick, Urgent, Idle
  <2> QED
    BY <1>0, <1>1, <2>1, <2>2, OneLess
<1>4. CASE ~ Neglected
  BY <1>2, <1>4 DEF Tick, Timely, Asks
<1>5. CASE Neglected
  <2>1. neglect' = neglect + 1 /\ setbacks' = setbacks
    BY <1>5 DEF Tick
  <2>2. PICK l \in Loops : Idle(loop[l]) /\ neglect + TimeLeft(loop[l]) <= (setbacks + 1) * Round
    <3>1. CASE neglect = 0
      <4>1. PICK l \in Loops : Idle(loop[l])
        BY <1>5 DEF Neglected, Idle
      <4>2. TimeLeft(loop[l]) \in Nat /\ TimeLeft(loop[l]) <= Round /\ Round \in Nat
            /\ Round <= (setbacks + 1) * Round /\ (setbacks + 1) * Round \in Nat
        BY <1>0, <4>1, TimeLeftIs, RoundsGrow, LongestIs
      <4>3. neglect + TimeLeft(loop[l]) <= (setbacks + 1) * Round
        BY <3>1, <4>2
      <4> QED
        BY <4>1, <4>3
    <3>2. CASE neglect # 0
      BY <3>2 DEF Timely, Asks
    <3> QED
      BY <3>1, <3>2
  <2>3. Idle(loop'[l]) /\ TimeLeft(loop'[l]) + 1 = TimeLeft(loop[l])
    BY <1>2, <1>3, <2>2
  <2>4. TimeLeft(loop'[l]) \in Nat /\ (setbacks + 1) * Round \in Nat
    BY <1>0, <1>2, <2>3, TimeLeftIs, RoundsGrow
  <2>5. neglect' + TimeLeft(loop'[l]) <= (setbacks' + 1) * Round
    BY <1>0, <2>1, <2>2, <2>3, <2>4
  <2>6. Asks(loop', neglect', setbacks')
    BY <2>3, <2>5 DEF Asks
  <2> QED
    BY <1>2, <2>6 DEF Timely
<1> QED
  BY <1>4, <1>5

LEMMA TimelyNext == IInv /\ Timely /\ [Next]_vars => Timely'
<1> SUFFICES ASSUME IInv, Timely, [Next]_vars PROVE Timely'
  OBVIOUS
<1>1. IInv'
  BY InvNext
<1>2. CASE UNCHANGED vars
  BY <1>2 DEF vars, Timely, Asks
<1>3. CASE Next
  BY <1>1, <1>3, TimelyTick, TimelyCallers, TimelyClaimLoop, TimelyListener DEF Next
<1> QED
  BY <1>2, <1>3

LEMMA TimelyInit == Init => Timely
<1> SUFFICES ASSUME Init PROVE Timely
  OBVIOUS
<1>1. \A l \in Loops : loop[l] = At("top", 0) /\ At("top", 0).pc = "top"
  BY FreshTimes DEF Init
<1>2. neglect = 0
  BY DEF Init
<1> QED
  BY <1>1, <1>2 DEF Timely, Asks, Bounded

\* Whatever becomes of notifications and of the listener, and however many statements
\* fail, a process with an idle loop leaves claimable jobs alone for no longer than the
\* longest sleep and the statements around it, and as long again for every statement of
\* an idle loop that failed or lost its race (idle_wait_duration, claim_loop): while
\* jobs are neglected some idle loop asks again within what is left of that (Timely).
THEOREM DelayBounded == Spec => []PollBoundsDelay
<1>1. IInv /\ Timely => PollBoundsDelay
  <2> SUFFICES ASSUME IInv, Timely PROVE neglect <= (setbacks + 1) * Round
    BY DEF PollBoundsDelay, Round
  <2>1. neglect \in Nat /\ setbacks \in Nat /\ loop \in [Loops -> Loop]
    BY DEF IInv, TypeOK
  <2>2. (setbacks + 1) * Round \in Nat
    BY <2>1, RoundsGrow
  <2>3. CASE neglect = 0
    BY <2>2, <2>3
  <2>4. CASE neglect # 0
    <3>1. PICK l \in Loops : Idle(loop[l]) /\ neglect + TimeLeft(loop[l]) <= (setbacks + 1) * Round
      BY <2>4 DEF Timely, Asks
    <3>2. TimeLeft(loop[l]) \in Nat
      BY <2>1, <3>1, TimeLeftIs DEF Timely
    <3> QED
      BY <2>1, <2>2, <3>1, <3>2
  <2> QED
    BY <2>3, <2>4
<1>2. Init => IInv /\ Timely
  BY InvInit, TimelyInit
<1>3. (IInv /\ Timely) /\ [Next]_vars => (IInv /\ Timely)'
  BY InvNext, TimelyNext
<1> QED
  BY <1>1, <1>2, <1>3, PTL DEF Spec
=============================================================================
