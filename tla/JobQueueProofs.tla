--------------------------- MODULE JobQueueProofs ---------------------------
(***************************************************************************)
(* Proofs about JobQueue, for every number of processes, claim loops, jobs *)
(* and keys and every backoff, staleness and retention setting.            *)
(***************************************************************************)
EXTENDS JobQueue, TLAPS

-----------------------------------------------------------------------------
(* What the SET clauses do to one row *)

USE DEF Terminal, TerminalStatuses, Statuses

\* A freshly inserted row is well typed and consistent.
LEMMA NewRowOK ==
    ASSUME NEW d \in Defs, NEW k \in Keys \cup {NULL}, NEW at \in Nat
    PROVE  NewRow(d, k, at) \in Row /\ RowConsistent(NewRow(d, k, at))
  BY TableAssumption DEF NewRow, Row, RowConsistent

\* The upsert keeps a row well typed and consistent and touches neither its key
\* nor anything of a row that is not queued.
LEMMA UpsertedOK ==
    ASSUME NEW r \in Row, NEW d \in Defs, NEW mode, NEW at \in Nat
    PROVE  /\ Upserted(r, d, mode, at) \in Row
           /\ RowConsistent(r) => RowConsistent(Upserted(r, d, mode, at))
           /\ Upserted(r, d, mode, at).status = r.status
           /\ Upserted(r, d, mode, at).job_key = r.job_key
           /\ r.status # "queued" => Upserted(r, d, mode, at) = r
  BY DEF Upserted, Row, RowConsistent

\* A claim turns a queued row into a running one owned by the claiming loop.
LEMMA ClaimedOK ==
    ASSUME NEW r \in Row, NEW l \in Lockers, NEW at \in Nat
    PROVE  /\ Claimed(r, l, at) \in Row
           /\ RowConsistent(Claimed(r, l, at))
           /\ Claimed(r, l, at).status = "running"
           /\ Claimed(r, l, at).locked_by = l
           /\ Claimed(r, l, at).job_key = r.job_key
           /\ Claimed(r, l, at).def = r.def
           /\ Claimed(r, l, at).attempt \in Nat
  <1>1. Claimed(r, l, at) \in Row
    <2>1. r.attempt + 1 \in Nat
      BY DEF Row
    <2>2. QED
      BY <2>1 DEF Claimed, Row
  <1>2. RowConsistent(Claimed(r, l, at))
    <2>1. l # NULL /\ at # NULL
      BY TableAssumption
    <2>2. QED
      BY <2>1 DEF Claimed, Row, RowConsistent
  <1>3. QED
    BY <1>1, <1>2 DEF Claimed, Row

\* A requeue turns a running row into a queued one that nobody owns.
LEMMA RequeuedOK ==
    ASSUME NEW r \in Row, NEW at \in Nat
    PROVE  /\ Requeued(r, at) \in Row
           /\ RowConsistent(r) /\ r.status = "running" => RowConsistent(Requeued(r, at))
           /\ Requeued(r, at).status = "queued"
           /\ Requeued(r, at).locked_by = NULL
           /\ Requeued(r, at).job_key = r.job_key
           /\ Requeued(r, at).def = r.def
  BY TableAssumption DEF Requeued, Row, RowConsistent

\* Finishing a row releases its lock and stamps finished_at.
LEMMA FinishedOK ==
    ASSUME NEW r \in Row, NEW s \in {"succeeded", "failed"}, NEW at \in Nat
    PROVE  /\ Finished(r, s, at) \in Row
           /\ RowConsistent(Finished(r, s, at))
           /\ Finished(r, s, at).status = s
           /\ Finished(r, s, at).locked_by = NULL
  BY TableAssumption DEF Finished, Row, RowConsistent

\* Cancelling a queued row, which has no lock, finishes it.
LEMMA CancelledOK ==
    ASSUME NEW r \in Row, NEW at \in Nat
    PROVE  /\ Cancelled(r, at) \in Row
           /\ RowConsistent(r) /\ r.status = "queued" => RowConsistent(Cancelled(r, at))
           /\ Cancelled(r, at).status = "cancelled"
           /\ Cancelled(r, at).locked_by = r.locked_by
  BY TableAssumption DEF Cancelled, Row, RowConsistent

\* A retried row is queued, unowned and under its old key.
LEMMA ResetOK ==
    ASSUME NEW r \in Row, NEW at \in Nat
    PROVE  /\ Reset(r, at) \in Row
           /\ RowConsistent(Reset(r, at))
           /\ Reset(r, at).status = "queued"
           /\ Reset(r, at).locked_by = NULL
           /\ Reset(r, at).job_key = r.job_key
  BY TableAssumption DEF Reset, Row, RowConsistent
-----------------------------------------------------------------------------
(* The inductive invariant *)

\* The row a claim in progress has locked is still queued, and locked once.  The
\* UPDATE of claim_next relies on it: its WHERE clause names the id alone.
RowLocksHeld ==
    /\ \A l \in Loops : loop[l].pc = "claiming" =>
          loop[l].job \in DOMAIN jobs /\ jobs[loop[l].job].status = "queued"
    /\ \A k, l \in Loops :
          loop[k].pc = "claiming" /\ loop[l].pc = "claiming" /\ loop[k].job = loop[l].job
          => k = l

IInv ==
    /\ TypeOK
    /\ RowsConsistent
    /\ ActiveKeyUnique
    /\ NamedQueueExclusive
    /\ LockNamesThisAttempt
    /\ RowLocksHeld

\* What every statement but an insertion, a retry and a claim does to a row: it
\* activates nothing, leaves a finished row alone, and a row it leaves running keeps owner, attempt and
\* definition.
Settles(r, s) ==
    /\ s \in Row
    /\ RowConsistent(s)
    /\ s.job_key = r.job_key
    /\ Active(s) => Active(r)
    /\ Terminal(r) => s = r
    /\ s.status = "running" => /\ r.status = "running"
                               /\ s.def = r.def
                               /\ s.attempt = r.attempt
                               /\ s.locked_by = r.locked_by

SettlingJobs ==
    /\ DOMAIN jobs' \subseteq DOMAIN jobs
    /\ jobs' \in [DOMAIN jobs' -> Row]
    /\ \A j \in DOMAIN jobs' : Settles(jobs[j], jobs'[j])
    /\ \A l \in Loops : loop[l].pc = "claiming" =>
          loop[l].job \in DOMAIN jobs' /\ jobs'[loop[l].job].status = "queued"

\* A loop that neither selects nor commits a claim: it goes on, turns to the
\* report of the job it ran, or goes back to idle or asking.
QuietLoops ==
    /\ loop' \in [Loops -> Loop]
    /\ \A l \in Loops :
          \/ loop'[l] = loop[l]
          \/ loop'[l].pc \in {"idle", "asking"}
          \/ loop[l].pc = "running" /\ \E pc \in {"completing", "failing"} :
                                          loop'[l] = [loop[l] EXCEPT !.pc = pc]

RestTyped ==
    /\ now' \in Nat
    /\ nextId' = nextId
    /\ heartbeat' \in [WorkerIds -> Nat \cup {NULL}]
    /\ phase' \in [Procs -> Phases]
    /\ result' \in [Procs -> {"ok", "error"}]
    /\ live' \subseteq Loops

\* No loop gains a row.
Unlocking == \A l \in Loops : Held(l)' \subseteq Held(l)

\* What any step does to the table.
TableStep == FinishedStep /\ (Unlocking \/ \E l \in Loops : ClaimCommit(l))

\* A statement that settles rows, whatever the loops do besides claiming,
\* preserves the invariant.
LEMMA SettlingPreserves ==
    ASSUME IInv, SettlingJobs, QuietLoops, RestTyped
    PROVE  IInv' /\ TableStep
  <1> USE DEF IInv, SettlingJobs
  <1>1. TypeOK'
    BY DEF TypeOK, QuietLoops, RestTyped
  <1>2. RowsConsistent'
    BY DEF RowsConsistent, Settles
  <1>3. ActiveKeyUnique'
    BY DEF ActiveKeyUnique, Settles
  <1>4. NamedQueueExclusive'
    BY DEF NamedQueueExclusive, Settles
  <1>5. LockNamesThisAttempt'
    <2>1. SUFFICES ASSUME NEW l \in Loops, Executing(l)', HoldsLock(l)'
                   PROVE  /\ jobs'[loop'[l].job].status = "running"
                          /\ jobs'[loop'[l].job].attempt = loop'[l].attempt
                          /\ jobs'[loop'[l].job].def = loop'[l].def
      BY DEF LockNamesThisAttempt
    <2>2. /\ Executing(l)
          /\ loop'[l].job = loop[l].job
          /\ loop'[l].attempt = loop[l].attempt
          /\ loop'[l].def = loop[l].def
      <3>1. CASE loop'[l] = loop[l]
        BY <2>1, <3>1 DEF Executing
      <3>2. CASE loop'[l].pc \in {"idle", "asking"}
        BY <2>1, <3>2 DEF Executing
      <3>3. CASE loop[l].pc = "running" /\ \E pc \in {"completing", "failing"} :
                                              loop'[l] = [loop[l] EXCEPT !.pc = pc]
        BY <3>3 DEF Executing, TypeOK, Loop
      <3>4. QED
        BY <3>1, <3>2, <3>3 DEF QuietLoops
    <2>3. l # NULL
      BY TableAssumption DEF Loops
    <2>4. jobs'[loop[l].job].status = "running" /\ HoldsLock(l)
      BY <2>1, <2>2, <2>3 DEF Settles, RowConsistent, HoldsLock
    <2>5. QED
      BY <2>1, <2>2, <2>4 DEF LockNamesThisAttempt, Settles, HoldsLock
  <1>6. RowLocksHeld'
    <2>1. \A l \in Loops : loop'[l].pc = "claiming" => loop'[l] = loop[l]
      BY DEF QuietLoops, TypeOK, Loop
    <2>2. QED
      BY <2>1 DEF RowLocksHeld
  <1>7. FinishedStep
    BY DEF FinishedStep, Settles
  <1>8. Unlocking
    <2>1. \A l \in Loops : l # NULL
      BY TableAssumption DEF Loops
    <2>2. QED
      BY <2>1 DEF Unlocking, Held, Settles, RowConsistent
  <1>9. QED
    BY <1>1, <1>2, <1>3, <1>4, <1>5, <1>6, <1>7, <1>8 DEF TableStep
-----------------------------------------------------------------------------
(* The shapes of the steps *)

\* A row that stays as it is settles.
LEMMA SameSettles ==
    ASSUME IInv, NEW j \in DOMAIN jobs
    PROVE  Settles(jobs[j], jobs[j])
  BY DEF IInv, TypeOK, RowsConsistent, Settles

\* A step that leaves the table alone.
LEMMA NoRow ==
    ASSUME IInv, UNCHANGED jobs
    PROVE  SettlingJobs
  BY SameSettles DEF IInv, TypeOK, RowLocksHeld, SettlingJobs

\* A statement that changes one row which no claim in progress has locked.
LEMMA OneRow ==
    ASSUME IInv, NEW j \in DOMAIN jobs, NEW s, Settles(jobs[j], s),
           j \notin RowLocked \/ s.status = "queued",
           jobs' = [jobs EXCEPT ![j] = s]
    PROVE  SettlingJobs
  <1>1. DOMAIN jobs' = DOMAIN jobs /\ jobs' \in [DOMAIN jobs -> Row]
    BY DEF IInv, TypeOK, Settles
  <1>2. jobs'[j] = s /\ \A i \in DOMAIN jobs \ {j} : jobs'[i] = jobs[i]
    BY DEF IInv, TypeOK
  <1>3. \A i \in DOMAIN jobs' : Settles(jobs[i], jobs'[i])
    BY <1>1, <1>2, SameSettles
  <1>4. \A l \in Loops : loop[l].pc = "claiming" =>
          loop[l].job \in DOMAIN jobs' /\ jobs'[loop[l].job].status = "queued"
    BY <1>1, <1>2 DEF IInv, RowLocksHeld, RowLocked
  <1>5. QED
    BY <1>1, <1>3, <1>4 DEF SettlingJobs

\* A running row is never one that a claim in progress has locked.
LEMMA RunningNotLocked ==
    ASSUME IInv, NEW j \in DOMAIN jobs, jobs[j].status = "running"
    PROVE  j \notin RowLocked
  BY DEF IInv, RowLocksHeld, RowLocked

\* A requeued running row settles.
LEMMA RequeueSettles ==
    ASSUME IInv, NEW j \in DOMAIN jobs, jobs[j].status = "running", NEW at \in Nat
    PROVE  Settles(jobs[j], Requeued(jobs[j], at))
  BY RequeuedOK DEF IInv, TypeOK, RowsConsistent, Settles, Active

\* A finished active row settles.
LEMMA FinishSettles ==
    ASSUME IInv, NEW j \in DOMAIN jobs, Active(jobs[j]),
           NEW s \in {"succeeded", "failed"}, NEW at \in Nat
    PROVE  Settles(jobs[j], Finished(jobs[j], s, at))
  <1>1. jobs[j] \in Row
    BY DEF IInv, TypeOK
  <1>2. Finished(jobs[j], s, at).job_key = jobs[j].job_key
    BY <1>1 DEF Finished, Row
  <1>3. QED
    BY <1>1, <1>2, FinishedOK DEF Settles, Active

\* The recovery and release statements requeue a set of running rows.
LEMMA RequeueRows ==
    ASSUME IInv, NEW S, \A j \in S : j \in DOMAIN jobs /\ jobs[j].status = "running",
           jobs' = RequeueAll(jobs, S, now)
    PROVE  SettlingJobs
  <1>1. now \in Nat /\ \A j \in DOMAIN jobs : jobs[j] \in Row
    BY DEF IInv, TypeOK
  <1>2. DOMAIN jobs' = DOMAIN jobs
    BY DEF RequeueAll
  <1>3. \A j \in DOMAIN jobs : jobs'[j] = IF j \in S THEN Requeued(jobs[j], now) ELSE jobs[j]
    BY DEF RequeueAll
  <1>4. \A j \in DOMAIN jobs' : Settles(jobs[j], jobs'[j])
    BY <1>1, <1>2, <1>3, RequeueSettles, SameSettles
  <1>5. jobs' \in [DOMAIN jobs' -> Row]
    BY <1>2, <1>4 DEF RequeueAll, Settles
  <1>6. \A l \in Loops : loop[l].pc = "claiming" =>
          loop[l].job \in DOMAIN jobs' /\ jobs'[loop[l].job].status = "queued"
    BY <1>2, <1>3 DEF IInv, RowLocksHeld
  <1>7. QED
    BY <1>2, <1>4, <1>5, <1>6 DEF SettlingJobs

\* Pruning removes terminal rows.
LEMMA DeleteRows ==
    ASSUME IInv, NEW S, \A j \in S : j \in DOMAIN jobs => Terminal(jobs[j]),
           jobs' = DeleteAll(jobs, S)
    PROVE  SettlingJobs
  <1>1. DOMAIN jobs' = DOMAIN jobs \ S /\ \A j \in DOMAIN jobs' : jobs'[j] = jobs[j]
    BY DEF DeleteAll
  <1>2. jobs' \in [DOMAIN jobs' -> Row]
    BY <1>1 DEF DeleteAll, IInv, TypeOK
  <1>3. \A j \in DOMAIN jobs' : Settles(jobs[j], jobs'[j])
    BY <1>1, SameSettles
  <1>4. \A l \in Loops : loop[l].pc = "claiming" =>
          loop[l].job \in DOMAIN jobs' /\ jobs'[loop[l].job].status = "queued"
    BY <1>1 DEF IInv, RowLocksHeld
  <1>5. QED
    BY <1>1, <1>2, <1>3, <1>4 DEF SettlingJobs

\* Going back to idle or asking is a legal loop record.
LEMMA AtTyped ==
    ASSUME NEW pc \in Pcs
    PROVE  At(pc) \in Loop /\ At(pc).pc = pc
  BY DEF At, Loop

\* A step that leaves every loop where it is.
LEMMA NoLoop ==
    ASSUME IInv, UNCHANGED loop
    PROVE  QuietLoops
  BY DEF IInv, TypeOK, QuietLoops

\* A step that sends one loop back to idle or asking.
LEMMA OneLoop ==
    ASSUME IInv, NEW l \in Loops, NEW pc \in {"idle", "asking"},
           loop' = [loop EXCEPT ![l] = At(pc)]
    PROVE  QuietLoops
  BY AtTyped DEF IInv, TypeOK, QuietLoops, Pcs

\* An abort or a crash sends some loops back to idle.
LEMMA SomeLoops ==
    ASSUME IInv, NEW p, EndLoops(p)
    PROVE  QuietLoops /\ live' \subseteq Loops
  BY AtTyped DEF IInv, TypeOK, QuietLoops, Pcs, EndLoops
-----------------------------------------------------------------------------
(* The steps that bring a row into play: insertion, retry, claim *)

\* Enqueueing preserves the invariant: an upsert settles the row that holds the
\* key, an insertion takes a key nobody holds.
LEMMA EnqueuePreserves ==
    ASSUME IInv, NEW d \in Defs, NEW k \in Keys \cup {NULL}, NEW mode, NEW at \in Nat,
           Enqueue(d, k, mode, at)
    PROVE  IInv' /\ TableStep
  <1> DEFINE H == KeyHolders(jobs, k)
  <1>1. UNCHANGED <<now, heartbeat, phase, result, live, loop>>
    BY DEF Enqueue
  <1>2. \A j \in DOMAIN jobs : jobs[j] \in Row
    BY DEF IInv, TypeOK
  <1>3. QuietLoops
    BY <1>1, NoLoop
  <1>4. CASE H # {}
    <2>1. /\ DOMAIN jobs' = DOMAIN jobs
          /\ \A j \in DOMAIN jobs :
                jobs'[j] = IF j \in H THEN Upserted(jobs[j], d, mode, at) ELSE jobs[j]
          /\ jobs' = [j \in DOMAIN jobs |-> jobs'[j]]
      BY <1>4 DEF Enqueue, InsertJob
    <2>2. \A j \in DOMAIN jobs : Settles(jobs[j], Upserted(jobs[j], d, mode, at))
      BY <1>2, UpsertedOK DEF Settles, Active, IInv, RowsConsistent
    <2>3. \A j \in DOMAIN jobs : Settles(jobs[j], jobs'[j])
      BY <2>1, <2>2, SameSettles
    <2>4. jobs' \in [DOMAIN jobs' -> Row]
      BY <2>1, <2>3 DEF Settles
    <2>5. \A l \in Loops : loop[l].pc = "claiming" =>
            loop[l].job \in DOMAIN jobs' /\ jobs'[loop[l].job].status = "queued"
      BY <1>2, <2>1, UpsertedOK DEF IInv, RowLocksHeld
    <2>6. SettlingJobs
      BY <2>1, <2>3, <2>4, <2>5 DEF SettlingJobs
    <2>7. RestTyped
      BY <1>1, <1>4 DEF RestTyped, IInv, TypeOK, Enqueue
    <2>8. QED
      BY <1>3, <2>6, <2>7, SettlingPreserves
  <1>5. CASE H = {}
    <2> DEFINE n == NewRow(d, k, at)
    <2>1. nextId \in Jobs /\ nextId \notin DOMAIN jobs /\ nextId' = nextId + 1
      BY <1>5, QueueAssumption DEF Enqueue, IInv, TypeOK, Jobs
    <2>2. /\ DOMAIN jobs' = DOMAIN jobs \cup {nextId}
          /\ jobs'[nextId] = n
          /\ \A j \in DOMAIN jobs : jobs'[j] = jobs[j]
          /\ jobs' = [j \in DOMAIN jobs' |-> jobs'[j]]
      BY <1>5, <2>1 DEF Enqueue, InsertJob
    <2>3. n \in Row /\ RowConsistent(n)
      BY NewRowOK
    <2>4. n.status = "queued" /\ n.job_key = k /\ n.locked_by = NULL
      BY DEF NewRow
    <2>5. TypeOK'
      <3>1. jobs' \in [DOMAIN jobs' -> Row] /\ DOMAIN jobs' \subseteq Jobs
        BY <1>2, <2>1, <2>2, <2>3 DEF IInv, TypeOK
      <3>2. nextId' \in 1..(MaxJobs + 1) /\ \A j \in DOMAIN jobs' : j < nextId'
        BY <2>1, <2>2, QueueAssumption DEF IInv, TypeOK, Jobs
      <3>3. QED
        BY <1>1, <3>1, <3>2 DEF IInv, TypeOK
    <2>6. RowsConsistent'
      BY <2>2, <2>3 DEF IInv, RowsConsistent
    <2>7. ActiveKeyUnique'
      <3>1. \A j \in DOMAIN jobs : Active(jobs[j]) /\ k # NULL => jobs[j].job_key # k
        BY <1>5 DEF KeyHolders
      <3>2. QED
        BY <2>2, <2>4, <3>1 DEF IInv, ActiveKeyUnique
    <2>8. NamedQueueExclusive'
      BY <2>2, <2>4 DEF IInv, NamedQueueExclusive
    <2>9. LockNamesThisAttempt'
      <3>1. \A l \in Loops : l # NULL
        BY TableAssumption DEF Loops
      <3>2. QED
        BY <1>1, <2>2, <2>4, <3>1 DEF IInv, LockNamesThisAttempt, HoldsLock, Executing
    <2>10. RowLocksHeld'
      BY <1>1, <2>2 DEF IInv, RowLocksHeld
    <2>11. FinishedStep
      BY <2>2 DEF FinishedStep
    <2>12. Unlocking
      <3>1. \A l \in Loops : l # NULL
        BY TableAssumption DEF Loops
      <3>2. QED
        BY <2>2, <2>4, <3>1 DEF Unlocking, Held
    <2>13. QED
      BY <2>5, <2>6, <2>7, <2>8, <2>9, <2>10, <2>11, <2>12 DEF IInv, TableStep
  <1>6. QED
    BY <1>4, <1>5

\* Queue::retry preserves the invariant: it reactivates a job only while nobody
\* else holds its key.
LEMMA RetryPreserves ==
    ASSUME IInv, NEW j, Retry(j)
    PROVE  IInv' /\ TableStep
  <1> DEFINE r == Reset(jobs[j], now)
  <1>1. UNCHANGED <<now, nextId, heartbeat, phase, result, live, loop>>
    BY DEF Retry, OnlyJobs
  <1>2. j \in DOMAIN jobs /\ jobs[j] \in Row /\ now \in Nat
    BY DEF IInv, TypeOK, Retry
  <1>3. /\ r \in Row /\ RowConsistent(r) /\ r.status = "queued"
        /\ r.locked_by = NULL /\ r.job_key = jobs[j].job_key
    BY <1>2, ResetOK
  <1>4. /\ DOMAIN jobs' = DOMAIN jobs
        /\ jobs'[j] = r
        /\ \A i \in DOMAIN jobs \ {j} : jobs'[i] = jobs[i]
    BY <1>2 DEF Retry
  <1>5. TypeOK'
    BY <1>1, <1>2, <1>3, <1>4 DEF IInv, TypeOK, Retry
  <1>6. RowsConsistent'
    BY <1>3, <1>4 DEF IInv, RowsConsistent
  <1>7. ActiveKeyUnique'
    <2>1. \A i \in DOMAIN jobs :
             Active(jobs[i]) /\ jobs[j].job_key # NULL => jobs[i].job_key # jobs[j].job_key
      BY DEF Retry, KeyHolders
    <2>2. QED
      BY <1>3, <1>4, <2>1 DEF IInv, ActiveKeyUnique
  <1>8. NamedQueueExclusive'
    BY <1>3, <1>4 DEF IInv, NamedQueueExclusive
  <1>9. LockNamesThisAttempt'
    <2>1. \A l \in Loops : l # NULL
      BY TableAssumption DEF Loops
    <2>2. QED
      BY <1>1, <1>3, <1>4, <2>1 DEF IInv, LockNamesThisAttempt, HoldsLock, Executing
  <1>10. RowLocksHeld'
    BY <1>1, <1>3, <1>4 DEF IInv, RowLocksHeld
  <1>11. FinishedStep
    BY <1>4 DEF FinishedStep, Retry
  <1>12. Unlocking
    <2>1. \A l \in Loops : l # NULL
      BY TableAssumption DEF Loops
    <2>2. QED
      BY <1>3, <1>4, <2>1 DEF Unlocking, Held
  <1>13. QED
    BY <1>5, <1>6, <1>7, <1>8, <1>9, <1>10, <1>11, <1>12 DEF IInv, TableStep

\* The SELECT of claim_next locks a queued row that no other claim has locked.
LEMMA ClaimSelectPreserves ==
    ASSUME IInv, NEW l \in Loops, ClaimSelect(l)
    PROVE  IInv' /\ TableStep
  <1>1. UNCHANGED <<now, jobs, nextId, heartbeat, phase, result, live>>
    BY DEF ClaimSelect
  <1>2. PICK j \in DOMAIN jobs : /\ j \notin RowLocked
                                /\ jobs[j].status = "queued"
                                /\ loop' = [loop EXCEPT ![l] = [At("claiming") EXCEPT !.job = j]]
    BY DEF ClaimSelect, First, Candidates, Claimable
  <1>3. j \in Jobs
    BY DEF IInv, TypeOK
  <1>4. /\ loop' \in [Loops -> Loop]
        /\ loop'[l].pc = "claiming" /\ loop'[l].job = j
        /\ \A k \in Loops \ {l} : loop'[k] = loop[k]
    BY <1>2, <1>3 DEF IInv, TypeOK, At, Loop, Pcs
  <1>5. TypeOK'
    BY <1>1, <1>4 DEF IInv, TypeOK
  <1>6. RowsConsistent' /\ ActiveKeyUnique' /\ NamedQueueExclusive'
    BY <1>1 DEF IInv, RowsConsistent, ActiveKeyUnique, NamedQueueExclusive
  <1>7. LockNamesThisAttempt'
    BY <1>1, <1>4 DEF IInv, LockNamesThisAttempt, HoldsLock, Executing
  <1>8. RowLocksHeld'
    BY <1>1, <1>2, <1>4 DEF IInv, RowLocksHeld, RowLocked
  <1>9. FinishedStep /\ Unlocking
    BY <1>1 DEF FinishedStep, Unlocking, Held
  <1>10. QED
    BY <1>5, <1>6, <1>7, <1>8, <1>9 DEF IInv, TableStep

\* The UPDATE of claim_next turns the row it locked, still queued, into a running
\* one; the index keeps its named queue exclusive.
LEMMA ClaimCommitPreserves ==
    ASSUME IInv, NEW l \in Loops, ClaimCommit(l)
    PROVE  IInv' /\ TableStep
  <1> DEFINE j == loop[l].job
             r == Claimed(jobs[j], l, now)
             started == [pc |-> "running", job |-> j, attempt |-> r.attempt, def |-> r.def]
  <1>1. UNCHANGED <<now, nextId, heartbeat, phase, result, live>>
    BY DEF ClaimCommit
  <1>2. /\ j \in DOMAIN jobs /\ jobs[j] \in Row /\ jobs[j].status = "queued"
        /\ now \in Nat /\ j \in Jobs /\ loop[l].pc = "claiming"
    BY DEF IInv, TypeOK, RowLocksHeld, ClaimCommit
  <1>3. /\ r \in Row /\ RowConsistent(r) /\ r.status = "running" /\ r.locked_by = l
        /\ r.job_key = jobs[j].job_key /\ r.def = jobs[j].def /\ r.attempt \in Nat
    BY <1>2, ClaimedOK DEF Loops
  <1>4. /\ jobs' = [jobs EXCEPT ![j] = r]
        /\ DOMAIN jobs' = DOMAIN jobs
        /\ jobs'[j] = r
        /\ \A i \in DOMAIN jobs \ {j} : jobs'[i] = jobs[i]
    BY <1>2 DEF ClaimCommit
  <1>5. PICK x \in {started, At("idle")} : loop' = [loop EXCEPT ![l] = x]
    BY DEF ClaimCommit
  <1>6. x \in Loop /\ x.pc # "claiming"
    <2>1. r.def \in Defs
      BY <1>3 DEF Row
    <2>2. started \in Loop
      BY <1>2, <1>3, <2>1 DEF Loop, Pcs
    <2>3. QED
      BY <1>5, <2>2, AtTyped DEF Pcs
  <1>7. /\ loop' \in [Loops -> Loop] /\ loop'[l] = x
        /\ \A k \in Loops \ {l} : loop'[k] = loop[k]
    BY <1>5, <1>6 DEF IInv, TypeOK
  <1>8. TypeOK'
    BY <1>1, <1>2, <1>3, <1>4, <1>7 DEF IInv, TypeOK
  <1>9. RowsConsistent'
    BY <1>3, <1>4 DEF IInv, RowsConsistent
  <1>10. ActiveKeyUnique'
    BY <1>2, <1>3, <1>4 DEF IInv, ActiveKeyUnique, Active
  <1>11. NamedQueueExclusive'
    <2>1. \A i \in DOMAIN jobs : jobs[i].status = "running" /\ r.def.queue_name # NULL =>
             jobs[i].def.queue_name # r.def.queue_name
      BY <1>3 DEF ClaimCommit, QueueRunning
    <2>2. QED
      BY <1>3, <1>4, <2>1 DEF IInv, NamedQueueExclusive
  <1>12. LockNamesThisAttempt'
    <2>1. SUFFICES ASSUME NEW k \in Loops, Executing(k)', HoldsLock(k)'
                   PROVE  /\ jobs'[loop'[k].job].status = "running"
                          /\ jobs'[loop'[k].job].attempt = loop'[k].attempt
                          /\ jobs'[loop'[k].job].def = loop'[k].def
      BY DEF LockNamesThisAttempt
    <2>2. CASE k = l
      <3>1. x = started
        BY <1>5, <1>7, <2>1, <2>2 DEF Executing, At
      <3>2. QED
        BY <1>3, <1>4, <1>7, <2>2, <3>1
    <2>3. CASE k # l
      <3>1. loop'[k] = loop[k] /\ loop[k].job # j
        BY <1>3, <1>4, <1>7, <2>1, <2>3 DEF HoldsLock
      <3>2. QED
        BY <1>4, <2>1, <3>1 DEF IInv, LockNamesThisAttempt, HoldsLock, Executing
    <2>4. QED
      BY <2>2, <2>3
  <1>13. RowLocksHeld'
    <2>1. \A k \in Loops : loop'[k].pc = "claiming" =>
             k # l /\ loop'[k] = loop[k] /\ loop[k].job # j
      BY <1>2, <1>6, <1>7 DEF IInv, RowLocksHeld
    <2>2. QED
      BY <1>4, <2>1 DEF IInv, RowLocksHeld
  <1>14. FinishedStep
    BY <1>2, <1>4 DEF FinishedStep
  <1>15. QED
    BY <1>8, <1>9, <1>10, <1>11, <1>12, <1>13, <1>14 DEF IInv, TableStep
-----------------------------------------------------------------------------
(* Every step *)

\* The Queue API preserves the invariant.
LEMMA ApiPreserves ==
    ASSUME IInv, ApiStep
    PROVE  IInv' /\ TableStep
  <1>1. now \in Nat /\ \A j \in DOMAIN jobs : jobs[j] \in Row
    BY DEF IInv, TypeOK
  <1>2. OnlyJobs => QuietLoops /\ RestTyped
    BY NoLoop DEF OnlyJobs, RestTyped, IInv, TypeOK
  <1>3. ASSUME NEW q \in Requests, NEW at \in 0..(now + MaxDelay),
               Enqueue(q.def, q.job_key, q.mode, at)
        PROVE  IInv' /\ TableStep
    <2>1. q.def \in Defs /\ q.job_key \in Keys \cup {NULL} /\ at \in Nat
      BY <1>1, QueueAssumption
    <2>2. QED
      BY <1>3, <2>1, EnqueuePreserves
  <1>4. ASSUME NEW j \in Jobs, Cancel(j)
        PROVE  IInv' /\ TableStep
    <2>1. Settles(jobs[j], Cancelled(jobs[j], now))
      <3>1. Cancelled(jobs[j], now).job_key = jobs[j].job_key
        BY <1>1, <1>4 DEF Cancel, Cancelled, Row
      <3>2. QED
        BY <1>1, <1>4, <3>1, CancelledOK DEF Cancel, Settles, Active, IInv, RowsConsistent
    <2>2. SettlingJobs
      BY <1>4, <2>1, OneRow DEF Cancel
    <2>3. QED
      BY <1>2, <1>4, <2>2, SettlingPreserves DEF Cancel
  <1>5. ASSUME NEW j \in Jobs, Retry(j)
        PROVE  IInv' /\ TableStep
    BY <1>5, RetryPreserves
  <1>6. ASSUME NEW j \in Jobs, PermanentlyFail(j)
        PROVE  IInv' /\ TableStep
    <2>1. SettlingJobs
      BY <1>1, <1>6, FinishSettles, OneRow DEF PermanentlyFail
    <2>2. QED
      BY <1>2, <1>6, <2>1, SettlingPreserves DEF PermanentlyFail
  <1>7. ASSUME NEW j \in Jobs, Complete(j)
        PROVE  IInv' /\ TableStep
    <2>1. SettlingJobs
      BY <1>1, <1>7, FinishSettles, OneRow DEF Complete
    <2>2. QED
      BY <1>2, <1>7, <2>1, SettlingPreserves DEF Complete
  <1>8. ASSUME NEW j \in Jobs, NEW at \in 0..(now + MaxDelay), Reschedule(j, at)
        PROVE  IInv' /\ TableStep
    <2> DEFINE s == [jobs[j] EXCEPT !.run_at = at]
    <2>1. at \in Nat /\ j \in DOMAIN jobs /\ jobs[j].status = "queued"
      BY <1>1, <1>8, QueueAssumption DEF Reschedule
    <2>2. Settles(jobs[j], s)
      <3>1. s \in Row /\ s.status = "queued" /\ s.job_key = jobs[j].job_key
        BY <1>1, <2>1 DEF Row
      <3>2. RowConsistent(s)
        BY <1>1, <2>1 DEF Row, IInv, RowsConsistent, RowConsistent
      <3>3. QED
        BY <2>1, <3>1, <3>2 DEF Settles, Active
    <2>3. jobs' = [jobs EXCEPT ![j] = s]
      BY <1>8 DEF Reschedule
    <2>4. SettlingJobs
      BY <1>8, <2>1, <2>2, <2>3, OneRow DEF Reschedule
    <2>5. QED
      BY <1>2, <1>8, <2>4, SettlingPreserves DEF Reschedule
  <1>9. CASE PruneFinished
    <2>1. SettlingJobs
      BY <1>9, DeleteRows DEF PruneFinished, Expired
    <2>2. QED
      BY <1>2, <1>9, <2>1, SettlingPreserves DEF PruneFinished
  <1>10. ASSUME NEW w \in WorkerIds, ForceUnlockWorker(w)
         PROVE  IInv' /\ TableStep
    <2>1. SettlingJobs
      BY <1>10, RequeueRows DEF ForceUnlockWorker, LockedBy
    <2>2. QuietLoops /\ RestTyped
      BY <1>10, NoLoop DEF ForceUnlockWorker, RestTyped, IInv, TypeOK
    <2>3. QED
      BY <2>1, <2>2, SettlingPreserves
  <1>11. QED
    BY <1>3, <1>4, <1>5, <1>6, <1>7, <1>8, <1>9, <1>10 DEF ApiStep

\* A report or a renewal that finds its lock works on a running row.
LEMMA HoldsRunning ==
    ASSUME IInv, NEW l \in Loops, HoldsLock(l)
    PROVE  loop[l].job \in DOMAIN jobs /\ jobs[loop[l].job].status = "running"
  <1>1. l # NULL
    BY TableAssumption DEF Loops
  <1>2. QED
    BY <1>1 DEF HoldsLock, IInv, RowsConsistent, RowConsistent

\* A claim loop preserves the invariant.
LEMMA LoopPreserves ==
    ASSUME IInv, NEW l \in Loops, LoopStep(l)
    PROVE  IInv' /\ TableStep
  <1> DEFINE j == loop[l].job
             Rest == UNCHANGED <<now, nextId, heartbeat, phase, result, live>>
  <1>1. now \in Nat /\ \A i \in DOMAIN jobs : jobs[i] \in Row
    BY DEF IInv, TypeOK
  <1>2. Rest => RestTyped
    BY DEF RestTyped, IInv, TypeOK
  <1>3. CASE AskForJob(l)
    BY <1>2, <1>3, NoRow, OneLoop, SettlingPreserves DEF AskForJob
  <1>4. CASE ClaimSelect(l)
    BY <1>4, ClaimSelectPreserves
  <1>5. CASE ClaimCommit(l)
    BY <1>5, ClaimCommitPreserves
  <1>6. CASE ClaimNothing(l)
    BY <1>2, <1>6, NoRow, OneLoop, SettlingPreserves DEF ClaimNothing
  <1>7. CASE HandlerReturns(l)
    <2>1. QuietLoops
      <3>1. PICK pc \in {"completing", "failing"} : loop' = [loop EXCEPT ![l].pc = pc]
        BY <1>7 DEF HandlerReturns
      <3>2. [loop[l] EXCEPT !.pc = pc] \in Loop
        BY DEF IInv, TypeOK, Loop, Pcs
      <3>3. loop' = [loop EXCEPT ![l] = [loop[l] EXCEPT !.pc = pc]]
        BY <3>1
      <3>4. QED
        BY <1>7, <3>2, <3>3 DEF QuietLoops, IInv, TypeOK, HandlerReturns
    <2>2. QED
      BY <1>2, <1>7, <2>1, NoRow, SettlingPreserves DEF HandlerReturns
  <1>8. CASE RenewLock(l)
    <2>1. CASE UNCHANGED jobs /\ loop' = [loop EXCEPT ![l] = At("idle")]
      BY <1>2, <1>8, <2>1, NoRow, OneLoop, SettlingPreserves DEF RenewLock
    <2>2. CASE /\ UNCHANGED loop /\ HoldsLock(l)
               /\ jobs' = [jobs EXCEPT ![j].locked_at = now]
      <3> DEFINE s == [jobs[j] EXCEPT !.locked_at = now]
      <3>1. j \in DOMAIN jobs /\ jobs[j].status = "running" /\ jobs[j] \in Row
        BY <1>1, <2>2, HoldsRunning
      <3>2. Settles(jobs[j], s)
        <4>1. /\ s \in Row /\ s.status = "running" /\ s.job_key = jobs[j].job_key
              /\ s.def = jobs[j].def /\ s.attempt = jobs[j].attempt
              /\ s.locked_by = jobs[j].locked_by
          BY <1>1, <3>1 DEF Row
        <4>2. now # NULL
          BY <1>1, TableAssumption
        <4>3. RowConsistent(s)
          BY <3>1, <4>2 DEF Row, IInv, RowsConsistent, RowConsistent
        <4>4. QED
          BY <3>1, <4>1, <4>3 DEF Settles, Active
      <3>3. jobs' = [jobs EXCEPT ![j] = s]
        BY <2>2
      <3>4. SettlingJobs
        BY <3>1, <3>2, <3>3, RunningNotLocked, OneRow
      <3>5. QED
        BY <1>2, <1>8, <2>2, <3>4, NoLoop, SettlingPreserves DEF RenewLock
    <2>3. QED
      BY <1>8, <2>1, <2>2 DEF RenewLock
  <1>9. CASE CompleteLocked(l)
    <2>1. SettlingJobs
      <3>1. CASE HoldsLock(l)
        <4>1. j \in DOMAIN jobs /\ jobs[j].status = "running" /\ j \notin RowLocked
          BY <3>1, HoldsRunning, RunningNotLocked
        <4>2. QED
          BY <1>1, <1>9, <3>1, <4>1, FinishSettles, OneRow DEF CompleteLocked, Active
      <3>2. CASE ~ HoldsLock(l)
        BY <1>9, <3>2, NoRow DEF CompleteLocked
      <3>3. QED
        BY <3>1, <3>2
    <2>2. QED
      BY <1>2, <1>9, <2>1, OneLoop, SettlingPreserves DEF CompleteLocked
  <1>10. CASE FailLocked(l)
    <2>1. SettlingJobs
      <3>1. CASE HoldsLock(l)
        <4> DEFINE at == now + RetryDelay(jobs[j])
        <4>1. j \in DOMAIN jobs /\ jobs[j].status = "running" /\ j \notin RowLocked
          BY <3>1, HoldsRunning, RunningNotLocked
        <4>2. at \in Nat
          <5>1. jobs[j].attempt \in Nat
            BY <1>1, <4>1 DEF Row
          <5>2. RetryDelay(jobs[j]) \in Nat
            BY <5>1, TableAssumption DEF RetryDelay
          <5>3. QED
            BY <1>1, <5>2
        <4>3. \/ jobs' = [jobs EXCEPT ![j] = Finished(jobs[j], "failed", now)]
              \/ jobs' = [jobs EXCEPT ![j] = Requeued(jobs[j], at)]
          BY <1>10, <3>1 DEF FailLocked
        <4>4. QED
          BY <1>1, <4>1, <4>2, <4>3, FinishSettles, RequeueSettles, OneRow DEF Active
      <3>2. CASE ~ HoldsLock(l)
        BY <1>10, <3>2, NoRow DEF FailLocked
      <3>3. QED
        BY <3>1, <3>2
    <2>2. QED
      BY <1>2, <1>10, <2>1, OneLoop, SettlingPreserves DEF FailLocked
  <1>11. CASE ReportFails(l)
    BY <1>2, <1>11, NoRow, OneLoop, SettlingPreserves DEF ReportFails
  <1>12. CASE LoopExits(l)
    <2>1. RestTyped
      BY <1>12 DEF LoopExits, RestTyped, IInv, TypeOK
    <2>2. QED
      BY <1>12, <2>1, NoRow, NoLoop, SettlingPreserves DEF LoopExits
  <1>13. QED
    BY <1>3, <1>4, <1>5, <1>6, <1>7, <1>8, <1>9, <1>10, <1>11, <1>12 DEF LoopStep

\* A worker process preserves the invariant.
LEMMA ProcPreserves ==
    ASSUME IInv, NEW p \in Procs, ProcStep(p)
    PROVE  IInv' /\ TableStep
  <1>1. /\ now \in Nat /\ IdOf[p] \in WorkerIds
        /\ heartbeat \in [WorkerIds -> Nat \cup {NULL}]
    BY QueueAssumption DEF IInv, TypeOK
  <1>2. CASE \/ Start(p) \/ Heartbeat(p) \/ RequestShutdown(p) \/ Drained(p)
             \/ DeregisterWorker(p)
    <2>1. UNCHANGED jobs /\ UNCHANGED loop
      BY <1>2 DEF Start, Heartbeat, RequestShutdown, Drained, DeregisterWorker
    <2>2. RestTyped
      BY <1>1, <1>2 DEF Start, Heartbeat, RequestShutdown, Drained, DeregisterWorker,
                        LoopsOf, RestTyped, IInv, TypeOK, Phases
    <2>3. QED
      BY <2>1, <2>2, NoRow, NoLoop, SettlingPreserves
  <1>3. CASE RecoverDeadWorkers(p)
    <2>1. SettlingJobs
      <3>1. \A j \in UNION {LockedBy(w) : w \in Silent} :
               j \in DOMAIN jobs /\ jobs[j].status = "running"
        BY DEF LockedBy
      <3>2. QED
        BY <1>3, <3>1, RequeueRows DEF RecoverDeadWorkers
    <2>2. QuietLoops /\ RestTyped
      BY <1>1, <1>3, NoLoop DEF RecoverDeadWorkers, RestTyped, IInv, TypeOK
    <2>3. QED
      BY <2>1, <2>2, SettlingPreserves
  <1>4. CASE RecoverStale(p)
    <2>1. SettlingJobs
      BY <1>4, RequeueRows DEF RecoverStale, StaleLocks
    <2>2. QuietLoops /\ RestTyped
      BY <1>4, NoLoop DEF RecoverStale, OnlyJobs, RestTyped, IInv, TypeOK
    <2>3. QED
      BY <2>1, <2>2, SettlingPreserves
  <1>5. CASE AbortTasks(p) \/ Crash(p)
    <2>1. QuietLoops /\ live' \subseteq Loops /\ SettlingJobs
      BY <1>5, SomeLoops, NoRow DEF AbortTasks, Crash
    <2>2. RestTyped
      BY <1>5, <2>1 DEF AbortTasks, Crash, RestTyped, IInv, TypeOK, Phases
    <2>3. QED
      BY <2>1, <2>2, SettlingPreserves
  <1>6. CASE ReleaseWorkerJobs(p)
    <2>1. SettlingJobs
      BY <1>6, RequeueRows, NoRow DEF ReleaseWorkerJobs, LockedBy
    <2>2. QuietLoops /\ RestTyped
      BY <1>6, NoLoop DEF ReleaseWorkerJobs, RestTyped, IInv, TypeOK, Phases
    <2>3. QED
      BY <2>1, <2>2, SettlingPreserves
  <1>7. QED
    BY <1>2, <1>3, <1>4, <1>5, <1>6 DEF ProcStep

\* The invariant holds at the start.
LEMMA InitIInv == Init => IInv
  <1>1. SUFFICES ASSUME Init PROVE IInv
    OBVIOUS
  <1>2. TypeOK
    BY <1>1, QueueAssumption, AtTyped DEF Init, TypeOK, Jobs, Phases, Pcs
  <1>3. DOMAIN jobs = {}
    BY <1>1 DEF Init
  <1>4. RowsConsistent /\ ActiveKeyUnique /\ NamedQueueExclusive
    BY <1>3 DEF RowsConsistent, ActiveKeyUnique, NamedQueueExclusive
  <1>5. \A l \in Loops : loop[l].pc = "idle"
    BY <1>1, AtTyped DEF Init, Pcs
  <1>6. LockNamesThisAttempt /\ RowLocksHeld
    BY <1>5 DEF LockNamesThisAttempt, Executing, RowLocksHeld
  <1>7. QED
    BY <1>2, <1>4, <1>6 DEF IInv

\* Every step preserves the invariant and leaves finished rows alone.
LEMMA StepIInv == IInv /\ [Next]_vars => IInv' /\ [TableStep]_vars
  <1>1. SUFFICES ASSUME IInv, [Next]_vars
                 PROVE  IInv' /\ [TableStep]_vars
    OBVIOUS
  <1>2. CASE Tick
    <2>1. RestTyped
      BY <1>1, <1>2 DEF Tick, RestTyped, IInv, TypeOK
    <2>2. QED
      BY <1>1, <1>2, <2>1, NoRow, NoLoop, SettlingPreserves DEF Tick
  <1>3. CASE ApiStep
    BY <1>1, <1>3, ApiPreserves
  <1>4. CASE \E l \in Loops : LoopStep(l)
    BY <1>1, <1>4, LoopPreserves
  <1>5. CASE \E p \in Procs : ProcStep(p)
    BY <1>1, <1>5, ProcPreserves
  <1>6. CASE UNCHANGED vars
    <2>1. SettlingJobs /\ QuietLoops /\ RestTyped
      BY <1>1, <1>6, NoRow, NoLoop DEF vars, RestTyped, IInv, TypeOK
    <2>2. QED
      BY <1>1, <1>6, <2>1, SettlingPreserves
  <1>7. QED
    BY <1>1, <1>2, <1>3, <1>4, <1>5, <1>6 DEF Next
-----------------------------------------------------------------------------
(* What a stopped worker leaves behind *)

\* The loop holds what one claim in flight may have left, after the release.
LateOnly(l) ==
    /\ \A i, j \in Held(l) : i = j
    /\ loop[l].pc \in {"asking", "claiming"} => Held(l) = {}

Released(p) == phase[p] \in {"deregistering", "stopped"} /\ result[p] = "ok"

\* The loops of a process that cleans up are gone; once the release has succeeded they
\* have lost at most the claims that were in flight.
Late ==
    /\ \A p \in Procs : phase[p] \in {"releasing", "deregistering", "stopped"} =>
                           LoopsOf(p) \cap live = {}
    /\ \A p \in Procs, l \in Loops : Released(p) /\ l \in LoopsOf(p) => LateOnly(l)

\* A step that locks nothing.
LEMMA LateKept ==
    ASSUME Late, Unlocking,
           \A p \in Procs : phase'[p] \in {"releasing", "deregistering", "stopped"} =>
                              LoopsOf(p) \cap live' = {},
           \A p \in Procs : Released(p)' =>
              Released(p) \/ \A l \in LoopsOf(p) : Held(l)' = {},
           \A l \in Loops \ live : loop'[l].pc \in {"asking", "claiming"} =>
                                     loop[l].pc \in {"asking", "claiming"}
    PROVE  Late'
  <1>1. ASSUME NEW p \in Procs, NEW l \in Loops, Released(p)', l \in LoopsOf(p)
        PROVE  LateOnly(l)'
    <2>1. CASE Held(l)' = {}
      BY <2>1 DEF LateOnly
    <2>2. CASE Released(p)
      <3>1. LateOnly(l) /\ l \notin live
        BY <1>1, <2>2 DEF Late, Released
      <3>2. Held(l)' \subseteq Held(l)
        BY DEF Unlocking
      <3>3. QED
        BY <3>1, <3>2 DEF LateOnly
    <2>3. QED
      BY <1>1, <2>1, <2>2
  <1>2. QED
    BY <1>1 DEF Late, LoopsOf

\* A late claim locks the one row that its loop will ever hold again.
LEMMA LateClaim ==
    ASSUME IInv, Late, NEW l \in Loops, ClaimCommit(l)
    PROVE  Late'
  <1> DEFINE j == loop[l].job
             r == Claimed(jobs[j], l, now)
  <1>1. /\ UNCHANGED <<phase, result, live>> /\ loop[l].pc = "claiming"
        /\ jobs' = [jobs EXCEPT ![j] = r]
        /\ l \notin live => loop' = [loop EXCEPT ![l] = At("idle")]
    BY DEF ClaimCommit
  <1>2. /\ j \in DOMAIN jobs /\ r.locked_by = l /\ loop \in [Loops -> Loop]
        /\ \E x : loop' = [loop EXCEPT ![l] = x]
    <2>1. jobs[j] \in Row /\ now \in Nat /\ j \in DOMAIN jobs
      BY <1>1 DEF IInv, TypeOK, RowLocksHeld
    <2>2. r.locked_by = l
      BY <2>1, ClaimedOK DEF Loops
    <2>3. QED
      BY <2>1, <2>2 DEF ClaimCommit, IInv, TypeOK
  <1>3. /\ \A k \in Loops \ {l} : Held(k)' \subseteq Held(k)
        /\ Held(l)' \subseteq Held(l) \cup {j}
    BY <1>1, <1>2 DEF Held
  <1>4. ASSUME NEW p \in Procs, NEW k \in Loops, Released(p), k \in LoopsOf(p)
        PROVE  LateOnly(k)'
    <2>1. LateOnly(k) /\ k \notin live
      BY <1>4 DEF Late, Released
    <2>2. CASE k = l
      <3>1. Held(l) = {}
        BY <1>1, <2>1, <2>2 DEF LateOnly
      <3>2. loop'[l].pc = "idle"
        BY <1>1, <1>2, <2>1, <2>2, AtTyped DEF Pcs
      <3>3. QED
        BY <1>3, <2>2, <3>1, <3>2 DEF LateOnly
    <2>3. CASE k # l
      <3>1. loop'[k] = loop[k] /\ Held(k)' \subseteq Held(k)
        BY <1>2, <1>3, <2>3
      <3>2. QED
        BY <2>1, <3>1 DEF LateOnly
    <2>4. QED
      BY <2>2, <2>3
  <1>5. QED
    BY <1>1, <1>4 DEF Late, Released

\* Nothing that releases, asks for a job, or stops brings a lock back.
LEMMA LateStep ==
    ASSUME IInv, Late, Next, TableStep
    PROVE  Late'
  <1> DEFINE Calm == /\ UNCHANGED <<phase, result>> /\ live' \subseteq live
                     /\ \A l \in Loops \ live : loop'[l].pc \in {"asking", "claiming"} =>
                                               loop[l].pc \in {"asking", "claiming"}
  <1>1. CASE \E l \in Loops : ClaimCommit(l)
    BY <1>1, LateClaim
  <1>2. CASE Unlocking
    <2>1. Calm => Late'
      BY <1>2, LateKept DEF Late, Released
    <2>2. loop \in [Loops -> Loop] /\ phase \in [Procs -> Phases]
          /\ result \in [Procs -> {"ok", "error"}]
      BY DEF IInv, TypeOK
    <2>3. CASE Tick \/ ApiStep
      BY <2>1, <2>3 DEF Tick, ApiStep, OnlyJobs, Enqueue, Cancel, Retry, PermanentlyFail,
                        Complete, Reschedule, PruneFinished, ForceUnlockWorker
    <2>4. ASSUME NEW l \in Loops, LoopStep(l)
          PROVE  Late'
      <3>1. CASE AskForJob(l) \/ ClaimSelect(l)
        <4>1. PICK x : loop' = [loop EXCEPT ![l] = x]
          BY <3>1 DEF AskForJob, ClaimSelect
        <4>2. l \in live \/ loop[l].pc = "asking"
          BY <3>1 DEF AskForJob, ClaimSelect
        <4>3. QED
          BY <2>1, <2>2, <3>1, <4>1, <4>2 DEF AskForJob, ClaimSelect
      <3>2. CASE ClaimCommit(l)
        BY <3>2, LateClaim
      <3>3. CASE ClaimNothing(l) \/ CompleteLocked(l) \/ FailLocked(l) \/ ReportFails(l)
        BY <2>1, <2>2, <3>3, AtTyped
           DEF ClaimNothing, CompleteLocked, FailLocked, ReportFails, Pcs
      <3>4. CASE HandlerReturns(l)
        BY <2>1, <2>2, <3>4 DEF HandlerReturns, Loop
      <3>5. CASE RenewLock(l)
        <4>1. UNCHANGED loop \/ loop' = [loop EXCEPT ![l] = At("idle")]
          BY <3>5 DEF RenewLock
        <4>2. QED
          BY <2>1, <2>2, <3>5, <4>1, AtTyped DEF RenewLock, Pcs
      <3>6. CASE LoopExits(l)
        BY <2>1, <3>6 DEF LoopExits
      <3>7. QED
        BY <2>4, <3>1, <3>2, <3>3, <3>4, <3>5, <3>6 DEF LoopStep
    <2>5. ASSUME NEW p \in Procs, ProcStep(p)
          PROVE  Late'
      <3>1. CASE Heartbeat(p) \/ RecoverDeadWorkers(p) \/ RecoverStale(p)
        BY <2>1, <3>1 DEF Heartbeat, RecoverDeadWorkers, RecoverStale, OnlyJobs
      <3>2. CASE Start(p) \/ RequestShutdown(p) \/ Drained(p)
        <4>1. /\ UNCHANGED <<result, loop>>
              /\ \A q \in Procs \ {p} : phase'[q] = phase[q]
              /\ phase'[p] \in {"up", "draining", "releasing"}
              /\ phase'[p] = "releasing" => LoopsOf(p) \cap live = {} /\ live' = live
          BY <2>2, <3>2 DEF Start, RequestShutdown, Drained
        <4>2. \A q \in Procs \ {p} : LoopsOf(q) \cap live' \subseteq live
          BY <3>2 DEF Start, RequestShutdown, Drained, LoopsOf
        <4>3. QED
          BY <1>2, <4>1, <4>2, LateKept DEF Late, Released
      <3>3. CASE AbortTasks(p) \/ Crash(p)
        <4>1. /\ \A q \in Procs \ {p} : phase'[q] = phase[q] /\ result'[q] = result[q]
              /\ phase'[p] \in {"releasing", "crashed"}
              /\ live' = live \ LoopsOf(p)
          BY <2>2, <3>3 DEF AbortTasks, Crash, EndLoops
        <4>2. \A l \in Loops : loop'[l].pc \in {"asking", "claiming"} =>
                                  loop[l].pc \in {"asking", "claiming"}
          BY <3>3, AtTyped DEF AbortTasks, Crash, EndLoops, Pcs
        <4>3. QED
          BY <1>2, <4>1, <4>2, LateKept DEF Late, Released
      <3>4. CASE ReleaseWorkerJobs(p)
        <4>1. /\ \A q \in Procs \ {p} : phase'[q] = phase[q] /\ result'[q] = result[q]
              /\ phase[p] = "releasing" /\ UNCHANGED <<live, loop>>
          BY <2>2, <3>4 DEF ReleaseWorkerJobs
        <4>2. result'[p] = "ok" => \A l \in LoopsOf(p) : Held(l)' = {}
          <5>1. SUFFICES ASSUME result'[p] = "ok", NEW l \in LoopsOf(p),
                                NEW j \in Held(l)'
                         PROVE  FALSE
            OBVIOUS
          <5>2. jobs' = RequeueAll(jobs, LockedBy(IdOf[p]), now)
            BY <2>2, <3>4, <5>1 DEF ReleaseWorkerJobs
          <5>3. l \in Loops /\ l # NULL /\ Home[l] = p
            BY TableAssumption DEF Loops, LoopsOf
          <5>4. /\ j \in DOMAIN jobs /\ jobs'[j].locked_by = l
                /\ jobs'[j] = IF j \in LockedBy(IdOf[p]) THEN Requeued(jobs[j], now) ELSE jobs[j]
            BY <5>1, <5>2 DEF Held, RequeueAll
          <5>5. jobs[j] \in Row /\ now \in Nat /\ RowConsistent(jobs[j])
            BY <5>4 DEF IInv, TypeOK, RowsConsistent
          <5>6. Requeued(jobs[j], now).locked_by = NULL
            BY <5>5, RequeuedOK
          <5>7. j \in LockedBy(IdOf[p])
            BY <5>3, <5>4, <5>5 DEF LockedBy, RowConsistent
          <5>8. QED
            BY <5>3, <5>4, <5>6, <5>7
        <4>3. QED
          BY <1>2, <4>1, <4>2, LateKept DEF Late, Released
      <3>5. CASE DeregisterWorker(p)
        <4>1. /\ \A q \in Procs \ {p} : phase'[q] = phase[q] /\ result'[q] = result[q]
              /\ phase[p] = "deregistering" /\ UNCHANGED <<live, loop>>
              /\ result'[p] = "ok" => result[p] = "ok"
          BY <2>2, <3>5 DEF DeregisterWorker
        <4>2. QED
          BY <1>2, <4>1, LateKept DEF Late, Released
      <3>6. QED
        BY <2>5, <3>1, <3>2, <3>3, <3>4, <3>5 DEF ProcStep
    <2>6. QED
      BY <2>3, <2>4, <2>5 DEF Next
  <1>3. QED
    BY <1>1, <1>2 DEF TableStep
-----------------------------------------------------------------------------
(* The theorems *)

\* The invariant holds of every behaviour of the queue.
THEOREM Invariance == Spec => []IInv
  BY InitIInv, StepIInv, PTL DEF Spec

\* The tables and the loop records are well typed in every reachable state, and
\* no id is handed out twice.
THEOREM TypeCorrect == Spec => []TypeOK
  BY Invariance, PTL DEF IInv

\* The lock columns, the status and finished_at of every row agree, so that the
\* statements that match rows by different columns mean the same rows.
THEOREM ConsistentRows == Spec => []RowsConsistent
  BY Invariance, PTL DEF IInv

\* At most one unfinished job has a given key, whatever callers enqueue, retry or
\* replace, and whatever the workers do meanwhile.
THEOREM UniqueKeys == Spec => []ActiveKeyUnique
  BY Invariance, PTL DEF IInv

\* A named queue never has two running jobs.
THEOREM ExclusiveQueues == Spec => []NamedQueueExclusive
  BY Invariance, PTL DEF IInv

\* A loop that owns the row of the job it executes executes the attempt and the
\* definition in that row: no report can be taken for that of another attempt.
THEOREM ReportsMatch == Spec => []LockNamesThisAttempt
  BY Invariance, PTL DEF IInv

\* Two loops execute jobs of one named queue at the same time only if one of them
\* has lost its lock.
THEOREM Serial == Spec => []SerialExecution
  <1>1. ASSUME IInv PROVE SerialExecution
    <2>1. SUFFICES ASSUME NEW k \in Loops, NEW l \in Loops,
                          Executing(k), HoldsLock(k), Executing(l), HoldsLock(l),
                          loop[k].def.queue_name = loop[l].def.queue_name,
                          loop[k].def.queue_name # NULL
                   PROVE  k = l
      BY DEF SerialExecution
    <2>2. loop[k].job = loop[l].job
      BY <1>1, <2>1 DEF IInv, LockNamesThisAttempt, NamedQueueExclusive, HoldsLock
    <2>3. QED
      BY <2>1, <2>2 DEF HoldsLock
  <1>2. QED
    BY <1>1, Invariance, PTL

\* A finished job comes back only through Queue::retry, and a succeeded one never.
THEOREM FinishedForGood == Spec => FinishedStaysFinished
  <1>1. [TableStep]_vars => [FinishedStep]_vars
    BY DEF TableStep
  <1>2. QED
    BY <1>1, Invariance, StepIInv, PTL DEF Spec, FinishedStaysFinished

\* Whatever is in flight when its loops are aborted, a worker that returned Ok leaves
\* one locked job behind for each claim loop at most, and none that was claimed before.
THEOREM OnlyLateClaims == Spec => []OnlyLateClaimsLeft
  <1>1. Init => Late
    BY DEF Init, Late, Released
  <1>2. ASSUME IInv, Late, [Next]_vars
        PROVE  Late'
    <2>1. CASE UNCHANGED vars
      BY <1>2, <2>1 DEF vars, Late, Released, LateOnly, Held, LoopsOf
    <2>2. CASE ~ UNCHANGED vars
      <3>1. Next /\ TableStep
        BY <1>2, <2>2, StepIInv
      <3>2. QED
        BY <1>2, <3>1, LateStep
    <2>3. QED
      BY <2>1, <2>2
  <1>3. Late => OnlyLateClaimsLeft
    BY DEF Late, Released, LateOnly, OnlyLateClaimsLeft, LoopsOf
  <1>4. QED
    BY <1>1, <1>2, <1>3, Invariance, PTL DEF Spec
=============================================================================
