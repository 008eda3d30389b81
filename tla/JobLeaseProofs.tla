--------------------------- MODULE JobLeaseProofs ---------------------------
(***************************************************************************)
(* JobQueue implements JobLease, for every value of the constants.         *)
(***************************************************************************)
EXTENDS JobQueueProofs

-----------------------------------------------------------------------------
(* The mapping, row by row *)

USE DEF Terminal, TerminalStatuses, Statuses

\* The part of the lease state that the table determines.
leaseTable == <<leaseState, leaseQueue, leaseKey, leaseHolder>>

\* A step that leaves the table alone leaves the leases alone.
LEMMA SameTable ==
    ASSUME UNCHANGED <<jobs, nextId>>
    PROVE  UNCHANGED leaseTable
  BY DEF leaseTable, leaseState, leaseQueue, leaseKey, leaseHolder

\* A step that leaves every loop where it is changes no work.
LEMMA SameWork ==
    ASSUME UNCHANGED loop
    PROVE  UNCHANGED leaseWork
  BY DEF leaseWork, Executing

\* A statement that changes one row changes the lease of that row alone.
LEMMA OneLease ==
    ASSUME IInv, NEW j \in DOMAIN jobs, NEW s, jobs' = [jobs EXCEPT ![j] = s],
           UNCHANGED nextId
    PROVE  /\ leaseState' = [leaseState EXCEPT ![j] = LeaseState(s)]
           /\ leaseQueue' = [leaseQueue EXCEPT ![j] = s.def.queue_name]
           /\ leaseKey' = [leaseKey EXCEPT ![j] = s.job_key]
           /\ leaseHolder' = [leaseHolder EXCEPT ![j] = s.locked_by]
           /\ j \in Jobs
           /\ leaseState[j] = LeaseState(jobs[j])
           /\ leaseQueue[j] = jobs[j].def.queue_name
           /\ leaseKey[j] = jobs[j].job_key
           /\ leaseHolder[j] = jobs[j].locked_by
  <1>1. /\ DOMAIN jobs' = DOMAIN jobs /\ jobs'[j] = s /\ j \in Jobs
        /\ \A i \in DOMAIN jobs \ {j} : jobs'[i] = jobs[i]
    BY DEF IInv, TypeOK
  <1>2. leaseState' = [leaseState EXCEPT ![j] = LeaseState(s)]
    BY <1>1 DEF leaseState
  <1>3. leaseQueue' = [leaseQueue EXCEPT ![j] = s.def.queue_name]
    BY <1>1 DEF leaseQueue
  <1>4. leaseKey' = [leaseKey EXCEPT ![j] = s.job_key]
    BY <1>1 DEF leaseKey
  <1>5. leaseHolder' = [leaseHolder EXCEPT ![j] = s.locked_by]
    BY <1>1 DEF leaseHolder
  <1>6. QED
    BY <1>1, <1>2, <1>3, <1>4, <1>5 DEF leaseState, leaseQueue, leaseKey, leaseHolder

\* A statement that requeues running rows revokes their leases.
LEMMA RevokedLeases ==
    ASSUME IInv, NEW S, \A j \in S : j \in DOMAIN jobs /\ jobs[j].status = "running",
           jobs' = RequeueAll(jobs, S, now), UNCHANGED <<nextId, loop>>
    PROVE  Lease!Revoke(S) /\ S \subseteq Jobs
  <1>1. /\ DOMAIN jobs \subseteq Jobs /\ now \in Nat
        /\ \A j \in DOMAIN jobs : jobs[j] \in Row
    BY DEF IInv, TypeOK
  <1>2. /\ DOMAIN jobs' = DOMAIN jobs
        /\ \A j \in DOMAIN jobs : jobs'[j] = IF j \in S THEN Requeued(jobs[j], now) ELSE jobs[j]
    BY DEF RequeueAll
  <1>3. \A j \in S : /\ jobs'[j].status = "queued" /\ jobs'[j].locked_by = NULL
                     /\ jobs'[j].job_key = jobs[j].job_key /\ jobs'[j].def = jobs[j].def
    BY <1>1, <1>2, RequeuedOK
  <1>4. \A j \in S : leaseState[j] = "leased"
    BY <1>1 DEF leaseState, LeaseState
  <1>5. leaseState' = [j \in Jobs |-> IF j \in S THEN "waiting" ELSE leaseState[j]]
    BY <1>1, <1>2, <1>3 DEF leaseState, LeaseState
  <1>6. leaseHolder' = [j \in Jobs |-> IF j \in S THEN NULL ELSE leaseHolder[j]]
    BY <1>1, <1>2, <1>3 DEF leaseHolder
  <1>7. UNCHANGED leaseQueue /\ UNCHANGED leaseKey
    BY <1>2, <1>3 DEF leaseQueue, leaseKey
  <1>8. QED
    BY <1>1, <1>4, <1>5, <1>6, <1>7, SameWork DEF Lease!Revoke

\* Changing one loop changes the work of that loop alone.
LEMMA OneWork ==
    ASSUME IInv, NEW l \in Loops, NEW x, loop' = [loop EXCEPT ![l] = x]
    PROVE  leaseWork' = [leaseWork EXCEPT ![l] =
              IF x.pc \in {"running", "completing", "failing"} THEN x.job ELSE NULL]
  BY DEF IInv, TypeOK, leaseWork, Executing

\* A loop that goes idle or asks again drops what it was executing.
LEMMA DroppedWork ==
    ASSUME IInv, NEW l \in Loops, NEW pc \in {"idle", "asking"},
           loop' = [loop EXCEPT ![l] = At(pc)]
    PROVE  leaseWork' = [leaseWork EXCEPT ![l] = NULL]
  BY OneWork DEF At

\* When it does so without touching the table, it abandons that work.
LEMMA Abandons ==
    ASSUME IInv, NEW l \in Loops, NEW pc \in {"idle", "asking"},
           loop' = [loop EXCEPT ![l] = At(pc)], UNCHANGED <<jobs, nextId>>
    PROVE  Lease!Abandon({l})
  <1>1. leaseWork' = [k \in Loops |-> IF k \in {l} THEN NULL ELSE leaseWork[k]]
    BY DroppedWork DEF leaseWork
  <1>2. QED
    BY <1>1, SameTable DEF Lease!Abandon, leaseTable

\* A key that no active row holds is free for its next job.
LEMMA FreeKey ==
    ASSUME IInv, NEW k, KeyHolders(jobs, k) = {}
    PROVE  Lease!KeyFree(k)
  BY DEF Lease!KeyFree, KeyHolders, Active, leaseState, leaseKey, LeaseState

\* A named queue that no running row holds is free for its next job.
LEMMA FreeQueue ==
    ASSUME IInv, NEW d, ~ QueueRunning(jobs, d)
    PROVE  Lease!QueueFree(d.queue_name)
  BY DEF Lease!QueueFree, QueueRunning, leaseState, leaseQueue, LeaseState,
         IInv, TypeOK, Row
-----------------------------------------------------------------------------
(* Every statement is a step on the leases, or none *)

LeaseStep == [Lease!LeaseNext]_(Lease!leaseVars)

\* A step that changes neither the table nor what loops execute.
LEMMA Stutters ==
    ASSUME UNCHANGED leaseTable, UNCHANGED leaseWork
    PROVE  LeaseStep
  BY DEF LeaseStep, Lease!leaseVars, leaseTable

\* Enqueueing submits a job, amends the waiting one, or changes nothing.
LEMMA EnqueueLease ==
    ASSUME IInv, NEW d \in Defs, NEW k \in Keys \cup {NULL}, NEW mode, NEW at \in Nat,
           Enqueue(d, k, mode, at)
    PROVE  LeaseStep
  <1> DEFINE H == KeyHolders(jobs, k)
  <1>1. UNCHANGED leaseWork
    BY SameWork DEF Enqueue
  <1>2. \A i \in DOMAIN jobs : jobs[i] \in Row
    BY DEF IInv, TypeOK
  <1>3. d.queue_name \in Queues \cup {NULL}
    BY TableAssumption
  <1>4. CASE H # {}
    <2>1. PICK j \in DOMAIN jobs : j \in H
      BY <1>4 DEF KeyHolders
    <2>2. H = {j}
      BY <2>1 DEF IInv, ActiveKeyUnique, KeyHolders
    <2> DEFINE s == Upserted(jobs[j], d, mode, at)
    <2>3. jobs' = [jobs EXCEPT ![j] = s] /\ UNCHANGED nextId
      BY <1>4, <2>1, <2>2 DEF Enqueue, InsertJob, IInv, TypeOK
    <2>4. /\ leaseState' = [leaseState EXCEPT ![j] = LeaseState(s)]
          /\ leaseQueue' = [leaseQueue EXCEPT ![j] = s.def.queue_name]
          /\ leaseKey' = [leaseKey EXCEPT ![j] = s.job_key]
          /\ leaseHolder' = [leaseHolder EXCEPT ![j] = s.locked_by]
          /\ j \in Jobs
          /\ leaseState[j] = LeaseState(jobs[j])
          /\ leaseQueue[j] = jobs[j].def.queue_name
          /\ leaseKey[j] = jobs[j].job_key
          /\ leaseHolder[j] = jobs[j].locked_by
      BY <2>3, OneLease
    <2>5. CASE mode # "dedupe" /\ jobs[j].status = "queued"
      <3>1. /\ s.status = jobs[j].status /\ s.job_key = jobs[j].job_key
            /\ s.locked_by = jobs[j].locked_by /\ s.def = d
        BY <1>2, <2>5 DEF Upserted, Row
      <3>2. LeaseState(s) = LeaseState(jobs[j])
        BY <3>1 DEF LeaseState
      <3>3. /\ UNCHANGED leaseState /\ UNCHANGED leaseKey /\ UNCHANGED leaseHolder
            /\ leaseQueue' = [leaseQueue EXCEPT ![j] = d.queue_name]
        <4>1. UNCHANGED leaseState
          BY <2>4, <3>2 DEF leaseState
        <4>2. UNCHANGED leaseKey
          BY <2>4, <3>1 DEF leaseKey
        <4>3. UNCHANGED leaseHolder
          BY <2>4, <3>1 DEF leaseHolder
        <4>4. QED
          BY <2>4, <3>1, <4>1, <4>2, <4>3
      <3>4. Lease!Amend(j, d.queue_name)
        BY <1>1, <2>4, <2>5, <3>3 DEF Lease!Amend, LeaseState
      <3>5. QED
        BY <1>3, <2>4, <3>4 DEF LeaseStep, Lease!LeaseNext
    <2>6. CASE ~ (mode # "dedupe" /\ jobs[j].status = "queued")
      <3>1. s = jobs[j]
        BY <2>6 DEF Upserted
      <3>2. UNCHANGED <<jobs, nextId>>
        BY <2>3, <3>1 DEF IInv, TypeOK
      <3>3. QED
        BY <1>1, <3>2, SameTable, Stutters
    <2>7. QED
      BY <2>5, <2>6
  <1>5. CASE H = {}
    <2> DEFINE n == NewRow(d, k, at)
    <2>1. nextId \in Jobs /\ nextId \notin DOMAIN jobs /\ nextId' = nextId + 1
      BY <1>5, QueueAssumption DEF Enqueue, IInv, TypeOK, Jobs
    <2>2. /\ DOMAIN jobs' = DOMAIN jobs \cup {nextId}
          /\ jobs'[nextId] = n
          /\ \A j \in DOMAIN jobs : jobs'[j] = jobs[j]
      BY <1>5, <2>1 DEF Enqueue, InsertJob
    <2>3. n.status = "queued" /\ n.job_key = k /\ n.locked_by = NULL /\ n.def = d
      BY DEF NewRow
    <2>4. \A j \in Jobs \ {nextId} : j < nextId' <=> j < nextId
      BY <2>1 DEF Jobs
    <2>5. leaseState' = [leaseState EXCEPT ![nextId] = "waiting"]
      BY <2>1, <2>2, <2>3, <2>4 DEF leaseState, LeaseState
    <2>6. leaseQueue' = [leaseQueue EXCEPT ![nextId] = d.queue_name]
      BY <2>1, <2>2, <2>3 DEF leaseQueue
    <2>7. leaseKey' = [leaseKey EXCEPT ![nextId] = k]
      BY <2>1, <2>2, <2>3 DEF leaseKey
    <2>8. UNCHANGED leaseHolder
      BY <2>1, <2>2, <2>3 DEF leaseHolder
    <2>9. leaseState[nextId] = "absent"
      BY <2>1 DEF leaseState, Jobs
    <2>10. Lease!Submit(nextId, d.queue_name, k)
      BY <1>1, <1>5, <2>5, <2>6, <2>7, <2>8, <2>9, FreeKey DEF Lease!Submit
    <2>11. QED
      BY <1>3, <2>1, <2>10 DEF LeaseStep, Lease!LeaseNext
  <1>6. QED
    BY <1>4, <1>5

\* Rewriting a row without changing its status, queue, key or owner is no step.
LEMMA SameLease ==
    ASSUME IInv, NEW j \in DOMAIN jobs, NEW s, jobs' = [jobs EXCEPT ![j] = s],
           UNCHANGED nextId, s.status = jobs[j].status, s.def = jobs[j].def,
           s.job_key = jobs[j].job_key, s.locked_by = jobs[j].locked_by
    PROVE  UNCHANGED leaseTable
  <1>1. /\ DOMAIN jobs' = DOMAIN jobs /\ jobs'[j] = s
        /\ \A i \in DOMAIN jobs \ {j} : jobs'[i] = jobs[i]
    BY DEF IInv, TypeOK
  <1>2. UNCHANGED leaseState
    BY <1>1 DEF leaseState, LeaseState
  <1>3. UNCHANGED leaseQueue /\ UNCHANGED leaseKey /\ UNCHANGED leaseHolder
    BY <1>1 DEF leaseQueue, leaseKey, leaseHolder
  <1>4. QED
    BY <1>2, <1>3 DEF leaseTable

\* An operator's decision on an unfinished job retires it.
LEMMA RetireLease ==
    ASSUME IInv, NEW j \in DOMAIN jobs, Active(jobs[j]), Terminal(jobs'[j]),
           jobs'[j].def = jobs[j].def, jobs'[j].job_key = jobs[j].job_key,
           jobs'[j].locked_by = NULL, jobs' = [jobs EXCEPT ![j] = jobs'[j]],
           UNCHANGED <<nextId, loop>>
    PROVE  Lease!Retire(j) /\ j \in Jobs
  <1>1. PICK s : s = jobs'[j]
    OBVIOUS
  <1>2. /\ leaseState' = [leaseState EXCEPT ![j] = LeaseState(s)]
        /\ leaseQueue' = [leaseQueue EXCEPT ![j] = s.def.queue_name]
        /\ leaseKey' = [leaseKey EXCEPT ![j] = s.job_key]
        /\ leaseHolder' = [leaseHolder EXCEPT ![j] = s.locked_by]
        /\ j \in Jobs
        /\ leaseState[j] = LeaseState(jobs[j])
        /\ leaseQueue[j] = jobs[j].def.queue_name
        /\ leaseKey[j] = jobs[j].job_key
    BY <1>1, OneLease
  <1>3. LeaseState(s) = "finished" /\ leaseState[j] \in {"waiting", "leased"}
    BY <1>1, <1>2 DEF LeaseState, Active
  <1>4. UNCHANGED leaseQueue
    BY <1>1, <1>2 DEF leaseQueue
  <1>5. UNCHANGED leaseKey
    BY <1>1, <1>2 DEF leaseKey
  <1>6. QED
    BY <1>1, <1>2, <1>3, <1>4, <1>5, SameWork DEF Lease!Retire

\* Queue::retry resubmits a finished job.
LEMMA RetryLease ==
    ASSUME IInv, NEW j, Retry(j)
    PROVE  LeaseStep
  <1> DEFINE s == Reset(jobs[j], now)
  <1>1. /\ j \in DOMAIN jobs /\ jobs[j] \in Row /\ now \in Nat
        /\ jobs' = [jobs EXCEPT ![j] = s] /\ UNCHANGED <<nextId, loop>>
    BY DEF IInv, TypeOK, Retry, OnlyJobs
  <1>2. /\ s.status = "queued" /\ s.locked_by = NULL /\ s.job_key = jobs[j].job_key
        /\ s.def = jobs[j].def
    BY <1>1 DEF Reset, Row
  <1>3. /\ leaseState' = [leaseState EXCEPT ![j] = LeaseState(s)]
        /\ leaseQueue' = [leaseQueue EXCEPT ![j] = s.def.queue_name]
        /\ leaseKey' = [leaseKey EXCEPT ![j] = s.job_key]
        /\ leaseHolder' = [leaseHolder EXCEPT ![j] = s.locked_by]
        /\ j \in Jobs
        /\ leaseState[j] = LeaseState(jobs[j])
        /\ leaseQueue[j] = jobs[j].def.queue_name
        /\ leaseKey[j] = jobs[j].job_key
        /\ leaseHolder[j] = jobs[j].locked_by
    BY <1>1, OneLease
  <1>4. LeaseState(s) = "waiting" /\ leaseState[j] = "finished"
    BY <1>2, <1>3 DEF LeaseState, Retry
  <1>5. jobs[j].locked_by = NULL
    BY <1>1 DEF Retry, IInv, RowsConsistent, RowConsistent
  <1>6. UNCHANGED leaseQueue
    BY <1>2, <1>3 DEF leaseQueue
  <1>7. UNCHANGED leaseKey
    BY <1>2, <1>3 DEF leaseKey
  <1>8. UNCHANGED leaseHolder
    BY <1>2, <1>3, <1>5 DEF leaseHolder
  <1>9. Lease!KeyFree(leaseKey[j])
    BY <1>3, FreeKey DEF Retry
  <1>10. Lease!Resubmit(j)
    BY <1>1, <1>3, <1>4, <1>6, <1>7, <1>8, <1>9, SameWork DEF Lease!Resubmit
  <1>11. QED
    BY <1>3, <1>10 DEF LeaseStep, Lease!LeaseNext

\* Pruning forgets finished jobs.
LEMMA PruneLease ==
    ASSUME IInv, PruneFinished
    PROVE  LeaseStep
  <1> DEFINE S == Expired(jobs, now, Retain)
  <1>1. jobs' = DeleteAll(jobs, S) /\ UNCHANGED <<nextId, loop>>
    BY DEF PruneFinished, OnlyJobs
  <1>2. /\ DOMAIN jobs \subseteq Jobs
        /\ \A j \in DOMAIN jobs : j < nextId
    BY DEF IInv, TypeOK
  <1>3. \A j \in S : /\ j \in DOMAIN jobs
                     /\ LeaseState(jobs[j]) = "finished"
                     /\ jobs[j].locked_by = NULL
    BY DEF Expired, LeaseState, IInv, RowsConsistent, RowConsistent
  <1>4. DOMAIN jobs' = DOMAIN jobs \ S /\ \A j \in DOMAIN jobs' : jobs'[j] = jobs[j]
    BY <1>1 DEF DeleteAll
  <1>5. \A j \in S : leaseState[j] = "finished"
    BY <1>2, <1>3 DEF leaseState
  <1>6. leaseState' = [j \in Jobs |-> IF j \in S THEN "pruned" ELSE leaseState[j]]
    BY <1>1, <1>2, <1>3, <1>4 DEF leaseState
  <1>7. leaseQueue' = [j \in Jobs |-> IF j \in S THEN NULL ELSE leaseQueue[j]]
    BY <1>3, <1>4 DEF leaseQueue
  <1>8. leaseKey' = [j \in Jobs |-> IF j \in S THEN NULL ELSE leaseKey[j]]
    BY <1>3, <1>4 DEF leaseKey
  <1>9. UNCHANGED leaseHolder
    BY <1>3, <1>4 DEF leaseHolder
  <1>10. Lease!Prune(S)
    BY <1>1, <1>5, <1>6, <1>7, <1>8, <1>9, SameWork DEF Lease!Prune
  <1>11. S \in SUBSET Jobs
    BY <1>2, <1>3
  <1>12. QED
    BY <1>10, <1>11 DEF LeaseStep, Lease!LeaseNext

\* Requeueing running rows revokes their leases.
LEMMA RevokeLease ==
    ASSUME IInv, NEW S, \A j \in S : j \in DOMAIN jobs /\ jobs[j].status = "running",
           jobs' = RequeueAll(jobs, S, now), UNCHANGED <<nextId, loop>>
    PROVE  LeaseStep
  BY RevokedLeases DEF LeaseStep, Lease!LeaseNext

\* The Queue API acts on leases.
LEMMA ApiLease ==
    ASSUME IInv, ApiStep
    PROVE  LeaseStep
  <1>1. now \in Nat /\ \A j \in DOMAIN jobs : jobs[j] \in Row
    BY DEF IInv, TypeOK
  <1>2. ASSUME NEW q \in Requests, NEW at \in 0..(now + MaxDelay),
               Enqueue(q.def, q.job_key, q.mode, at)
        PROVE  LeaseStep
    <2>1. q.def \in Defs /\ q.job_key \in Keys \cup {NULL} /\ at \in Nat
      BY <1>1, QueueAssumption
    <2>2. QED
      BY <1>2, <2>1, EnqueueLease
  <1>3. ASSUME NEW j \in Jobs, Cancel(j)
        PROVE  LeaseStep
    <2> DEFINE s == Cancelled(jobs[j], now)
    <2>1. /\ j \in DOMAIN jobs /\ jobs[j].status = "queued" /\ jobs[j].locked_by = NULL
          /\ jobs' = [jobs EXCEPT ![j] = s] /\ UNCHANGED <<nextId, loop>>
      BY <1>3 DEF Cancel, OnlyJobs, IInv, RowsConsistent, RowConsistent
    <2>2. /\ s.status = "cancelled" /\ s.def = jobs[j].def /\ s.job_key = jobs[j].job_key
          /\ s.locked_by = NULL
      BY <1>1, <2>1 DEF Cancelled, Row
    <2>3. Active(jobs[j]) /\ Terminal(s) /\ jobs'[j] = s
      BY <2>1, <2>2 DEF Active
    <2> HIDE DEF s
    <2>4. Lease!Retire(j)
      BY <2>1, <2>2, <2>3, RetireLease
    <2>5. QED
      BY <2>4 DEF LeaseStep, Lease!LeaseNext
  <1>4. ASSUME NEW j \in Jobs, Retry(j)
        PROVE  LeaseStep
    BY <1>4, RetryLease
  <1>5. ASSUME NEW j \in Jobs, PermanentlyFail(j) \/ Complete(j)
        PROVE  LeaseStep
    <2>1. PICK status \in {"succeeded", "failed"} :
             jobs' = [jobs EXCEPT ![j] = Finished(jobs[j], status, now)]
      BY <1>5 DEF PermanentlyFail, Complete
    <2> DEFINE s == Finished(jobs[j], status, now)
    <2>2. j \in DOMAIN jobs /\ Active(jobs[j]) /\ UNCHANGED <<nextId, loop>>
      BY <1>5 DEF PermanentlyFail, Complete, OnlyJobs
    <2>3. /\ Terminal(s) /\ s.def = jobs[j].def /\ s.job_key = jobs[j].job_key
          /\ s.locked_by = NULL
      BY <1>1, <2>1, <2>2 DEF Finished, Row
    <2> HIDE DEF s
    <2>4. jobs' = [jobs EXCEPT ![j] = s] /\ jobs'[j] = s
      BY <2>1, <2>2 DEF s
    <2>5. Lease!Retire(j)
      BY <2>2, <2>3, <2>4, RetireLease
    <2>6. QED
      BY <2>5 DEF LeaseStep, Lease!LeaseNext
  <1>6. ASSUME NEW j \in Jobs, NEW at \in 0..(now + MaxDelay), Reschedule(j, at)
        PROVE  LeaseStep
    <2> DEFINE s == [jobs[j] EXCEPT !.run_at = at]
    <2>1. j \in DOMAIN jobs /\ jobs' = [jobs EXCEPT ![j] = s] /\ UNCHANGED <<nextId, loop>>
      BY <1>6 DEF Reschedule, OnlyJobs
    <2>2. /\ s.status = jobs[j].status /\ s.def = jobs[j].def
          /\ s.job_key = jobs[j].job_key /\ s.locked_by = jobs[j].locked_by
      BY <1>1, <2>1 DEF Row
    <2>3. QED
      BY <2>1, <2>2, SameLease, SameWork, Stutters
  <1>7. CASE PruneFinished
    BY <1>7, PruneLease
  <1>8. ASSUME NEW w \in WorkerIds, ForceUnlockWorker(w)
        PROVE  LeaseStep
    BY <1>8, RevokeLease DEF ForceUnlockWorker, LockedBy
  <1>9. QED
    BY <1>2, <1>3, <1>4, <1>5, <1>6, <1>7, <1>8 DEF ApiStep

\* The two steps of claim_next are one Grant; reports settle, losses abandon.
LEMMA LoopLease ==
    ASSUME IInv, NEW l \in Loops, LoopStep(l)
    PROVE  LeaseStep
  <1> DEFINE j == loop[l].job
  <1>1. now \in Nat /\ \A i \in DOMAIN jobs : jobs[i] \in Row
    BY DEF IInv, TypeOK
  <1>2. ASSUME NEW pc \in {"idle", "asking"}, loop' = [loop EXCEPT ![l] = At(pc)],
               UNCHANGED <<jobs, nextId>>
        PROVE  LeaseStep
    <2>1. Lease!Abandon({l})
      BY <1>2, Abandons
    <2>2. QED
      BY <2>1 DEF LeaseStep, Lease!LeaseNext
  <1>3. CASE AskForJob(l) \/ ClaimNothing(l) \/ ReportFails(l)
    BY <1>2, <1>3 DEF AskForJob, ClaimNothing, ReportFails
  <1>4. CASE ClaimSelect(l)
    <2>1. PICK i : loop' = [loop EXCEPT ![l] = [At("claiming") EXCEPT !.job = i]]
      BY <1>4 DEF ClaimSelect
    <2> DEFINE x == [At("claiming") EXCEPT !.job = i]
    <2>2. x.pc = "claiming" /\ loop' = [loop EXCEPT ![l] = x]
      BY <2>1 DEF At
    <2> HIDE DEF x
    <2>3. leaseWork' = [leaseWork EXCEPT ![l] = NULL]
      BY <2>2, OneWork
    <2>4. leaseWork[l] = NULL
      BY <1>4 DEF leaseWork, Executing, ClaimSelect
    <2>5. UNCHANGED leaseWork
      BY <2>3, <2>4 DEF leaseWork
    <2>6. QED
      BY <1>4, <2>5, SameTable, Stutters DEF ClaimSelect
  <1>5. CASE ClaimCommit(l)
    <2> DEFINE r == Claimed(jobs[j], l, now)
               started == [pc |-> "running", job |-> j, attempt |-> r.attempt, def |-> r.def]
    <2>1. /\ j \in DOMAIN jobs /\ jobs[j].status = "queued" /\ loop[l].pc = "claiming"
          /\ jobs' = [jobs EXCEPT ![j] = r] /\ UNCHANGED nextId
      BY <1>5 DEF ClaimCommit, IInv, RowLocksHeld
    <2>2. /\ r.status = "running" /\ r.locked_by = l
          /\ r.job_key = jobs[j].job_key /\ r.def = jobs[j].def
      BY <1>1, <2>1, ClaimedOK DEF Loops
    <2>3. /\ leaseState' = [leaseState EXCEPT ![j] = LeaseState(r)]
          /\ leaseQueue' = [leaseQueue EXCEPT ![j] = r.def.queue_name]
          /\ leaseKey' = [leaseKey EXCEPT ![j] = r.job_key]
          /\ leaseHolder' = [leaseHolder EXCEPT ![j] = r.locked_by]
          /\ j \in Jobs
          /\ leaseState[j] = LeaseState(jobs[j])
          /\ leaseQueue[j] = jobs[j].def.queue_name
          /\ leaseKey[j] = jobs[j].job_key
      BY <2>1, OneLease
    <2>4. LeaseState(r) = "leased" /\ leaseState[j] = "waiting"
      BY <2>1, <2>2, <2>3 DEF LeaseState
    <2>5. UNCHANGED leaseQueue
      BY <2>2, <2>3 DEF leaseQueue
    <2>6. UNCHANGED leaseKey
      BY <2>2, <2>3 DEF leaseKey
    <2>7. leaseWork[l] = NULL
      BY <2>1 DEF leaseWork, Executing
    <2>8. leaseWork' \in {leaseWork, [leaseWork EXCEPT ![l] = j]}
      <3>1. CASE loop' = [loop EXCEPT ![l] = started]
        BY <3>1, OneWork
      <3>2. CASE loop' = [loop EXCEPT ![l] = At("idle")]
        <4>1. leaseWork' = [leaseWork EXCEPT ![l] = NULL]
          BY <3>2, DroppedWork
        <4>2. QED
          BY <2>7, <4>1 DEF leaseWork
      <3>3. QED
        BY <1>5, <3>1, <3>2 DEF ClaimCommit
    <2>9. Lease!QueueFree(leaseQueue[j])
      BY <1>5, <2>3, FreeQueue DEF ClaimCommit
    <2>10. Lease!Grant(j, l)
      BY <2>2, <2>3, <2>4, <2>5, <2>6, <2>7, <2>8, <2>9 DEF Lease!Grant
    <2>11. QED
      BY <2>3, <2>10 DEF LeaseStep, Lease!LeaseNext
  <1>6. CASE HandlerReturns(l)
    <2>1. PICK pc \in {"completing", "failing"} : loop' = [loop EXCEPT ![l].pc = pc]
      BY <1>6 DEF HandlerReturns
    <2> DEFINE x == [loop[l] EXCEPT !.pc = pc]
    <2>2. x.pc = pc /\ x.job = j /\ loop' = [loop EXCEPT ![l] = x]
      BY <2>1 DEF IInv, TypeOK, Loop
    <2> HIDE DEF x
    <2>3. leaseWork' = [leaseWork EXCEPT ![l] = j]
      BY <2>1, <2>2, OneWork
    <2>4. leaseWork[l] = j
      BY <1>6 DEF leaseWork, Executing, HandlerReturns
    <2>5. UNCHANGED leaseWork
      BY <2>3, <2>4 DEF leaseWork
    <2>6. QED
      BY <1>6, <2>5, SameTable, Stutters DEF HandlerReturns
  <1>7. CASE RenewLock(l)
    <2>1. CASE UNCHANGED jobs /\ loop' = [loop EXCEPT ![l] = At("idle")]
      BY <1>2, <1>7, <2>1 DEF RenewLock
    <2>2. CASE /\ UNCHANGED loop /\ HoldsLock(l)
               /\ jobs' = [jobs EXCEPT ![j].locked_at = now]
      <3> DEFINE s == [jobs[j] EXCEPT !.locked_at = now]
      <3>1. j \in DOMAIN jobs /\ jobs' = [jobs EXCEPT ![j] = s] /\ UNCHANGED nextId
        BY <1>7, <2>2 DEF HoldsLock, RenewLock
      <3>2. /\ s.status = jobs[j].status /\ s.def = jobs[j].def
            /\ s.job_key = jobs[j].job_key /\ s.locked_by = jobs[j].locked_by
        BY <1>1, <3>1 DEF Row
      <3>3. QED
        BY <2>2, <3>1, <3>2, SameLease, SameWork, Stutters
    <2>3. QED
      BY <1>7, <2>1, <2>2 DEF RenewLock
  <1>8. CASE CompleteLocked(l) \/ FailLocked(l)
    <2>1. loop' = [loop EXCEPT ![l] = At("idle")] /\ UNCHANGED nextId
      BY <1>8 DEF CompleteLocked, FailLocked
    <2>2. CASE ~ HoldsLock(l)
      BY <1>2, <1>8, <2>1, <2>2 DEF CompleteLocked, FailLocked
    <2>3. CASE HoldsLock(l)
      <3>1. j \in DOMAIN jobs /\ jobs[j].locked_by = l
        BY <2>3 DEF HoldsLock
      <3>2. PICK s : /\ jobs' = [jobs EXCEPT ![j] = s]
                     /\ \/ \E t \in {"succeeded", "failed"} : s = Finished(jobs[j], t, now)
                        \/ s = Requeued(jobs[j], now + RetryDelay(jobs[j]))
        BY <1>8, <2>3 DEF CompleteLocked, FailLocked
      <3>3. /\ s.status \in {"queued", "succeeded", "failed"} /\ s.locked_by = NULL
            /\ s.def = jobs[j].def /\ s.job_key = jobs[j].job_key
        BY <1>1, <3>1, <3>2 DEF Finished, Requeued, Row
      <3>4. /\ leaseState' = [leaseState EXCEPT ![j] = LeaseState(s)]
            /\ leaseQueue' = [leaseQueue EXCEPT ![j] = s.def.queue_name]
            /\ leaseKey' = [leaseKey EXCEPT ![j] = s.job_key]
            /\ leaseHolder' = [leaseHolder EXCEPT ![j] = s.locked_by]
            /\ j \in Jobs
            /\ leaseQueue[j] = jobs[j].def.queue_name
            /\ leaseKey[j] = jobs[j].job_key
            /\ leaseHolder[j] = jobs[j].locked_by
        BY <2>1, <3>1, <3>2, OneLease
      <3>5. LeaseState(s) \in {"waiting", "finished"}
        BY <3>3 DEF LeaseState
      <3>6. UNCHANGED leaseQueue
        BY <3>3, <3>4 DEF leaseQueue
      <3>7. UNCHANGED leaseKey
        BY <3>3, <3>4 DEF leaseKey
      <3>8. leaseWork' = [leaseWork EXCEPT ![l] = NULL] /\ leaseWork[l] = j
        BY <1>8, <2>1, DroppedWork DEF leaseWork, Executing, CompleteLocked, FailLocked
      <3>9. Lease!Settle(l)
        BY <3>1, <3>3, <3>4, <3>5, <3>6, <3>7, <3>8 DEF Lease!Settle
      <3>10. QED
        BY <3>9 DEF LeaseStep, Lease!LeaseNext
    <2>4. QED
      BY <2>2, <2>3
  <1>9. CASE LoopExits(l)
    BY <1>9, SameTable, SameWork, Stutters DEF LoopExits
  <1>10. QED
    BY <1>3, <1>4, <1>5, <1>6, <1>7, <1>8, <1>9 DEF LoopStep

\* A worker process revokes leases or abandons work.
LEMMA ProcLease ==
    ASSUME IInv, NEW p \in Procs, ProcStep(p)
    PROVE  LeaseStep
  <1>1. CASE \/ Start(p) \/ Heartbeat(p) \/ RequestShutdown(p) \/ Drained(p)
             \/ DeregisterWorker(p)
    <2>1. UNCHANGED <<jobs, nextId, loop>>
      BY <1>1 DEF Start, Heartbeat, RequestShutdown, Drained, DeregisterWorker
    <2>2. QED
      BY <2>1, SameTable, SameWork, Stutters
  <1>2. CASE RecoverDeadWorkers(p)
    <2>1. \A j \in UNION {LockedBy(w) : w \in Silent} :
             j \in DOMAIN jobs /\ jobs[j].status = "running"
      BY DEF LockedBy
    <2>2. QED
      BY <1>2, <2>1, RevokeLease DEF RecoverDeadWorkers
  <1>3. CASE RecoverStale(p)
    BY <1>3, RevokeLease DEF RecoverStale, OnlyJobs, StaleLocks
  <1>4. CASE ReleaseWorkerJobs(p)
    <2>1. CASE jobs' = RequeueAll(jobs, LockedBy(IdOf[p]), now)
      BY <1>4, <2>1, RevokeLease DEF ReleaseWorkerJobs, LockedBy
    <2>2. CASE UNCHANGED jobs
      BY <1>4, <2>2, SameTable, SameWork, Stutters DEF ReleaseWorkerJobs
    <2>3. QED
      BY <1>4, <2>1, <2>2 DEF ReleaseWorkerJobs
  <1>5. CASE AbortTasks(p) \/ Crash(p)
    <2> DEFINE S == {l \in Loops : Home[l] = p /\ loop[l].pc = "running"}
    <2>1. UNCHANGED <<jobs, nextId>> /\ EndLoops(p)
      BY <1>5 DEF AbortTasks, Crash
    <2>2. \A l \in Loops : loop'[l] = IF l \in S THEN At("idle") ELSE loop[l]
      BY <2>1 DEF EndLoops
    <2>3. leaseWork' = [l \in Loops |-> IF l \in S THEN NULL ELSE leaseWork[l]]
      BY <2>2 DEF leaseWork, Executing, At
    <2>4. Lease!Abandon(S)
      BY <2>1, <2>3, SameTable DEF Lease!Abandon, leaseTable
    <2>5. S \in SUBSET Loops
      OBVIOUS
    <2>6. QED
      BY <2>4, <2>5 DEF LeaseStep, Lease!LeaseNext
  <1>6. QED
    BY <1>1, <1>2, <1>3, <1>4, <1>5 DEF ProcStep
-----------------------------------------------------------------------------
(* The refinement *)

\* The empty tables are a state without jobs.
LEMMA InitLease == Init => Lease!LeaseInit
  <1>1. SUFFICES ASSUME Init PROVE Lease!LeaseInit
    OBVIOUS
  <1>2. DOMAIN jobs = {} /\ nextId = 1
    BY <1>1 DEF Init
  <1>3. leaseState = [j \in Jobs |-> "absent"]
    BY <1>2, QueueAssumption DEF leaseState, Jobs
  <1>4. /\ leaseQueue = [j \in Jobs |-> NULL]
        /\ leaseKey = [j \in Jobs |-> NULL]
        /\ leaseHolder = [j \in Jobs |-> NULL]
    BY <1>2 DEF leaseQueue, leaseKey, leaseHolder
  <1>5. leaseWork = [l \in Loops |-> NULL]
    BY <1>1 DEF Init, leaseWork, Executing, At
  <1>6. QED
    BY <1>3, <1>4, <1>5 DEF Lease!LeaseInit

\* Every step of the queue is a step on the leases, or none.
LEMMA NextLease == IInv /\ [Next]_vars => LeaseStep
  <1>1. SUFFICES ASSUME IInv, [Next]_vars PROVE LeaseStep
    OBVIOUS
  <1>2. CASE Tick \/ UNCHANGED vars
    <2>1. UNCHANGED <<jobs, nextId, loop>>
      BY <1>2 DEF Tick, vars
    <2>2. QED
      BY <2>1, SameTable, SameWork, Stutters
  <1>3. CASE ApiStep
    BY <1>1, <1>3, ApiLease
  <1>4. CASE \E l \in Loops : LoopStep(l)
    BY <1>1, <1>4, LoopLease
  <1>5. CASE \E p \in Procs : ProcStep(p)
    BY <1>1, <1>5, ProcLease
  <1>6. QED
    BY <1>1, <1>2, <1>3, <1>4, <1>5 DEF Next

\* The queue implements the leases: a claim is indivisible and exclusive, only the
\* holder of a lock settles a job, and no job is lost.
THEOREM QueueImplementsLease == Spec => ImplementsLease
  BY Invariance, InitLease, NextLease, PTL
     DEF Spec, ImplementsLease, Lease!LeaseSpec, LeaseStep
=============================================================================
