------------------------------ MODULE JobLease ------------------------------
(***************************************************************************)
(* What the job queue promises, without its SQL: a job is leased to one    *)
(* claim loop at a time; taking a lease is one indivisible step, which     *)
(* never gives one named queue to two jobs; only the holder of the lease   *)
(* settles the job; a lease that is revoked takes the right to settle with *)
(* it; and a job leaves the system only by a settlement, by an operator's  *)
(* decision or, once finished, by pruning.                                 *)
(***************************************************************************)
CONSTANTS NoOne, Ids, JobKeys, QueueNames, Holders

VARIABLES
    state,    \* of a job: absent, waiting, leased, finished, pruned
    queue,    \* its named queue, NoOne for none
    key,      \* its job key, NoOne for none
    holder,   \* the claim loop that holds its lease
    work      \* the job a claim loop is executing, NoOne when it is free

leaseVars == <<state, queue, key, holder, work>>

LeaseInit ==
    /\ state = [j \in Ids |-> "absent"]
    /\ queue = [j \in Ids |-> NoOne]
    /\ key = [j \in Ids |-> NoOne]
    /\ holder = [j \in Ids |-> NoOne]
    /\ work = [l \in Holders |-> NoOne]

KeyFree(k) == \A i \in Ids : state[i] \in {"waiting", "leased"} /\ key[i] = k => k = NoOne

QueueFree(q) == \A i \in Ids : state[i] = "leased" /\ queue[i] = q => q = NoOne

\* A caller enqueues under a key no unfinished job has.
Submit(j, q, k) ==
    /\ state[j] = "absent"
    /\ KeyFree(k)
    /\ state' = [state EXCEPT ![j] = "waiting"]
    /\ queue' = [queue EXCEPT ![j] = q]
    /\ key' = [key EXCEPT ![j] = k]
    /\ UNCHANGED <<holder, work>>

\* A caller overwrites a job that still waits.
Amend(j, q) ==
    /\ state[j] = "waiting"
    /\ queue' = [queue EXCEPT ![j] = q]
    /\ UNCHANGED <<state, key, holder, work>>

\* l takes the lease; it may die before it learns so.
Grant(j, l) ==
    /\ state[j] = "waiting"
    /\ QueueFree(queue[j])
    /\ work[l] = NoOne
    /\ state' = [state EXCEPT ![j] = "leased"]
    /\ holder' = [holder EXCEPT ![j] = l]
    /\ work' \in {work, [work EXCEPT ![l] = j]}
    /\ UNCHANGED <<queue, key>>

\* The holder, done with the job, finishes it or sends it back.
Settle(l) ==
    /\ work[l] \in Ids
    /\ holder[work[l]] = l
    /\ \E s \in {"waiting", "finished"} : state' = [state EXCEPT ![work[l]] = s]
    /\ holder' = [holder EXCEPT ![work[l]] = NoOne]
    /\ work' = [work EXCEPT ![l] = NoOne]
    /\ UNCHANGED <<queue, key>>

\* Loops stop executing and leave no trace in the table.
Abandon(S) ==
    /\ work' = [l \in Holders |-> IF l \in S THEN NoOne ELSE work[l]]
    /\ UNCHANGED <<state, queue, key, holder>>

\* Leases are taken away: recovery, release, force_unlock_worker.
Revoke(S) ==
    /\ \A j \in S : state[j] = "leased"
    /\ state' = [j \in Ids |-> IF j \in S THEN "waiting" ELSE state[j]]
    /\ holder' = [j \in Ids |-> IF j \in S THEN NoOne ELSE holder[j]]
    /\ UNCHANGED <<queue, key, work>>

\* An operator ends an unfinished job, leased or not.
Retire(j) ==
    /\ state[j] \in {"waiting", "leased"}
    /\ state' = [state EXCEPT ![j] = "finished"]
    /\ holder' = [holder EXCEPT ![j] = NoOne]
    /\ UNCHANGED <<queue, key, work>>

\* An operator sends a finished job back, if its key is still free.
Resubmit(j) ==
    /\ state[j] = "finished"
    /\ KeyFree(key[j])
    /\ state' = [state EXCEPT ![j] = "waiting"]
    /\ UNCHANGED <<queue, key, holder, work>>

\* Finished jobs are forgotten; their ids are not used again.
Prune(S) ==
    /\ \A j \in S : state[j] = "finished"
    /\ state' = [j \in Ids |-> IF j \in S THEN "pruned" ELSE state[j]]
    /\ queue' = [j \in Ids |-> IF j \in S THEN NoOne ELSE queue[j]]
    /\ key' = [j \in Ids |-> IF j \in S THEN NoOne ELSE key[j]]
    /\ UNCHANGED <<holder, work>>

LeaseNext ==
    \/ \E j \in Ids, q \in QueueNames \cup {NoOne}, k \in JobKeys \cup {NoOne} : Submit(j, q, k)
    \/ \E j \in Ids, q \in QueueNames \cup {NoOne} : Amend(j, q)
    \/ \E j \in Ids, l \in Holders : Grant(j, l)
    \/ \E l \in Holders : Settle(l)
    \/ \E S \in SUBSET Holders : Abandon(S)
    \/ \E S \in SUBSET Ids : Revoke(S) \/ Prune(S)
    \/ \E j \in Ids : Retire(j) \/ Resubmit(j)

LeaseSpec == LeaseInit /\ [][LeaseNext]_leaseVars
=============================================================================
