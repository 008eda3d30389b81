----------------------------- MODULE EnqueueMany -----------------------------
(***************************************************************************)
(* What a batch enqueue promises, and what BatchEnqueue is shown to        *)
(* implement: the calls of a transaction take effect together when it      *)
(* commits, or not at all; their requests resolve one after the other, in  *)
(* the order of the requests, as single enqueues do; and the ids a call    *)
(* answered name the jobs its requests ended up in.                        *)
(***************************************************************************)
EXTENDS JobTable, SequencesExt

CONSTANTS
    Callers    \* transactions that enqueue batches

VARIABLES
    jobs,      \* pgspawn.jobs
    pending    \* per caller: the answered calls of its open transaction

vars == <<jobs, pending>>

\* A request is [id, def, job_key, mode, run_at]; id is the one its new row would have.
EnqueueOne(t, q) == InsertJob(t, q.id, q.def, q.job_key, q.mode, q.run_at)

\* The job a request resolved to.
Resolved(t, q) == IF q.job_key = NULL THEN {q.id} ELSE KeyHolders(t, q.job_key)

EnqueueAll(t, requests) ==
    LET after[n \in 0..Len(requests)] ==
            IF n = 0 THEN t ELSE EnqueueOne(after[n - 1], requests[n])
    IN  after[Len(requests)]

AfterCalls(t, calls) ==
    LET after[n \in 0..Len(calls)] ==
            IF n = 0 THEN t ELSE EnqueueAll(after[n - 1], calls[n].requests)
    IN  after[Len(calls)]

DistinctKeys(requests) ==
    \A i, j \in DOMAIN requests :
        i # j /\ requests[i].job_key # NULL => requests[i].job_key # requests[j].job_key

\* The ids are right for the table in which the call's transaction commits.
RightIds(t, calls) ==
    \A n \in DOMAIN calls :
        /\ Len(calls[n].ids) = Len(calls[n].requests)
        /\ \A i \in DOMAIN calls[n].requests :
              calls[n].ids[i] \in Resolved(t, calls[n].requests[i])

Init == jobs \in [DOMAIN jobs -> Row] /\ pending = [c \in Callers |-> <<>>]

\* A call answers within the transaction of c.
Answer(c) ==
    /\ pending'[c] # <<>> /\ Front(pending'[c]) = pending[c]
    /\ DistinctKeys(Last(pending'[c]).requests)
    /\ pending' = [pending EXCEPT ![c] = pending'[c]]
    /\ UNCHANGED jobs

Commit(c) ==
    /\ jobs' = AfterCalls(jobs, pending[c])
    /\ RightIds(jobs', pending[c])
    /\ pending' = [pending EXCEPT ![c] = <<>>]

Rollback(c) ==
    /\ pending' = [pending EXCEPT ![c] = <<>>]
    /\ UNCHANGED jobs

\* Workers claim and finish jobs at any time.
TakeJob(j) ==
    /\ j \in DOMAIN jobs /\ jobs[j].status = "queued"
    /\ jobs' = [jobs EXCEPT ![j].status = "running"]
    /\ UNCHANGED pending

FinishJob(j) ==
    /\ j \in DOMAIN jobs /\ jobs[j].status = "running"
    /\ jobs' = [jobs EXCEPT ![j] = Finished(@, "succeeded", 0)]
    /\ UNCHANGED pending

Next ==
    \/ \E c \in Callers : Answer(c) \/ Commit(c) \/ Rollback(c)
    \/ \E j \in DOMAIN jobs : TakeJob(j) \/ FinishJob(j)

Spec == Init /\ [][Next]_vars
=============================================================================
