------------------------------ MODULE JobTable ------------------------------
(***************************************************************************)
(* The rows of pgspawn.jobs and the SET clauses and WHERE clauses of the   *)
(* SQL statements in src/queue.rs, as operators on a row r or a table t.   *)
(* A table is a function from the ids of the existing rows to their rows.  *)
(*                                                                         *)
(* Abstracted data: the columns that one CASE of the upsert overwrites     *)
(* together (name, payload, queue_name, priority, max_attempts) are one    *)
(* record, the definition `def`.  Error texts, started_at, queued_at and   *)
(* updated_at guard nothing and are left out.  created_at is the order of  *)
(* the ids, which are handed out in insertion order.  Time is a natural    *)
(* number of ticks.                                                        *)
(***************************************************************************)
EXTENDS Integers

CONSTANTS
    NULL,      \* SQL NULL
    Defs,      \* the job definitions callers enqueue
    Keys,      \* job keys
    Queues,    \* named queues
    Lockers,   \* the values of locked_by: one "worker_id:index:uuid" per claim loop
    Backoff    \* Backoff[n]: the ticks of exp(n) seconds

\* A definition has passed jobs_max_attempts_check; NULL is nobody's value.
ASSUME TableAssumption ==
    /\ NULL \notin Nat \cup Keys \cup Queues \cup Lockers \cup Defs
    /\ \A d \in Defs : /\ d.max_attempts \in Nat \ {0}
                       /\ d.queue_name \in Queues \cup {NULL}
                       /\ d.priority \in Int
    /\ Backoff \in [0..10 -> Nat]

Statuses == {"queued", "running", "succeeded", "failed", "cancelled"}

Row == [status      : Statuses,
        def         : Defs,
        job_key     : Keys \cup {NULL},
        run_at      : Nat,
        attempt     : Nat,
        locked_by   : Lockers \cup {NULL},
        locked_at   : Nat \cup {NULL},
        finished_at : Nat \cup {NULL}]

Modes == {"dedupe", "replace", "preserve_run_at"}

TerminalStatuses == {"succeeded", "failed", "cancelled"}

Active(r) == r.status \in {"queued", "running"}

Terminal(r) == r.status \in TerminalStatuses
-----------------------------------------------------------------------------
(* SET clauses *)

NewRow(d, k, at) ==
    [status |-> "queued", def |-> d, job_key |-> k, run_at |-> at, attempt |-> 0,
     locked_by |-> NULL, locked_at |-> NULL, finished_at |-> NULL]

\* Mutant: the upsert forgets that a running job's definition is frozen.
UpsertedWhileRunning(r, d, mode, at) ==
    IF mode # "dedupe"
    THEN [r EXCEPT !.def = d, !.run_at = IF mode = "replace" THEN at ELSE @]
    ELSE r

\* ON CONFLICT (job_key) DO UPDATE: only a queued job is overwritten, and only
\* `replace` moves its run_at.  attempt is kept under every mode.
Upserted(r, d, mode, at) ==
    IF mode # "dedupe" /\ r.status = "queued"
    THEN [r EXCEPT !.def = d, !.run_at = IF mode = "replace" THEN at ELSE @]
    ELSE r

Claimed(r, owner, at) ==
    [r EXCEPT !.status = "running", !.attempt = @ + 1, !.locked_by = owner,
              !.locked_at = at, !.finished_at = NULL]

\* Mutant: the lock columns survive the requeue.
RequeuedLocked(r, at) ==
    [r EXCEPT !.status = "queued", !.run_at = at]

\* Back to the queue without the lock: a failed attempt with retries left, a
\* released job, a recovered job.
Requeued(r, at) ==
    [r EXCEPT !.status = "queued", !.locked_by = NULL, !.locked_at = NULL, !.run_at = at]

\* To a terminal status, releasing the lock.
Finished(r, status, at) ==
    [r EXCEPT !.status = status, !.locked_by = NULL, !.locked_at = NULL, !.finished_at = at]

\* Queue::cancel leaves the (NULL) lock columns alone.
Cancelled(r, at) ==
    [r EXCEPT !.status = "cancelled", !.finished_at = at]

\* Queue::retry: a fresh attempt counter, runnable at once.
Reset(r, at) ==
    [r EXCEPT !.status = "queued", !.attempt = 0, !.run_at = at, !.locked_by = NULL,
              !.locked_at = NULL, !.finished_at = NULL]

\* exp(least(attempt, 10)) seconds, from the row's own attempt counter.
RetryDelay(r) == Backoff[IF r.attempt < 10 THEN r.attempt ELSE 10]
-----------------------------------------------------------------------------
(* WHERE clauses and the two partial unique indexes *)

\* The rows jobs_job_key_active_idx holds for key k (at most one).
KeyHolders(t, k) ==
    {i \in DOMAIN t : k # NULL /\ Active(t[i]) /\ t[i].job_key = k}

\* A row of jobs_queue_running_idx holds d's named queue.
QueueRunning(t, d) ==
    /\ d.queue_name # NULL
    /\ \E i \in DOMAIN t : /\ t[i].status = "running"
                           /\ t[i].def.queue_name = d.queue_name

\* The rows claim_next may pick for a worker that handles `names`.
Claimable(t, names, now) ==
    {i \in DOMAIN t : /\ t[i].status = "queued"
                      /\ t[i].run_at <= now
                      /\ t[i].def.name \in names
                      /\ ~ QueueRunning(t, t[i].def)}

\* ORDER BY priority, run_at, created_at.
Precedes(t, i, j) ==
    \/ t[i].def.priority < t[j].def.priority
    \/ /\ t[i].def.priority = t[j].def.priority
       /\ \/ t[i].run_at < t[j].run_at
          \/ t[i].run_at = t[j].run_at /\ i < j

\* LIMIT 1 of that order within S.
First(t, S) == {i \in S : \A j \in S \ {i} : Precedes(t, i, j)}

\* Locks not renewed within stale_after.
StaleLocks(t, now, staleAfter) ==
    {i \in DOMAIN t : /\ t[i].status = "running"
                      /\ t[i].locked_at # NULL
                      /\ t[i].locked_at + staleAfter < now}

\* Finished longer than retain_for ago.
Expired(t, now, retainFor) ==
    {i \in DOMAIN t : /\ Terminal(t[i])
                      /\ t[i].finished_at # NULL
                      /\ t[i].finished_at + retainFor < now}
-----------------------------------------------------------------------------
(* Statements over the table *)

\* INSERT ... ON CONFLICT (job_key) ... DO UPDATE, with `id` the fresh row's id.
InsertJob(t, id, d, k, mode, at) ==
    IF KeyHolders(t, k) # {}
    THEN [i \in DOMAIN t |-> IF i \in KeyHolders(t, k) THEN Upserted(t[i], d, mode, at)
                                                       ELSE t[i]]
    ELSE [i \in DOMAIN t \cup {id} |-> IF i = id THEN NewRow(d, k, at) ELSE t[i]]

\* UPDATE ... SET status = 'queued', locks NULL, run_at = now() WHERE id IN S.
RequeueAll(t, S, now) ==
    [i \in DOMAIN t |-> IF i \in S THEN Requeued(t[i], now) ELSE t[i]]

\* DELETE ... WHERE id IN S.
DeleteAll(t, S) == [i \in DOMAIN t \ S |-> t[i]]
=============================================================================
