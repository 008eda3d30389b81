---------------------------- MODULE BatchEnqueue ----------------------------
(***************************************************************************)
(* Queue::enqueue_many, enqueue_many_in and insert_job_batch: a batch is   *)
(* upserted in one statement per job key mode, row by row, in a            *)
(* transaction or a savepoint, while other transactions and workers use    *)
(* the same keys and rows.                                                 *)
(*                                                                         *)
(* PostgreSQL's part, from how the code uses it: a row written and a key   *)
(* inserted stay locked until the transaction ends; an upsert waits for    *)
(* the transaction that holds the key or the row; a claim skips a locked   *)
(* row and a report waits for it; the deadlock detector fails a statement. *)
(***************************************************************************)
EXTENDS JobTable, SequencesExt

CONSTANTS
    Callers,     \* transactions that enqueue batches
    Own,         \* those of enqueue_many; the others are the callers of enqueue_many_in
    Batches,     \* what they enqueue: sequences of [def, job_key, mode, run_at]
    Tables,      \* the tables they find
    MaxCalls     \* bound: how many calls each of them makes

ASSUME BatchAssumption ==
    /\ Own \subseteq Callers /\ MaxCalls \in [Callers -> Nat]
    /\ Batches \subseteq Seq([def : Defs, job_key : Keys \cup {NULL}, mode : Modes, run_at : Nat])
    /\ \A t \in Tables :
          /\ IsFiniteSet(DOMAIN t) /\ t \in [1..Cardinality(DOMAIN t) -> Row]
          /\ \A k \in Keys : Cardinality(KeyHolders(t, k)) <= 1

VARIABLES
    jobs,      \* pgspawn.jobs as committed
    nextId,    \* Uuid::new_v4: ids not handed out before
    caller     \* per caller: its transaction and its call

vars == <<jobs, nextId, caller>>

NoRows == [i \in {} |-> NULL]

\* wrote: the rows written and not committed; saved: those before the savepoint;
\* left: indices still to upsert; ids_by_job_key: as in the code; answered: calls that
\* returned Ok.
Idle(calls) == [pc |-> "idle", requests |-> <<>>, left |-> {}, wrote |-> NoRows,
                saved |-> NoRows, ids_by_job_key |-> NoRows, answered |-> <<>>, calls |-> calls]

TypeOK ==
    /\ DOMAIN jobs \subseteq 1..(nextId - 1)
    /\ \A i \in DOMAIN jobs : jobs[i] \in Row
    /\ \A c \in Callers :
          /\ caller[c].pc \in {"idle", "inserting", "open"}
          /\ caller[c].left \subseteq DOMAIN caller[c].requests
          /\ DOMAIN caller[c].saved \subseteq DOMAIN caller[c].wrote
          /\ DOMAIN caller[c].wrote \subseteq 1..(nextId - 1)
          /\ caller[c].calls \in 0..MaxCalls[c]

Init ==
    /\ jobs \in Tables
    /\ nextId = Cardinality(DOMAIN jobs) + 1
    /\ caller = [c \in Callers |-> Idle(0)]
-----------------------------------------------------------------------------
(* insert_job_batch *)

DuplicateJobKey(batch) ==
    \E i, j \in DOMAIN batch : i # j /\ batch[i].job_key # NULL /\ batch[i].job_key = batch[j].job_key

\* Mutant: the indices are counted from zero.
IndicesFromZero(requests) == {i - 1 : i \in DOMAIN requests}

\* `requests.iter().enumerate()`.
Indices(requests) == DOMAIN requests

\* pool.begin or connection.begin, and the ids of the batch.
Begin(c, batch) ==
    LET requests == [i \in DOMAIN batch |->
                        [id |-> nextId + i - 1, def |-> batch[i].def, job_key |-> batch[i].job_key,
                         mode |-> batch[i].mode, run_at |-> batch[i].run_at]]
    IN  /\ caller[c].pc = "idle" \/ (caller[c].pc = "open" /\ c \notin Own)
        /\ caller[c].calls < MaxCalls[c]
        /\ batch # <<>> /\ ~ DuplicateJobKey(batch)
        /\ nextId' = nextId + Len(batch)
        /\ caller' = [caller EXCEPT ![c] =
              [@ EXCEPT !.pc = "inserting", !.requests = requests, !.left = Indices(requests),
                        !.saved = caller[c].wrote, !.ids_by_job_key = NoRows,
                        !.calls = caller[c].calls + 1]]
        /\ UNCHANGED jobs

\* An empty batch answers at once; a repeated key is refused before any statement.
Refuse(c, batch) ==
    /\ caller[c].pc = "idle" \/ (caller[c].pc = "open" /\ c \notin Own)
    /\ caller[c].calls < MaxCalls[c]
    /\ batch = <<>> \/ DuplicateJobKey(batch)
    /\ caller' = [caller EXCEPT ![c].calls = @ + 1]
    /\ UNCHANGED <<jobs, nextId>>

\* The table as c's transaction sees it.
View(c) == [i \in DOMAIN jobs \cup DOMAIN caller[c].wrote |->
               IF i \in DOMAIN caller[c].wrote THEN caller[c].wrote[i] ELSE jobs[i]]

Locked(i) == \E c \in Callers : i \in DOMAIN caller[c].wrote

Upserting(c) == caller[c].pc = "inserting" /\ caller[c].left # {}

\* `selected`: the indices of the requests of one mode.
Selected(c, mode) == {i \in caller[c].left : caller[c].requests[i].mode = mode}

\* One statement per mode, in this order.
Statement(c) ==
    IF Selected(c, "dedupe") # {} THEN Selected(c, "dedupe")
    ELSE IF Selected(c, "replace") # {} THEN Selected(c, "replace")
    ELSE Selected(c, "preserve_run_at")

\* The next row of the statement.
Turn(c) == LET S == Statement(c) IN {i \in S : \A j \in S : i <= j}

\* The transactions that c's upsert waits for: they hold its key or its row.
WaitsFor(c) ==
    {d \in Callers \ {c} : \E n \in Turn(c), i \in DOMAIN caller[d].wrote :
        /\ caller[c].requests[n].job_key # NULL
        /\ caller[d].wrote[i].job_key = caller[c].requests[n].job_key}

\* Request n of c is inserted, or updates the active job of its key.
UpsertRow(c, n) ==
    LET q     == caller[c].requests[n]
        after == InsertJob(View(c), q.id, q.def, q.job_key, q.mode, q.run_at)
        row   == IF q.job_key = NULL THEN q.id ELSE CHOOSE i \in KeyHolders(after, q.job_key) : TRUE
    IN  [caller[c] EXCEPT !.left = @ \ {n},
                          !.wrote = [i \in DOMAIN @ \cup {row} |-> after[i]],
                          !.ids_by_job_key = IF q.job_key = NULL THEN @
                                             ELSE [k \in DOMAIN @ \cup {q.job_key} |->
                                                      IF k = q.job_key THEN row ELSE @[k]]]

Upsert(c) ==
    /\ Upserting(c) /\ WaitsFor(c) = {}
    /\ \E n \in Turn(c) : caller' = [caller EXCEPT ![c] = UpsertRow(c, n)]
    /\ UNCHANGED <<jobs, nextId>>

\* `ordered_ids`.
OrderedIds(c) ==
    [i \in DOMAIN caller[c].requests |->
        LET q == caller[c].requests[i]
        IN  IF q.job_key = NULL THEN q.id ELSE caller[c].ids_by_job_key[q.job_key]]

\* insert_job_batch returns; enqueue_many_in releases its savepoint and answers.
Return(c) ==
    /\ caller[c].pc = "inserting" /\ caller[c].left = {}
    /\ caller' = [caller EXCEPT ![c] =
          [@ EXCEPT !.pc = "open", !.saved = NoRows, !.requests = <<>>, !.ids_by_job_key = NoRows,
                    !.answered = Append(caller[c].answered,
                                           [requests |-> caller[c].requests, ids |-> OrderedIds(c)])]]
    /\ UNCHANGED <<jobs, nextId>>

\* The commit of enqueue_many, or the one of enqueue_many_in's caller.
Commit(c) ==
    /\ caller[c].pc = "open"
    /\ jobs' = View(c)
    /\ caller' = [caller EXCEPT ![c] = Idle(@.calls)]
    /\ UNCHANGED nextId

\* The caller gives up, its future is dropped, or the connection is lost.
Rollback(c) ==
    /\ caller[c].pc # "idle"
    /\ caller' = [caller EXCEPT ![c] = Idle(@.calls)]
    /\ UNCHANGED <<jobs, nextId>>

\* Some of the transactions wait for each other, c among them.
Deadlocked(c) ==
    \E S \in SUBSET Callers : c \in S /\ \A d \in S : Upserting(d) /\ WaitsFor(d) \cap S # {}

\* Mutant: the error leaves the rows of the statements before it in the transaction.
FailedWithoutSavepoint(c) ==
    IF c \in Own THEN Idle(caller[c].calls)
    ELSE [caller[c] EXCEPT !.pc = "open", !.requests = <<>>, !.left = {}, !.saved = NoRows,
                           !.ids_by_job_key = NoRows]

\* Mutant: a failed batch is tried again.
FailedRetries(c) ==
    [caller[c] EXCEPT !.left = Indices(caller[c].requests), !.wrote = caller[c].saved,
                      !.ids_by_job_key = NoRows]

\* The error drops the transaction, or rolls back to the savepoint.
Failed(c) ==
    IF c \in Own THEN Idle(caller[c].calls)
    ELSE [caller[c] EXCEPT !.pc = "open", !.requests = <<>>, !.left = {}, !.wrote = caller[c].saved,
                           !.saved = NoRows, !.ids_by_job_key = NoRows]

\* A statement fails: a check constraint, or the deadlock detector.
Fail(c) ==
    /\ Upserting(c)
    /\ caller' = [caller EXCEPT ![c] = Failed(c)]
    /\ UNCHANGED <<jobs, nextId>>

ResolveDeadlock(c) == Deadlocked(c) /\ Fail(c)
-----------------------------------------------------------------------------
(* Workers: claim_next skips locked rows, a report waits for them *)

TakeJob(j) ==
    /\ j \in DOMAIN jobs /\ jobs[j].status = "queued" /\ ~ Locked(j)
    /\ jobs' = [jobs EXCEPT ![j].status = "running"]
    /\ UNCHANGED <<nextId, caller>>

FinishJob(j) ==
    /\ j \in DOMAIN jobs /\ jobs[j].status = "running" /\ ~ Locked(j)
    /\ jobs' = [jobs EXCEPT ![j] = Finished(@, "succeeded", 0)]
    /\ UNCHANGED <<nextId, caller>>

Next ==
    \/ \E c \in Callers : \/ \E batch \in Batches : Begin(c, batch) \/ Refuse(c, batch)
                          \/ Upsert(c) \/ Return(c) \/ Commit(c) \/ Rollback(c) \/ Fail(c)
    \/ \E j \in DOMAIN jobs : TakeJob(j) \/ FinishJob(j)

Spec == Init /\ [][Next]_vars

\* Statements execute, PostgreSQL resolves deadlocks, and a transaction whose calls have
\* returned is ended by its caller.
Fairness ==
    \A c \in Callers : /\ WF_vars(Upsert(c)) /\ WF_vars(Return(c))
                       /\ WF_vars(ResolveDeadlock(c))
                       /\ WF_vars(caller[c].pc = "open" /\ (Commit(c) \/ Rollback(c)))

FairSpec == Spec /\ Fairness
-----------------------------------------------------------------------------
(* Properties *)

Atomic == INSTANCE EnqueueMany WITH pending <- [c \in Callers |-> caller[c].answered]

\* "the whole batch is atomic: either every job is enqueued or none is" and ids come "in
\* request order" (README.md:296), "Job keys resolve against existing jobs exactly as a
\* single enqueue does" (README.md:317): although a batch is inserted statement by
\* statement in the order of the modes, with workers and other batches in between and
\* errors that undo a savepoint, it implements EnqueueMany.
AtomicBatches == Atomic!Spec

\* A call always ends, also when batches with crossing keys wait for each other: the
\* locks of the one that is failed free the others.
EveryCallEnds == \A c \in Callers : caller[c].pc = "inserting" ~> caller[c].pc # "inserting"
=============================================================================
