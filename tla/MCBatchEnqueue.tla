--------------------------- MODULE MCBatchEnqueue ---------------------------
(***************************************************************************)
(* Small instances of BatchEnqueue for TLC.                                *)
(***************************************************************************)
EXTENDS BatchEnqueue

CONSTANTS c1, c2, k1, k2

Def(p) == [name |-> "a", payload |-> p, queue_name |-> NULL, priority |-> 0, max_attempts |-> 1]

MCDefs == {Def(1), Def(2)}

MCBackoff == [n \in 0..10 |-> 1]

Ask(p, k, mode, at) == [def |-> Def(p), job_key |-> k, mode |-> mode, run_at |-> at]

\* Crossing keys, all modes, a job without a key, a repeated key, and nothing.
MCBatches == {<<Ask(2, k2, "replace", 2), Ask(2, k1, "dedupe", 2)>>,
              <<Ask(1, k1, "preserve_run_at", 1), Ask(1, NULL, "replace", 1), Ask(1, k2, "dedupe", 1)>>,
              <<Ask(1, k1, "dedupe", 1), Ask(2, k1, "replace", 2)>>,
              <<>>}

\* enqueue_many_in is called twice in a transaction.
MCCalls == [c \in Callers |-> IF c \in Own THEN 1 ELSE 2]

\* A job that holds k1, which workers may take and finish.
MCTables == {[i \in {1} |-> NewRow(Def(1), k1, 0)]}
=============================================================================
