----------------------------- MODULE MCJobQueue -----------------------------
(***************************************************************************)
(* Small instances of JobQueue for TLC.                                    *)
(***************************************************************************)
EXTENDS JobQueue, TLC

CONSTANTS q1, k1, l1, l2, p1, p2, w1, w2

\* One definition in a named queue with two attempts.
MCSerial ==
    [name |-> "a", payload |-> 1, queue_name |-> q1, priority |-> 0, max_attempts |-> 2]

\* One definition outside every queue with a single attempt.
MCPlain ==
    [name |-> "a", payload |-> 2, queue_name |-> NULL, priority |-> 0, max_attempts |-> 1]

MCDefs == {MCSerial, MCPlain}

Ask(d, k, mode) == [def |-> d, job_key |-> k, mode |-> mode]

MCRequests == {Ask(MCSerial, k1, "dedupe"), Ask(MCPlain, k1, "replace"), Ask(MCSerial, NULL, "dedupe")}

MCKeyRequests == {Ask(MCSerial, k1, "dedupe"), Ask(MCPlain, k1, "replace")}

MCSerialRequests == {Ask(MCSerial, NULL, "dedupe")}

MCBackoff == [n \in 0..10 |-> 1]

\* One claim loop per process, and one worker_id per process.
MCHome == (l1 :> p1) @@ (l2 :> p2)
MCIdOf == (p1 :> w1) @@ (p2 :> w2)
\* Processes are interchangeable, each with its loops and its id.
ProcSymmetry ==
    {f \in Permutations({p1, p2, l1, l2, w1, w2}) :
        \A l \in Lockers : /\ f[l] \in Lockers
                           /\ f[Home[l]] = Home[f[l]]
                           /\ f[IdOf[Home[l]]] = IdOf[Home[f[l]]]}

MCHandles == [p \in Procs |-> {"a"}]

\* One process with two interchangeable claim loops (concurrency = 2).
MCOneHome == [l \in Lockers |-> p1]

\* One worker_id for every process: a single process, or a restart that overlaps
\* its predecessor under a fixed id.
MCSharedIdOf == [p \in Procs |-> w1]
-----------------------------------------------------------------------------
(* Two jobs under the whole Queue API; the processes stay up. *)
ApiNext ==
    \/ Tick
    \/ ApiStep
    \/ \E l \in Loops : LoopStep(l)
    \/ \E p \in Procs : Start(p) \/ RecoverStale(p)

ApiSpec == Init /\ [][ApiNext]_vars

(* Two jobs of one named queue under everything a process does; callers only *)
(* enqueue. *)
FleetNext ==
    \/ Tick
    \/ \E q \in Requests, at \in 0..(now + MaxDelay) : Enqueue(q.def, q.job_key, q.mode, at)
    \/ \E l \in Loops : LoopStep(l)
    \/ \E p \in Procs : ProcStep(p)

FleetSpec == Init /\ [][FleetNext]_vars
=============================================================================
