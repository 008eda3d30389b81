----------------------------- MODULE JobSummary -----------------------------
(***************************************************************************)
(* The lifecycle counters of a worker: the claim loops record what becomes *)
(* of their executions under a mutex, and the summary loop drains and logs *)
(* them once per interval.  A record is one step; a drain is one step; an  *)
(* execution spans statements of the queue, and emissions fall in between. *)
(*                                                                         *)
(* Left out: total_elapsed_ms, which moves with the endings, and the       *)
(* per-execution log lines.                                                *)
(***************************************************************************)
EXTENDS Integers, FiniteSets

CONSTANTS
    Loops,       \* claim loops
    Names,       \* job names with a handler
    NULL,
    MaxStarts    \* bound: executions of a name

ASSUME SummaryAssumption ==
    /\ IsFiniteSet(Loops)
    /\ NULL \notin Names
    /\ MaxStarts \in Nat

VARIABLES
    summaries,   \* the counters, per name; a name without an entry has the default one
    loop,        \* per claim loop: run_claimed_job
    shutdown,    \* the watch channel of the worker
    started,     \* executions ever started, per name
    shown,       \* the running gauge in the last emission's line, 0 without a line
    short,       \* executions that ended with no emission since their start, per name
    reported     \* sums of the logged counters, per name

vars == <<summaries, loop, shutdown, started, shown, short, reported>>

Default == [started |-> 0, succeeded |-> 0, retried |-> 0, permanent_failed |-> 0,
            abandoned |-> 0, running |-> 0]

Summary == [started : Nat, succeeded : Nat, retried : Nat, permanent_failed : Nat,
            abandoned : Nat, running : Nat]

\* failed is retried + permanent_failed.
Ended(s) == s.succeeded + s.retried + s.permanent_failed + s.abandoned

\* claiming: claim_next sent; executing; completing: the handler returned Ok and
\* complete_locked is under way;
\* failing: the failure is recorded and fail_locked is under way.
PCs == {"idle", "claiming", "executing", "completing", "failing", "aborted"}

IdleLoop == [pc |-> "idle", name |-> NULL, carried |-> FALSE]

TypeOK ==
    /\ summaries \in [Names -> Summary]
    /\ loop \in [Loops -> [pc : PCs, name : Names \cup {NULL}, carried : BOOLEAN]]
    /\ \A l \in Loops : loop[l].pc \notin {"idle", "claiming"} => loop[l].name \in Names
    /\ shutdown \in BOOLEAN
    /\ started \in [Names -> Nat] /\ shown \in [Names -> Nat] /\ short \in [Names -> Nat]
    /\ reported \in [Names -> [started : Nat, ended : Nat]]

Init ==
    /\ summaries = [n \in Names |-> Default]
    /\ loop = [l \in Loops |-> IdleLoop]
    /\ shutdown = FALSE
    /\ started = [n \in Names |-> 0] /\ shown = [n \in Names |-> 0] /\ short = [n \in Names |-> 0]
    /\ reported = [n \in Names |-> [started |-> 0, ended |-> 0]]
-----------------------------------------------------------------------------
\* saturating_sub(1).
Less(running) == IF running > 0 THEN running - 1 ELSE 0

record_job_started(s) == [s EXCEPT !.started = @ + 1, !.running = @ + 1]

\* Mutant: a success only ends the execution.
SuccessUncounted(s) == [s EXCEPT !.running = Less(@)]

record_job_succeeded(s) == [s EXCEPT !.succeeded = @ + 1, !.running = Less(@)]

record_job_failed(s, permanent) ==
    IF permanent THEN [s EXCEPT !.permanent_failed = @ + 1, !.running = Less(@)]
                 ELSE [s EXCEPT !.retried = @ + 1, !.running = Less(@)]

record_job_abandoned(s) == [s EXCEPT !.abandoned = @ + 1, !.running = Less(@)]

\* The shutdown flag is read, then claim_next is sent.
AskForJob(l) ==
    /\ loop[l].pc = "idle" /\ ~ shutdown
    /\ loop' = [loop EXCEPT ![l].pc = "claiming"]
    /\ UNCHANGED <<summaries, shutdown, started, shown, short, reported>>

\* It finds no job, fails, or claims one that has no handler here; or the loop is aborted.
ClaimNothing(l) ==
    /\ loop[l].pc = "claiming"
    /\ loop' = [loop EXCEPT ![l] = IdleLoop]
    /\ UNCHANGED <<summaries, shutdown, started, shown, short, reported>>

\* Mutant: the counter of a name that was never seen has no default.
StartUncounted(l, n) ==
    /\ loop[l].pc = "claiming"
    /\ started[n] < MaxStarts
    /\ summaries' = [summaries EXCEPT ![n].started = NULL]
    /\ started' = [started EXCEPT ![n] = @ + 1]
    /\ loop' = [loop EXCEPT ![l] = [pc |-> "executing", name |-> n, carried |-> FALSE]]
    /\ UNCHANGED <<shutdown, shown, short, reported>>

\* A job was claimed, perhaps after the shutdown request: run_claimed_job starts its handler.
Start(l, n) ==
    /\ loop[l].pc = "claiming"
    /\ started[n] < MaxStarts
    /\ summaries' = [summaries EXCEPT ![n] = record_job_started(@)]
    /\ started' = [started EXCEPT ![n] = @ + 1]
    /\ loop' = [loop EXCEPT ![l] = [pc |-> "executing", name |-> n, carried |-> FALSE]]
    /\ UNCHANGED <<shutdown, shown, short, reported>>

\* What every recorded ending does.
End(l, s, next) ==
    LET n == loop[l].name
    IN  /\ summaries' = [summaries EXCEPT ![n] = s]
        /\ short' = IF loop[l].carried THEN short ELSE [short EXCEPT ![n] = @ + 1]
        /\ loop' = [loop EXCEPT ![l] = next]
        /\ UNCHANGED <<shutdown, started, shown, reported>>

\* renew_lock finds the lock gone.
LoseLock(l) ==
    /\ loop[l].pc = "executing"
    /\ End(l, record_job_abandoned(summaries[loop[l].name]), IdleLoop)

\* The handler returns Ok; complete_locked is called.
HandlerSucceeds(l) ==
    /\ loop[l].pc = "executing"
    /\ loop' = [loop EXCEPT ![l].pc = "completing"]
    /\ UNCHANGED <<summaries, shutdown, started, shown, short, reported>>

\* complete_locked answers true.
Complete(l) ==
    /\ loop[l].pc = "completing"
    /\ End(l, record_job_succeeded(summaries[loop[l].name]), IdleLoop)

\* complete_locked answers false, or fails.
CompleteRefused(l) ==
    /\ loop[l].pc = "completing"
    /\ End(l, record_job_abandoned(summaries[loop[l].name]), IdleLoop)

\* The handler returns Err, panics or is aborted: recorded before fail_locked.
HandlerFails(l) ==
    /\ loop[l].pc = "executing"
    /\ \E permanent \in BOOLEAN :
          End(l, record_job_failed(summaries[loop[l].name], permanent),
              [loop[l] EXCEPT !.pc = "failing"])

\* fail_locked answers, whatever it says.
FailureReported(l) ==
    /\ loop[l].pc = "failing"
    /\ loop' = [loop EXCEPT ![l] = IdleLoop]
    /\ UNCHANGED <<summaries, shutdown, started, shown, short, reported>>

\* Mutant: the window is logged only when something started in it.
VisibleStarted(s) == s.started > 0

\* Mutant: the window is logged only while something runs.
VisibleRunning(s) == s.running > 0

Visible(s) == s.started > 0 \/ s.running > 0

\* Mutant: the whole counter is reset.
DrainedAll(s) == Default

Drained(s) == IF Visible(s) THEN [Default EXCEPT !.running = s.running] ELSE Default

\* emit_job_summaries: drain_job_summaries, and a log line per visible name.
EmitJobSummaries ==
    /\ ~ shutdown
    /\ reported' = [n \in Names |->
          IF Visible(summaries[n])
          THEN [started |-> reported[n].started + summaries[n].started,
                ended   |-> reported[n].ended + Ended(summaries[n])]
          ELSE reported[n]]
    /\ shown' = [n \in Names |-> IF Visible(summaries[n]) THEN summaries[n].running ELSE 0]
    /\ summaries' = [n \in Names |-> Drained(summaries[n])]
    /\ loop' = [l \in Loops |-> [loop[l] EXCEPT !.carried = TRUE]]
    /\ UNCHANGED <<shutdown, started, short>>

\* The summary loop ends, claim loops finish their jobs or are aborted after the grace period.
RequestShutdown ==
    /\ ~ shutdown
    /\ shutdown' = TRUE
    /\ UNCHANGED <<summaries, loop, started, shown, short, reported>>

Abort(l) ==
    /\ shutdown /\ loop[l].pc \in {"executing", "completing"}
    /\ loop' = [loop EXCEPT ![l].pc = "aborted"]
    /\ UNCHANGED <<summaries, shutdown, started, shown, short, reported>>

Next ==
    \/ EmitJobSummaries \/ RequestShutdown
    \/ \E l \in Loops : \/ AskForJob(l) \/ ClaimNothing(l) \/ \E n \in Names : Start(l, n)
                        \/ LoseLock(l) \/ HandlerSucceeds(l) \/ Complete(l) \/ CompleteRefused(l)
                        \/ HandlerFails(l) \/ FailureReported(l) \/ Abort(l)

Spec == Init /\ [][Next]_vars
-----------------------------------------------------------------------------
(* Properties *)

\* The executions of name n whose ending has not been recorded.
Running(n) ==
    {l \in Loops : loop[l].name = n /\ loop[l].pc \in {"executing", "completing", "aborted"}}

\* The running gauge is the number of executions of the name, through every drain in the
\* middle of one and every way an execution ends; saturating_sub never saturates.
GaugeIsExecutions == \A n \in Names : summaries[n].running = Cardinality(Running(n))

\* Every start is in the current window or in exactly one that was logged: windows may be
\* dropped, but no start with them.
EveryStartReported == \A n \in Names : reported[n].started + summaries[n].started = started[n]

\* Endings may be dropped: drain_job_summaries discards a window without a start in which
\* the last running execution ended.  That never hits an execution that began and ended
\* between two emissions.
ShortJobsReported == \A n \in Names : short[n] <= reported[n].ended + Ended(summaries[n])

\* The log accounts for every ending, those of dropped windows included: what the last
\* emission showed as running (nothing, without a line) and what has started since is what
\* has ended since and what runs.  So an emission without a line, after a line that showed
\* executions, means that exactly these have ended.
EndingsFollowFromLog ==
    \A n \in Names :
        shown[n] + summaries[n].started = Ended(summaries[n]) + summaries[n].running
=============================================================================
