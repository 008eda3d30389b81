------------------------------- MODULE Wakeup -------------------------------
(***************************************************************************)
(* How the idle claim loops of one worker process learn of work: NOTIFY    *)
(* triggers, the LISTEN connection, the process-local Notify, the deadline *)
(* read by next_runnable_in and the safety poll.                           *)
(*                                                                         *)
(* Time is relative.  A job counts down to its run_at, a loop to the end   *)
(* of its sleep or to the latest instant its statement executes, and Tick  *)
(* lets a unit pass once nothing is left that happens at once.  Local      *)
(* computation and the delivery of a notification take no time, a          *)
(* statement at most StatementTime.                                        *)
(*                                                                         *)
(* What the claim itself does to a row is JobQueue's subject; here a job   *)
(* is only queued, executed by a loop of this process, executed by another *)
(* process, or finished.                                                   *)
(***************************************************************************)
EXTENDS Integers, FiniteSetsExt

CONSTANTS
    NULL,
    Loops,           \* the claim loops of the process
    Jobs,
    QueueOf,         \* the named queue of a job, or NULL
    PollInterval,    \* WorkerConfig::poll_interval
    RetryInterval,   \* DATABASE_RETRY_INTERVAL
    MaxReconnect,    \* MAX_RECONNECT_DELAY
    StatementTime,   \* bound: how long a statement takes
    MaxDelay,        \* bound: how far ahead a run_at is
    MaxTouches,      \* bound, per job: requeues, reschedules and caller transactions
    Faults,          \* the faults that may happen
    MaxFaults        \* bound: how many of them

FaultKinds == {"claim", "inspect", "connect", "break", "blip"}

ASSUME WakeupAssumption ==
    /\ PollInterval \in Nat \ {0} /\ RetryInterval \in Nat \ {0}
    /\ MaxReconnect \in Nat /\ MaxReconnect >= RetryInterval
    /\ StatementTime \in Nat \ {0} /\ MaxDelay \in Nat
    /\ MaxTouches \in [Jobs -> Nat] /\ MaxFaults \in Nat
    /\ Faults \subseteq FaultKinds
    /\ NULL \notin Nat \cup Jobs

VARIABLES
    job,       \* per job: status, ticks to its run_at, touches so far
    held,      \* queued jobs whose row an open transaction of a caller has locked
    loop,      \* per claim loop: pc, the row it selected, timer, woken, blind, news
    pending,   \* a notification is on its way to the listener
    listener,  \* run_notify_listener_loop
    faults,    \* faults so far
    neglect,   \* ticks for which some job was claimable and some loop idle
    setbacks   \* statements of idle loops that failed or lost a race meanwhile

vars == <<job, held, loop, pending, listener, faults, neglect, setbacks>>

Job == [status : {"absent", "queued", "running", "remote", "done"},
        wait : 0..MaxDelay, touches : Nat]

\* waiting is the select! after Ok(None), failed the one after Err.
Timed == {"claiming", "updating", "inspecting", "waiting", "failed"}

\* blind: the wait was chosen without a deadline to wake for although there may be
\* one, because next_runnable_in answered zero or an error.  news: a statement that
\* notifies has committed since claim_next found nothing.  deaf: the listener lost
\* the notification.
Loop == [pc : Timed \cup {"top", "running"}, job : Jobs \cup {NULL},
         timer : Nat, woken : BOOLEAN, blind : BOOLEAN, news : BOOLEAN, deaf : BOOLEAN]

At(pc, timer) == [pc |-> pc, job |-> NULL, timer |-> timer,
                  woken |-> FALSE, blind |-> FALSE, news |-> FALSE, deaf |-> FALSE]

TypeOK ==
    /\ job \in [Jobs -> Job] /\ \A j \in Jobs : job[j].touches <= MaxTouches[j]
    /\ held \subseteq Jobs /\ \A j \in held : job[j].status = "queued"
    /\ loop \in [Loops -> Loop]
    /\ pending \in BOOLEAN /\ (pending => listener.pc = "listening")
    /\ listener.pc \in {"connecting", "listening", "backoff"}
    /\ listener.delay \in RetryInterval..MaxReconnect /\ listener.timer \in 0..MaxReconnect
    /\ faults \in 0..MaxFaults /\ neglect \in Nat /\ setbacks \in Nat

Init ==
    /\ job = [j \in Jobs |-> [status |-> "absent", wait |-> 0, touches |-> 0]]
    /\ held = {}
    /\ loop = [l \in Loops |-> At("top", 0)]
    /\ pending = FALSE
    /\ listener = [pc |-> "connecting", timer |-> 0, delay |-> RetryInterval]
    /\ faults = 0 /\ neglect = 0 /\ setbacks = 0
-----------------------------------------------------------------------------
\* Mutant: a queued job of the named queue blocks it too.
QueueTaken(j) ==
    /\ QueueOf[j] # NULL
    /\ \E i \in Jobs \ {j} : /\ job[i].status \in {"queued", "running", "remote"}
                            /\ QueueOf[i] = QueueOf[j]

\* The NOT EXISTS of claim_next and next_runnable_in.
QueueBusy(j) ==
    /\ QueueOf[j] # NULL
    /\ \E i \in Jobs : job[i].status \in {"running", "remote"} /\ QueueOf[i] = QueueOf[j]

Selected == {loop[l].job : l \in {k \in Loops : loop[k].pc = "updating"}}

Runnable == {j \in Jobs : job[j].status = "queued" /\ ~ QueueBusy(j)}

\* The candidates of claim_next; locked rows are skipped.
Claimable == {j \in Runnable : job[j].wait = 0} \ (held \cup Selected)

\* next_runnable_in: locked rows count, the answer is never negative.
NextRunnableIn ==
    IF Runnable = {} THEN NULL ELSE Min({job[j].wait : j \in Runnable})

\* Mutant: with nothing queued the loop counts on a notification.
IdleWaitLong(next) ==
    IF next = NULL THEN 10 * PollInterval
    ELSE IF next = 0 THEN PollInterval ELSE Min({next, PollInterval})

idle_wait_duration(next) ==
    IF next \in {NULL, 0} THEN PollInterval ELSE Min({next, PollInterval})

\* A NOTIFY reaches the session that is listening when it commits.
Notify == pending' = (listener.pc = "listening")

\* What the notification is about is news to the loops whose claim has failed.
Heard(f) ==
    [l \in Loops |-> IF f[l].pc \in {"inspecting", "waiting"}
                     THEN [f[l] EXCEPT !.news = TRUE] ELSE f[l]]

Notified(f) == Notify /\ loop' = Heard(f)

\* notify_waiters wakes the Notified futures that exist: registered at the top of
\* the loop, dropped at its end.
NotifyWaiters ==
    [l \in Loops |-> IF loop[l].pc \in Timed THEN [loop[l] EXCEPT !.woken = TRUE]
                                             ELSE loop[l]]

CanFail(kind) == kind \in Faults /\ faults < MaxFaults

CanTouch(j) == job[j].touches < MaxTouches[j]

Touched(j, status, wait) ==
    [job EXCEPT ![j] = [status |-> status, wait |-> wait, touches |-> @.touches + 1]]
-----------------------------------------------------------------------------
(* Callers and other processes *)

Untouched == UNCHANGED <<listener, faults, neglect, setbacks>>

\* INSERT fires _900_notify.
Insert(j, wait) ==
    /\ job[j].status = "absent"
    /\ job' = [job EXCEPT ![j].status = "queued", ![j].wait = wait]
    /\ Notified(loop)
    /\ UNCHANGED held /\ Untouched

\* UPDATE OF run_at fires _900_notify: Queue::reschedule, an upsert with `replace`.
Reschedule(j, wait) ==
    /\ job[j].status = "queued" /\ j \notin held \cup Selected
    /\ CanTouch(j)
    /\ job' = Touched(j, "queued", wait)
    /\ Notified(loop)
    /\ UNCHANGED held /\ Untouched

\* A transaction of the application upserts the key of a queued job and stays open.
CallerLocks(j) ==
    /\ job[j].status = "queued" /\ j \notin held \cup Selected
    /\ CanTouch(j)
    /\ job' = Touched(j, "queued", job[j].wait)
    /\ held' = held \cup {j}
    /\ UNCHANGED <<pending, loop>> /\ Untouched

\* It commits, and the trigger's NOTIFY with it, or rolls back without a word.
CallerEnds(j) ==
    /\ j \in held
    /\ held' = held \ {j}
    /\ \/ \E wait \in 0..MaxDelay : job' = [job EXCEPT ![j].wait = wait] /\ Notified(loop)
       \/ UNCHANGED <<job, pending, loop>>
    /\ Untouched

\* Another worker process claims a job.
RemoteClaim(j) ==
    /\ j \in Claimable
    /\ job' = [job EXCEPT ![j].status = "remote"]
    /\ UNCHANGED <<held, loop, pending>> /\ Untouched

\* A running job finishes, which notifies if that frees a named queue
\* (_910_notify_queue), or is queued again (_900_notify).  f: the loops afterwards.
FinishOrRequeue(j, f) ==
    \/ /\ job' = [job EXCEPT ![j].status = "done"]
       /\ IF QueueOf[j] # NULL THEN Notified(f) ELSE UNCHANGED pending /\ loop' = f
    \/ /\ CanTouch(j)
       /\ \E wait \in 0..MaxDelay : job' = Touched(j, "queued", wait)
       /\ Notified(f)

RemoteReport(j) ==
    /\ job[j].status = "remote"
    /\ FinishOrRequeue(j, loop)
    /\ UNCHANGED held /\ Untouched
-----------------------------------------------------------------------------
(* Claim loops *)

LoopOnly == UNCHANGED <<job, held, pending, listener>>

NoSetback == UNCHANGED <<faults, neglect, setbacks>>

Setback == setbacks' = setbacks + 1 /\ UNCHANGED neglect

Fault == faults' = faults + 1

\* The Notified future is enabled before claim_next is sent.
BeginClaim(l) ==
    /\ loop[l].pc = "top"
    /\ loop' = [loop EXCEPT ![l] = At("claiming", StatementTime)]
    /\ LoopOnly /\ NoSetback

\* The candidate of claim_next, row-locked; which one is JobTable's First.
ClaimSelect(l) ==
    /\ loop[l].pc = "claiming"
    /\ \E j \in Claimable :
          loop' = [loop EXCEPT ![l].pc = "updating", ![l].job = j]
    /\ LoopOnly /\ NoSetback

ToInspect(l) ==
    loop' = [loop EXCEPT ![l].pc = "inspecting", ![l].job = NULL, ![l].timer = StatementTime]

ClaimNone(l) ==
    /\ loop[l].pc = "claiming"
    /\ Claimable = {}
    /\ ToInspect(l)
    /\ neglect' = 0 /\ setbacks' = 0
    /\ LoopOnly /\ UNCHANGED faults

ClaimUpdate(l) ==
    /\ loop[l].pc = "updating"
    /\ ~ QueueBusy(loop[l].job)
    /\ job' = [job EXCEPT ![loop[l].job].status = "running"]
    /\ loop' = [loop EXCEPT ![l] = [At("running", 0) EXCEPT !.job = loop[l].job]]
    /\ neglect' = 0 /\ setbacks' = 0
    /\ UNCHANGED <<held, pending, listener, faults>>

\* A unique violation on jobs_queue_running_idx is Ok(None).
ClaimLosesRace(l) ==
    /\ loop[l].pc = "updating"
    /\ QueueBusy(loop[l].job)
    /\ ToInspect(l)
    /\ LoopOnly /\ Setback /\ UNCHANGED faults

\* Err: the loop sleeps without listening to its Notified.
ClaimErr(l) ==
    /\ loop[l].pc \in {"claiming", "updating"}
    /\ CanFail("claim")
    /\ loop' = [loop EXCEPT ![l] = At("failed", RetryInterval)]
    /\ LoopOnly /\ Setback /\ Fault

\* Mutant: the loop registers its interest only when it starts to wait.
InspectRegistersLate(l) ==
    /\ loop[l].pc = "inspecting"
    /\ loop' = [loop EXCEPT ![l].pc = "waiting", ![l].timer = idle_wait_duration(NextRunnableIn),
                            ![l].woken = FALSE, ![l].blind = (NextRunnableIn = 0)]
    /\ LoopOnly /\ NoSetback

Inspect(l) ==
    /\ loop[l].pc = "inspecting"
    /\ loop' = [loop EXCEPT ![l].pc = "waiting", ![l].timer = idle_wait_duration(NextRunnableIn),
                            ![l].blind = (NextRunnableIn = 0)]
    /\ LoopOnly /\ NoSetback

InspectErr(l) ==
    /\ loop[l].pc = "inspecting"
    /\ CanFail("inspect")
    /\ loop' = [loop EXCEPT ![l].pc = "waiting", ![l].timer = RetryInterval, ![l].blind = TRUE]
    /\ LoopOnly /\ Setback /\ Fault

Wake(l) ==
    /\ \/ loop[l].pc = "waiting" /\ (loop[l].woken \/ loop[l].timer = 0)
       \/ loop[l].pc = "failed" /\ loop[l].timer = 0
    /\ loop' = [loop EXCEPT ![l] = At("top", 0)]
    /\ LoopOnly /\ NoSetback

\* The handler ends and its report commits; a named queue wakes the local loops.
HandlerReturns(l) ==
    LET woken == IF QueueOf[loop[l].job] # NULL THEN NotifyWaiters ELSE loop
    IN  /\ loop[l].pc = "running"
        /\ FinishOrRequeue(loop[l].job, [woken EXCEPT ![l] = At("top", 0)])
        /\ UNCHANGED <<held, listener>> /\ NoSetback
-----------------------------------------------------------------------------
(* run_notify_listener_loop *)

Connect ==
    /\ listener.pc = "connecting"
    /\ listener' = [pc |-> "listening", timer |-> 0, delay |-> RetryInterval]
    /\ loop' = NotifyWaiters
    /\ UNCHANGED <<job, held, pending>> /\ NoSetback

\* Mutant: the doubling is not capped.
BackOffUncapped ==
    listener' = [pc |-> "backoff", timer |-> listener.delay, delay |-> 2 * listener.delay]

\* The loop sleeps for reconnect_delay and doubles it.
BackOff ==
    listener' = [pc |-> "backoff", timer |-> listener.delay,
                 delay |-> Min({2 * listener.delay, MaxReconnect})]

ConnectFails ==
    /\ listener.pc = "connecting"
    /\ CanFail("connect")
    /\ BackOff
    /\ Fault
    /\ UNCHANGED <<job, held, loop, pending, neglect, setbacks>>

\* recv returns an error; what was on its way is lost.
ListenerBreaks ==
    /\ listener.pc = "listening"
    /\ CanFail("break")
    /\ BackOff
    /\ pending' = FALSE
    /\ Fault
    /\ UNCHANGED <<job, held, loop, neglect, setbacks>>

\* External: PgListener::recv replaces a lost connection without returning, so
\* what was on its way is lost and the loop does not know.
ListenerBlips ==
    /\ listener.pc = "listening" /\ pending
    /\ CanFail("blip")
    /\ pending' = FALSE
    /\ loop' = [l \in Loops |-> [loop[l] EXCEPT !.deaf = loop[l].news]]
    /\ Fault
    /\ UNCHANGED <<job, held, listener, neglect, setbacks>>

ReconnectTimer ==
    /\ listener.pc = "backoff" /\ listener.timer = 0
    /\ listener' = [listener EXCEPT !.pc = "connecting"]
    /\ UNCHANGED <<job, held, loop, pending>> /\ NoSetback

Deliver ==
    /\ listener.pc = "listening" /\ pending
    /\ pending' = FALSE
    /\ loop' = NotifyWaiters
    /\ UNCHANGED <<job, held, listener>> /\ NoSetback
-----------------------------------------------------------------------------
Urgent ==
    \/ pending
    \/ listener.pc = "backoff" /\ listener.timer = 0
    \/ \E l \in Loops : \/ loop[l].pc = "top"
                        \/ loop[l].pc \in Timed /\ loop[l].timer = 0
                        \/ loop[l].pc = "waiting" /\ loop[l].woken

Down(n) == IF n = 0 THEN 0 ELSE n - 1

Neglected == Claimable # {} /\ \E l \in Loops : loop[l].pc # "running"

Tick ==
    /\ ~ Urgent
    /\ job' = [j \in Jobs |-> [job[j] EXCEPT !.wait = Down(@)]]
    /\ loop' = [l \in Loops |-> [loop[l] EXCEPT !.timer = Down(@)]]
    /\ listener' = [listener EXCEPT !.timer = Down(@)]
    /\ neglect' = IF Neglected THEN neglect + 1 ELSE 0
    /\ setbacks' = IF Neglected THEN setbacks ELSE 0
    /\ UNCHANGED <<held, pending, faults>>

Callers ==
    \E j \in Jobs :
        \/ \E wait \in 0..MaxDelay : Insert(j, wait) \/ Reschedule(j, wait)
        \/ CallerLocks(j) \/ CallerEnds(j)
        \/ RemoteClaim(j) \/ RemoteReport(j)

ClaimLoop(l) ==
    \/ BeginClaim(l) \/ ClaimSelect(l) \/ ClaimNone(l)
    \/ ClaimUpdate(l) \/ ClaimLosesRace(l) \/ ClaimErr(l)
    \/ Inspect(l) \/ InspectErr(l) \/ Wake(l) \/ HandlerReturns(l)

ListenerLoop ==
    \/ Connect \/ ConnectFails \/ ListenerBreaks \/ ListenerBlips
    \/ ReconnectTimer \/ Deliver

Next == Tick \/ Callers \/ (\E l \in Loops : ClaimLoop(l)) \/ ListenerLoop

Spec == Init /\ [][Next]_vars

\* Time passes, every loop is scheduled, and everyone who holds a job or a row
\* lets go of it in the end.
Fairness ==
    /\ WF_vars(Tick)
    /\ \A l \in Loops : WF_vars(ClaimLoop(l))
    /\ WF_vars(Connect \/ ConnectFails \/ ReconnectTimer \/ Deliver \/ ListenerBlips)
    /\ \A j \in Jobs : WF_vars(CallerEnds(j) \/ RemoteReport(j))

FairSpec == Spec /\ Fairness
-----------------------------------------------------------------------------
(* Properties *)

\* A loop that sleeps without having been woken, while the listener is connected
\* and has nothing left to deliver, has missed nothing: no statement that notifies
\* has committed since its claim found no job, and no job is claimable.  The
\* exceptions are a zero answer or an error of next_runnable_in, and a notification
\* lost while recv replaced its connection.  Registering the Notified future before
\* the query, the two triggers, the deadline and the wake-up after LISTEN are all
\* needed for this (README.md:507, 512).
NoLostWakeup ==
    \A l \in Loops :
        /\ loop[l].pc = "waiting" /\ ~ loop[l].woken /\ loop[l].timer > 0
        /\ listener.pc = "listening" /\ ~ pending
        => /\ loop[l].news => loop[l].deaf
           /\ Claimable # {} => loop[l].blind \/ loop[l].deaf

LongestWait == Max({PollInterval, RetryInterval})

\* "The safety poll bounds delay when a notification is missed or the listener is
\* unavailable" (README.md:510): whatever happens to notifications, a process with
\* an idle loop leaves claimable jobs alone for no longer than the longest sleep and
\* the statements around it, once more for every statement that failed or lost a
\* race for a named queue.
PollBoundsDelay ==
    neglect <= (setbacks + 1) * (LongestWait + 2 * StatementTime)

\* Every queued job is taken up by some process in the end, through lost
\* notifications, listener outages and lost races.
EveryJobRuns ==
    \A j \in Jobs : job[j].status = "queued" ~> job[j].status \in {"running", "remote", "done"}

\* "sleeps until that deadline or `poll_interval` ..., whichever comes first ...
\* without delaying known scheduled work" (README.md:508): with the listener up
\* and no failing statement, a claimable job waits only for statements.
KnownWorkNotDelayed ==
    \A l \in Loops :
        /\ loop[l].pc = "waiting" /\ ~ loop[l].woken
        /\ listener.pc = "listening"
        => neglect <= 3 * StatementTime
=============================================================================
