---------------------------- MODULE WorkerStartup ----------------------------
(***************************************************************************)
(* The processes of one application: its code builds a registry and a list *)
(* of cron schedules, each process runs them with the environment of its   *)
(* own WorkerConfig, and run_until_shutdown validates everything before    *)
(* the worker is registered.                                               *)
(*                                                                         *)
(* A schedule is reduced to what startup looks at: its identifier, the job *)
(* name, and its environments.  A job handler is its name.                 *)
(***************************************************************************)
EXTENDS Integers, Sequences, FiniteSetsExt

CONSTANTS
    NULL,
    Processes,
    JobNames, Identifiers,
    Environments,       \* Environment::ALL
    Deployed,           \* Environment::DEPLOYED
    EnvironmentOf,      \* WorkerConfig::environment of a process; NULL if it is not set
    Invalid,            \* the processes whose WorkerConfig has an interval of zero, or such
    MaxCrons            \* bound: schedules attached

Errors == {"EmptyRegistry", "InvalidConfig", "MissingCronHandler", "DuplicateCronIdentifier",
           "EmptyCronEnvironments"}

ASSUME StartupAssumption ==
    /\ Deployed \subseteq Environments /\ Deployed # {} /\ NULL \notin Environments \cup Errors
    /\ EnvironmentOf \in [Processes -> Environments \cup {NULL}]
    /\ Invalid \subseteq Processes
    /\ MaxCrons \in Nat

VARIABLES
    handlers,   \* Registry: the names with a handler
    crons,      \* the CronJobs of Worker::with_crons
    process     \* per process: what became of run_until_shutdown, and the positions in
                \* crons of the schedules it runs

vars == <<handlers, crons, process>>

Cron == [identifier : Identifiers, name : JobNames, environments : SUBSET Environments]

New == [state |-> "new", enabled |-> {}]

TypeOK ==
    /\ handlers \subseteq JobNames
    /\ crons \in Seq(Cron) /\ Len(crons) <= MaxCrons
    /\ process \in [Processes -> [state : {"new", "running"} \cup Errors, enabled : SUBSET (1..MaxCrons)]]

Init ==
    /\ handlers = {}
    /\ crons = <<>>
    /\ process = [p \in Processes |-> New]
-----------------------------------------------------------------------------
(* The application's code, before any process runs *)

Building == \A p \in Processes : process[p] = New

Register(name) ==
    /\ Building
    /\ handlers' = handlers \cup {name}
    /\ UNCHANGED <<crons, process>>

\* The constructors of CronJob, which choose the deployed environments, and the method
\* environments.  The fields are public: any set of environments can be given.
Attach(cron) ==
    /\ Building /\ Len(crons) < MaxCrons
    /\ crons' = Append(crons, cron)
    /\ UNCHANGED <<handlers, process>>

AttachDefault(identifier, name) ==
    Attach([identifier |-> identifier, name |-> name, environments |-> Deployed])
-----------------------------------------------------------------------------
(* run_until_shutdown *)

\* Mutant: schedules that never run together may share an identifier.
CronErrorHere(i) ==
    IF crons[i].name \notin handlers THEN "MissingCronHandler"
    ELSE IF \E j \in 1..(i - 1) : /\ crons[j].identifier = crons[i].identifier
                                  /\ crons[j].environments \cap crons[i].environments # {}
         THEN "DuplicateCronIdentifier"
    ELSE IF crons[i].environments = {} THEN "EmptyCronEnvironments"
    ELSE NULL

\* The first check that schedule i does not pass.
CronError(i) ==
    IF crons[i].name \notin handlers THEN "MissingCronHandler"
    ELSE IF \E j \in 1..(i - 1) : crons[j].identifier = crons[i].identifier
         THEN "DuplicateCronIdentifier"
    ELSE IF crons[i].environments = {} THEN "EmptyCronEnvironments"
    ELSE NULL

IsEnabledIn(cron, environment) == environment \in cron.environments

\* Mutant: only the schedules of the process's environment are validated.
RejectedHere(p) ==
    {i \in DOMAIN crons : CronError(i) # NULL /\ IsEnabledIn(crons[i], EnvironmentOf[p])}

Rejected(p) == {i \in DOMAIN crons : CronError(i) # NULL}

\* Mutant: a missing environment enables nothing instead of refusing.
EnvironmentOptional(p) == FALSE

EnvironmentMissing(p) == crons # <<>> /\ EnvironmentOf[p] = NULL

Verdict(p) ==
    IF p \in Invalid THEN "InvalidConfig"
    ELSE IF handlers = {} THEN "EmptyRegistry"
    ELSE IF Rejected(p) # {} THEN CronError(Min(Rejected(p)))
    ELSE IF EnvironmentMissing(p) THEN "InvalidConfig"
    ELSE "running"

Enabled(p) == {i \in DOMAIN crons : IsEnabledIn(crons[i], EnvironmentOf[p])}

\* Mutant: the state of a refused process is not recorded.
RunUnchecked(p) ==
    /\ process[p] = New
    /\ process' = [process EXCEPT ![p] = [state |-> NULL, enabled |-> Enabled(p)]]
    /\ UNCHANGED <<handlers, crons>>

Run(p) ==
    /\ process[p] = New
    /\ process' = [process EXCEPT ![p] =
          [state |-> Verdict(p), enabled |-> IF Verdict(p) = "running" THEN Enabled(p) ELSE {}]]
    /\ UNCHANGED <<handlers, crons>>

Next ==
    \/ \E n \in JobNames : Register(n)
    \/ \E c \in Cron : Attach(c)
    \/ \E i \in Identifiers, n \in JobNames : AttachDefault(i, n)
    \/ \E p \in Processes : Run(p)

Spec == Init /\ [][Next]_vars
-----------------------------------------------------------------------------
(* Properties *)

\* "a schedule with a missing handler fails at startup in every environment"
\* (README.md:411): what is wrong with the registry or the schedules shows in the first
\* process that runs, whichever its environment: two processes with valid configurations
\* never disagree.
SameVerdictEverywhere ==
    \A p, q \in Processes \ Invalid :
        /\ process[p] # New /\ process[q] # New
        /\ EnvironmentOf[p] # NULL /\ EnvironmentOf[q] # NULL
        => process[p].state = process[q].state

\* "a schedule is never skipped because the environment was left unset" (README.md:391):
\* in an application of which some process runs, a schedule that no running process
\* enqueues is one whose environments include none of theirs, and all of them have one.
NeverSkipped ==
    \A p \in Processes : process[p].state = "running" =>
        \A i \in DOMAIN crons :
            \/ i \in process[p].enabled
            \/ EnvironmentOf[p] # NULL /\ EnvironmentOf[p] \notin crons[i].environments

\* "cron identifiers must be unique within a worker" (README.md:421): no two schedules
\* that run anywhere in the application share a row of pgspawn.crons, also if they
\* are otherwise the same, and although each process runs only those of its environment.
OneRowPerSchedule ==
    \A p, q \in Processes : \A i \in process[p].enabled, j \in process[q].enabled :
        crons[i].identifier = crons[j].identifier => i = j
=============================================================================
