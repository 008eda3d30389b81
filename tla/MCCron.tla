------------------------------- MODULE MCCron -------------------------------
(***************************************************************************)
(* Small instances of Cron for TLC, with an interval schedule.             *)
(***************************************************************************)
EXTENDS Cron

CONSTANTS w1, w2, k1, Period

NoCalendar(date) == 1

S == INSTANCE Schedule WITH
        None <- NULL, Second <- 1, DayLength <- 24, DayOfMonth <- NoCalendar

MCLatestDue(t) == S!latest_interval_due_at(t, Period)

MCNextAfter(t) == S!next_interval_after(t, Period)

MCDef == [name |-> "a", payload |-> 1, queue_name |-> NULL, priority |-> 0, max_attempts |-> 1]

MCDefs == {MCDef}

\* Without a job key, with the default one, and with one that moves a queued job.
MCCronJobs == {[def |-> MCDef, key |-> NULL, mode |-> "dedupe", catch_up |-> FALSE],
               [def |-> MCDef, key |-> k1, mode |-> "dedupe", catch_up |-> TRUE],
               [def |-> MCDef, key |-> k1, mode |-> "replace", catch_up |-> FALSE]}

MCBackoff == [n \in 0..10 |-> 1]

\* The steady worker's clock is behind, the other one's ahead.
MCSkew == [w \in Workers |-> IF w = w1 THEN 0 - MaxSkew ELSE MaxSkew]
=============================================================================
