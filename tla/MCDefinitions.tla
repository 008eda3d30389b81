--------------------------- MODULE MCDefinitions ----------------------------
(***************************************************************************)
(* What an application defines, in one small instance: its registry and    *)
(* cron list as processes start with them (WorkerStartup), and schedules   *)
(* read by a clock that runs through the days around a time zone           *)
(* transition (ScheduleClock).                                             *)
(* The two questions share no state, so the clock runs only while nothing  *)
(* is defined, and definitions are made only before it runs.               *)
(*                                                                         *)
(* A day has four ticks of six hours, so one tick is a coarse hour: an     *)
(* offset moves by one, by half a day or by a whole day.  Weeks, months    *)
(* and the bounds of the search loops are the real ones; the dates are     *)
(* those of a common and of a leap year.                                   *)
(***************************************************************************)
EXTENDS WorkerStartup, ScheduleClock

CONSTANTS p1, p2, p3, p4

MCEnvironmentOf ==
    [p \in Processes |-> CASE p = p1 -> "production" [] p = p2 -> "local"
                           [] p = p3 -> NULL [] p = p4 -> "production"]

MonthStarts == {0, 31, 59, 90, 120, 151, 181, 212, 243, 273, 304, 334,
                365, 396, 425, 456, 486, 517, 547, 578, 609, 639, 670, 700,
                731, 762, 790}

Days == [day \in 0..820 |-> day - Max({m \in MonthStarts : m <= day}) + 1]

\* The epoch, at which the clock passes from negative to positive instants, is the second
\* of March of the leap year.
MCDayOfMonth(date) == Days[date + 426]

MCFirstDate == -46

MCFirstInstant == -20

\* Intervals of 0 to 6 half seconds: zero, whole seconds and fractions.
MCSchedules ==
    [kind : {"daily"}, time : Times, weekdays : {None, {1}, {1, 5}}]
        \cup [kind : {"monthly"}, time : {0, 3}, day : {1, 28}]
        \cup [kind : {"interval"}, every : 0..6]

\* Every kind of transition, at each tick of the epoch's day.
MCZones ==
    LET shift == {<<0, 0>>, <<-1, 0>>, <<0, -1>>, <<1, 3>>, <<3, 1>>, <<-2, 2>>, <<2, -2>>}
    IN  {[before |-> z[1], after |-> z[2], at |-> t] : z \in shift, t \in 0..3}

\* Intervals do not depend on the zone.
FirstZone == CHOOSE z \in Zones : z.before = z.after

FirstSchedule == CHOOSE s \in Schedules : s.kind = "interval"

MCInit == Init /\ ClockInit /\ (schedule.kind = "interval" => zone = FirstZone)

MCNext ==
    \/ Init /\ ClockTick /\ UNCHANGED vars
    \/ schedule = FirstSchedule /\ now = FirstInstant /\ Next /\ UNCHANGED clock

MCSpec == MCInit /\ [][MCNext]_<<vars, clock>>
=============================================================================
