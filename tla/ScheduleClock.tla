---------------------------- MODULE ScheduleClock -----------------------------
(***************************************************************************)
(* The schedules an application may attach, read by a clock that runs      *)
(* through the transition of a zone: what latest_due_at and next_after     *)
(* answer at every instant, against a reference definition.                *)
(***************************************************************************)
EXTENDS Schedule

CONSTANTS
    Schedules,      \* schedules that may be attached
    Zones,          \* zones they may be attached with
    FirstDate,      \* the calendar: jiff's Date::MIN and MAX, or bounds within them
    LastDate,
    FirstInstant,   \* bounds: the clock
    LastInstant

Times == 0..(DayLength - 1)

\* DailyJobSchedule::weekdays and MonthlyJobSchedule::new refuse everything else.
DailySchedules == [kind : {"daily"}, time : Times, weekdays : {None} \cup ((SUBSET (0..6)) \ {{}})]

MonthlySchedules == [kind : {"monthly"}, time : Times, day : 1..28]

IntervalSchedules == [kind : {"interval"}, every : Nat]

ASSUME SchedulesAssumption ==
    Schedules \subseteq DailySchedules \cup MonthlySchedules \cup IntervalSchedules

\* Local clocks are set by a day at most.
ASSUME ZonesAssumption ==
    /\ Zones \subseteq [before : Int, after : Int, at : Int]
    /\ \A z \in Zones : /\ z.after - z.before <= DayLength
                        /\ z.before - z.after <= DayLength

\* Every day of the month up to the 28th comes within 31 days.
ASSUME CalendarAssumption ==
    /\ FirstDate \in Int /\ LastDate \in Int
    /\ \A date \in FirstDate..(LastDate - 30), day \in 1..28 :
          \E n \in 0..30 : DayOfMonth(date + n) = day

\* The clock keeps away from the ends of the calendar.
ASSUME ClockAssumption ==
    /\ FirstInstant \in Int /\ LastInstant \in Int
    /\ \A z \in Zones, t \in {FirstInstant, LastInstant} :
          \A shift \in {z.before, z.after} :
             (t + shift) \div DayLength \in (FirstDate + 40)..(LastDate - 80)

VARIABLES schedule, zone, now

clock == <<schedule, zone, now>>

ClockInit == schedule \in Schedules /\ zone \in Zones /\ now = FirstInstant

ClockTick ==
    /\ now < LastInstant
    /\ now' = now + 1
    /\ UNCHANGED <<schedule, zone>>

ClockSpec == ClockInit /\ [][ClockTick]_clock
-----------------------------------------------------------------------------
(* Properties *)

\* Reference: the instants at which the schedule is due, on the dates of the calendar,
\* or within two intervals of now.
Occurrences ==
    IF schedule.kind = "interval"
    THEN LET n == interval_secs(schedule.every) * Second
         IN  {t \in (now - n)..(now + 2 * n) : t % n = 0}
    ELSE {at_time_zone(zone, d, schedule.time) :
             d \in {x \in FirstDate..LastDate : on_date(schedule, x)}}

due == latest_due_at(schedule, zone, now)

\* A fold across midnight sets the local date back.
DateSetBack ==
    \E t \in (now - 2 * DayLength)..now : local_date(zone, t) > local_date(zone, now)

\* as_second rounds such an instant up (Schedule).
RoundedUp(t) == t < 0 /\ t % Second # 0

\* latest_due_at is the greatest occurrence that is not in the future, with two exceptions:
\* while the local date has been set back, a daily or monthly schedule may answer an
\* earlier one (try_enqueue_cron then finds it claimed already), and within the second
\* before an occurrence that is not after the epoch, an interval already answers it.
LatestIsGreatest ==
    LET latest == due
        all    == Occurrences
    IN  /\ latest # None
        /\ latest \in all /\ latest < now + Second
        /\ \/ latest <= now
           \/ schedule.kind = "interval" /\ RoundedUp(now)
        /\ \/ \A t \in all : t <= now => t <= latest
           \/ schedule.kind # "interval" /\ DateSetBack

\* next_after of the due instant, which becomes next_run_at, is the first occurrence
\* after it; the fallbacks are not used.
NextIsLeast ==
    LET latest == due
        next   == next_after(schedule, zone, latest)
        all    == Occurrences
    IN  /\ next \in all /\ next > latest
        /\ \A t \in all : t > latest => next <= t

\* The local civil time of an instant.
civil(t) == t + offset(zone, t)

\* "A local time skipped by a forward transition moves forward by the gap.  A local
\* time repeated by a backward transition runs once at the earlier occurrence."
\* (README.md:415): a due instant reads as the scheduled time on a clock, unless the
\* clock was just set forward past it, and no earlier instant reads the same.
LocalTimesKept ==
    schedule.kind # "interval" =>
        LET gap    == zone.after - zone.before
            latest == due
        IN  /\ \/ civil(latest) % DayLength = schedule.time
               \/ /\ gap > 0 /\ latest >= zone.at /\ latest < zone.at + gap
                  /\ (civil(latest) - gap) % DayLength = schedule.time
            /\ \A t \in (latest - 2 * DayLength)..(latest - 1) : civil(t) # civil(latest)
=============================================================================
