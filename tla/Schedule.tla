------------------------------ MODULE Schedule ------------------------------
(***************************************************************************)
(* The occurrences of cron schedules (src/schedule.rs) as pure operators.  *)
(*                                                                         *)
(* An instant counts ticks since the epoch; Second ticks are a second and  *)
(* DayLength ticks a day, so a civil time of day is a tick of 0..DayLength-1 *)
(* and an offset from UTC a number of ticks.  A civil date counts days.    *)
(* A zone has one transition: its offset is `before` until the instant     *)
(* `at` and `after` from then on, with a gap (before < after) or a fold    *)
(* (before > after) in local time.  Transitions of real zones are months   *)
(* apart, so one at a time is what a schedule meets.                       *)
(***************************************************************************)
EXTENDS Integers

CONSTANTS
    None,           \* no weekdays, no occurrence
    Second,         \* ticks of a second
    DayLength,      \* ticks of a day
    DayOfMonth(_)   \* jiff's Date::day

ASSUME ScheduleAssumption ==
    Second \in Nat \ {0} /\ DayLength \in Nat \ {0} /\ None \notin Int

weekday(date) == date % 7

offset(zone, t) == IF t < zone.at THEN zone.before ELSE zone.after

local_date(zone, t) == (t + offset(zone, t)) \div DayLength

\* Mutant: a civil time in a fold is taken at its later instant.
AtZoneLater(zone, date, time) ==
    LET civil == date * DayLength + time
    IN  IF civil - zone.after >= zone.at THEN civil - zone.after ELSE civil - zone.before

\* The compatible disambiguation: the earlier instant of a civil time in a fold;
\* one in a gap moves forward, by being read with the offset before the gap.
at_time_zone(zone, date, time) ==
    LET civil == date * DayLength + time
    IN  IF civil - zone.before < zone.at \/ civil - zone.after < zone.at
        THEN civil - zone.before
        ELSE civil - zone.after

Least(S) == CHOOSE n \in S : \A k \in S : n <= k

\* date.weekday() and date.day() against the schedule.
on_date(s, date) ==
    IF s.kind = "daily" THEN s.weekdays = None \/ weekday(date) \in s.weekdays
                        ELSE DayOfMonth(date) = s.day

\* The loops of latest_daily_due_at and latest_monthly_due_at over 0..=bound: the
\* first offset whose date matches and whose candidate is not in the future.
latest_civil(s, zone, now, bound) ==
    LET today == local_date(zone, now)
        hits  == {n \in 0..bound : /\ on_date(s, today - n)
                                   /\ at_time_zone(zone, today - n, s.time) <= now}
    IN  IF hits = {} THEN None ELSE at_time_zone(zone, today - Least(hits), s.time)

\* next_daily_after and next_monthly_after, `fallback` days ahead if nothing is found.
next_civil(s, zone, after, bound, fallback) ==
    LET today == local_date(zone, after)
        hits  == {n \in 0..bound : /\ on_date(s, today + n)
                                   /\ at_time_zone(zone, today + n, s.time) > after}
    IN  IF hits = {} THEN after + fallback * DayLength
                     ELSE at_time_zone(zone, today + Least(hits), s.time)

\* interval.as_secs().max(1)
interval_secs(every) == IF every \div Second = 0 THEN 1 ELSE every \div Second

\* jiff's Timestamp::as_second truncates toward zero: a fraction of a second before the
\* epoch is rounded up.
as_second(t) == IF t >= 0 THEN t \div Second ELSE 0 - ((0 - t) \div Second)

latest_interval_due_at(now, every) ==
    ((as_second(now) \div interval_secs(every)) * interval_secs(every)) * Second

\* Mutant: the next multiple of the interval, which is `after` itself if aligned.
NextIntervalRoundedUp(after, every) ==
    LET n == interval_secs(every)
    IN  ((as_second(after) + n - 1) \div n) * n * Second

next_interval_after(after, every) ==
    (((as_second(after) \div interval_secs(every)) + 1) * interval_secs(every)) * Second

\* Mutant: the daily search looks back too few days for a weekly schedule.
LatestDueWithinSix(s, zone, now) ==
    CASE s.kind = "daily"    -> latest_civil(s, zone, now, 6)
      [] s.kind = "monthly"  -> latest_civil(s, zone, now, 370)
      [] s.kind = "interval" -> latest_interval_due_at(now, s.every)

latest_due_at(s, zone, now) ==
    CASE s.kind = "daily"    -> latest_civil(s, zone, now, 8)
      [] s.kind = "monthly"  -> latest_civil(s, zone, now, 370)
      [] s.kind = "interval" -> latest_interval_due_at(now, s.every)

next_after(s, zone, after) ==
    CASE s.kind = "daily"    -> next_civil(s, zone, after, 8, 1)
      [] s.kind = "monthly"  -> next_civil(s, zone, after, 370, 31)
      [] s.kind = "interval" -> next_interval_after(after, s.every)
=============================================================================
