-------------------------- MODULE DefinitionProofs --------------------------
(***************************************************************************)
(* Proofs about what an application defines: WorkerStartup, for any        *)
(* processes, environments, handlers and number of schedules, and the      *)
(* schedules themselves (Schedule, ScheduleClock), for every daily, monthly *)
(* and interval schedule, any length of day, and every zone that one       *)
(* transition, by a day at most, sets forward or back.                     *)
(***************************************************************************)
EXTENDS WorkerStartup, ScheduleClock, WellFoundedInduction, TLAPS

\* A process that has run shows what run_until_shutdown makes of the definitions,
\* which have not changed since.
Decided(p) ==
    process[p] # New =>
        /\ process[p].state = Verdict(p)
        /\ process[p].enabled = IF Verdict(p) = "running" THEN Enabled(p) ELSE {}

IInv == TypeOK /\ \A p \in Processes : Decided(p)
-----------------------------------------------------------------------------
(* The verdict *)

LEMMA LessThanWellFounded == IsWellFoundedOn({p \in Nat \X Nat : p[1] < p[2]}, Nat)
  BY NatLessThanWellFounded DEF OpToRel

\* A set of numbers has a least element.
LEMMA MinIn ==
    ASSUME NEW S \in SUBSET Nat, S # {}
    PROVE  Min(S) \in S
<1> DEFINE R == {p \in Nat \X Nat : p[1] < p[2]}
<1>1. IsWellFoundedOn(R, Nat)
  BY LessThanWellFounded
<1> HIDE DEF R
<1>2. PICK m \in S : \A y \in S : <<y, m>> \notin R
  BY <1>1, WFMin
<1>3. ASSUME NEW y \in S PROVE m <= y
  <2>1. y \in Nat /\ m \in Nat
    OBVIOUS
  <2>2. <<y, m>> \notin R
    BY <1>2
  <2>3. y < m => <<y, m>> \in R
    BY <2>1 DEF R
  <2> QED
    BY <2>1, <2>2, <2>3
<1> QED
  BY <1>3 DEF Min

CronErrors == {"MissingCronHandler", "DuplicateCronIdentifier", "EmptyCronEnvironments"}

LEMMA CronErrorIs == ASSUME NEW i PROVE CronError(i) \in CronErrors \cup {NULL}
  BY DEF CronError, CronErrors

\* A schedule that passes has the only identifier of its kind up to there.
LEMMA CronPasses ==
    ASSUME NEW i, CronError(i) = NULL
    PROVE  \A j \in 1..(i - 1) : crons[j].identifier # crons[i].identifier
<1>1. NULL \notin Errors
  BY StartupAssumption
<1>2. NULL # "MissingCronHandler" /\ NULL # "DuplicateCronIdentifier"
  BY <1>1 DEF Errors
<1> QED
  BY <1>2 DEF CronError

\* Who starts has passed every check.
LEMMA VerdictIs ==
    ASSUME TypeOK, NEW p \in Processes
    PROVE  /\ Verdict(p) \in Errors \cup {"running"}
           /\ Verdict(p) = "running" => Rejected(p) = {} /\ ~ EnvironmentMissing(p)
<1>1. Rejected(p) \in SUBSET Nat
  BY DEF Rejected, TypeOK
<1>2. ASSUME Rejected(p) # {} PROVE CronError(Min(Rejected(p))) \in CronErrors
  <2>1. Min(Rejected(p)) \in Rejected(p)
    BY <1>1, <1>2, MinIn
  <2>2. CronError(Min(Rejected(p))) # NULL
    BY <2>1 DEF Rejected
  <2> QED
    BY <2>2, CronErrorIs
<1>3. CronErrors \subseteq Errors /\ "running" \notin Errors
  BY DEF CronErrors, Errors
<1>4. CASE p \in Invalid
  BY <1>4 DEF Verdict, Errors
<1>5. CASE p \notin Invalid /\ handlers = {}
  BY <1>5 DEF Verdict, Errors
<1>6. CASE p \notin Invalid /\ handlers # {} /\ Rejected(p) # {}
  <2>1. Verdict(p) = CronError(Min(Rejected(p)))
    BY <1>6 DEF Verdict
  <2> QED
    BY <1>2, <1>3, <1>6, <2>1
<1>7. CASE p \notin Invalid /\ handlers # {} /\ Rejected(p) = {}
  BY <1>7 DEF Verdict, Errors
<1> QED
  BY <1>4, <1>5, <1>6, <1>7

\* Only the configuration of its own process bears on it.
LEMMA SameVerdict ==
    ASSUME NEW p \in Processes \ Invalid, NEW q \in Processes \ Invalid,
           EnvironmentOf[p] # NULL, EnvironmentOf[q] # NULL
    PROVE  Verdict(p) = Verdict(q)
<1>1. Rejected(p) = Rejected(q)
  BY DEF Rejected
<1>2. ~ EnvironmentMissing(p) /\ ~ EnvironmentMissing(q)
  BY DEF EnvironmentMissing
<1> QED
  BY <1>1, <1>2 DEF Verdict
-----------------------------------------------------------------------------
(* The invariant *)

LEMMA InvInit == Init => IInv
<1> SUFFICES ASSUME Init PROVE IInv
  OBVIOUS
<1>1. New \in [state : {"new", "running"} \cup Errors, enabled : SUBSET (1..MaxCrons)]
  BY DEF New
<1> QED
  BY <1>1, StartupAssumption DEF Init, IInv, TypeOK, Decided

\* What the definitions decide depends on nothing else.
LEMMA Unchanged ==
    ASSUME handlers' = handlers, crons' = crons, NEW p \in Processes
    PROVE  Verdict(p)' = Verdict(p) /\ Enabled(p)' = Enabled(p)
  BY DEF Verdict, Rejected, EnvironmentMissing, CronError, Enabled, IsEnabledIn

\* While the application builds, nothing is decided.
LEMMA BuildingNext ==
    ASSUME IInv, Building, process' = process,
           handlers' \subseteq JobNames, crons' \in Seq(Cron), Len(crons') <= MaxCrons
    PROVE  IInv'
  BY DEF IInv, TypeOK, Decided, Building

LEMMA RunNext == ASSUME IInv, NEW p \in Processes, Run(p) PROVE IInv'
<1> DEFINE r(q) == [state   |-> Verdict(q),
                    enabled |-> IF Verdict(q) = "running" THEN Enabled(q) ELSE {}]
<1>1. process' = [process EXCEPT ![p] = r(p)] /\ handlers' = handlers /\ crons' = crons
  BY DEF Run
<1>2. Enabled(p) \subseteq 1..MaxCrons
  BY StartupAssumption DEF Enabled, IInv, TypeOK
<1>3. Verdict(p) \in {"new", "running"} \cup Errors
  BY VerdictIs DEF IInv
<1>4. r(p) \in [state : {"new", "running"} \cup Errors, enabled : SUBSET (1..MaxCrons)]
  BY <1>2, <1>3
<1>5. TypeOK'
  BY <1>1, <1>4 DEF IInv, TypeOK
<1>6. ASSUME NEW q \in Processes PROVE Decided(q)'
  <2>1. Verdict(q)' = Verdict(q) /\ Enabled(q)' = Enabled(q)
    BY <1>1, Unchanged
  <2>2. \/ process'[q] = process[q]
        \/ /\ process'[q].state = Verdict(q)
           /\ process'[q].enabled = IF Verdict(q) = "running" THEN Enabled(q) ELSE {}
    BY <1>1 DEF IInv, TypeOK
  <2>3. Decided(q)
    BY DEF IInv
  <2> QED
    BY <2>1, <2>2, <2>3 DEF Decided
<1> QED
  BY <1>5, <1>6 DEF IInv

LEMMA InvNext == IInv /\ [Next]_vars => IInv'
<1> SUFFICES ASSUME IInv, [Next]_vars PROVE IInv'
  OBVIOUS
<1>1. CASE UNCHANGED vars
  <2>1. handlers' = handlers /\ crons' = crons /\ process' = process
    BY <1>1 DEF vars
  <2> QED
    BY <2>1, Unchanged DEF IInv, TypeOK, Decided
<1>2. ASSUME NEW n \in JobNames, Register(n) PROVE IInv'
  <2>1. Building /\ process' = process /\ crons' = crons /\ handlers' = handlers \cup {n}
    BY <1>2 DEF Register
  <2> QED
    BY <2>1, BuildingNext DEF IInv, TypeOK
<1>3. ASSUME NEW c \in Cron, Attach(c) PROVE IInv'
  <2>1. /\ Building /\ process' = process /\ handlers' = handlers
        /\ Len(crons) < MaxCrons /\ crons' = Append(crons, c)
    BY <1>3 DEF Attach
  <2>2. crons \in Seq(Cron) /\ handlers \subseteq JobNames
    BY DEF IInv, TypeOK
  <2>3. crons' \in Seq(Cron) /\ Len(crons') = Len(crons) + 1
    BY <2>1, <2>2
  <2>4. Len(crons') <= MaxCrons
    BY <2>1, <2>2, <2>3, StartupAssumption
  <2> QED
    BY <2>1, <2>2, <2>3, <2>4, BuildingNext
<1>4. ASSUME NEW i \in Identifiers, NEW n \in JobNames, AttachDefault(i, n) PROVE IInv'
  <2>1. [identifier |-> i, name |-> n, environments |-> Deployed] \in Cron
    BY StartupAssumption DEF Cron
  <2> QED
    BY <1>3, <1>4, <2>1 DEF AttachDefault
<1> QED
  BY <1>1, <1>2, <1>3, <1>4, RunNext DEF Next
-----------------------------------------------------------------------------
(* The theorems about processes *)

\* The types of the definitions and of what the processes make of them.
THEOREM TypeCorrect == Spec => []TypeOK
<1>1. IInv => TypeOK
  BY DEF IInv
<1> QED
  BY InvInit, InvNext, <1>1, PTL DEF Spec

\* Whatever the application registers and attaches, the processes of every environment
\* accept it or refuse it for the same reason.
THEOREM SameVerdicts == Spec => []SameVerdictEverywhere
<1>1. IInv => SameVerdictEverywhere
  <2> SUFFICES ASSUME IInv, NEW p \in Processes \ Invalid, NEW q \in Processes \ Invalid,
                      process[p] # New, process[q] # New,
                      EnvironmentOf[p] # NULL, EnvironmentOf[q] # NULL
               PROVE  process[p].state = process[q].state
    BY DEF SameVerdictEverywhere
  <2>1. process[p].state = Verdict(p) /\ process[q].state = Verdict(q)
    BY DEF IInv, Decided
  <2> QED
    BY <2>1, SameVerdict
<1> QED
  BY InvInit, InvNext, <1>1, PTL DEF Spec

\* A process that runs enqueues every schedule of its environment.
THEOREM NoneSkipped == Spec => []NeverSkipped
<1>1. IInv => NeverSkipped
  <2> SUFFICES ASSUME IInv, NEW p \in Processes, process[p].state = "running",
                      NEW i \in DOMAIN crons, i \notin process[p].enabled
               PROVE  EnvironmentOf[p] # NULL /\ EnvironmentOf[p] \notin crons[i].environments
    BY DEF NeverSkipped
  <2>1. process[p] # New
    BY DEF New
  <2>2. Verdict(p) = "running" /\ process[p].enabled = Enabled(p)
    BY <2>1 DEF IInv, Decided
  <2>3. ~ EnvironmentMissing(p)
    BY <2>2, VerdictIs DEF IInv
  <2>4. crons # <<>>
    OBVIOUS
  <2> QED
    BY <2>2, <2>3, <2>4 DEF EnvironmentMissing, Enabled, IsEnabledIn
<1> QED
  BY InvInit, InvNext, <1>1, PTL DEF Spec

\* Identifiers are unique over the whole list, so also between environments.
THEOREM OneRow == Spec => []OneRowPerSchedule
<1>1. IInv => OneRowPerSchedule
  <2> SUFFICES ASSUME IInv, NEW p \in Processes, NEW q \in Processes,
                      NEW i \in process[p].enabled, NEW j \in process[q].enabled,
                      crons[i].identifier = crons[j].identifier
               PROVE  i = j
    BY DEF OneRowPerSchedule
  <2>1. ASSUME NEW r \in Processes, NEW e \in process[r].enabled
        PROVE  Verdict(r) = "running" /\ e \in Enabled(r)
    <3>1. process[r] # New
      BY <2>1 DEF New
    <3> QED
      BY <2>1, <3>1 DEF IInv, Decided
  <2>2. i \in DOMAIN crons /\ j \in DOMAIN crons
    BY <2>1 DEF Enabled
  <2>3. CronError(i) = NULL /\ CronError(j) = NULL
    BY <2>1, <2>2, VerdictIs DEF IInv, Rejected
  <2>4. i \in Nat /\ j \in Nat /\ i >= 1 /\ j >= 1
    BY <2>2 DEF IInv, TypeOK
  <2>5. ~ (i < j) /\ ~ (j < i)
    BY <2>3, <2>4, CronPasses
  <2> QED
    BY <2>4, <2>5
<1> QED
  BY InvInit, InvNext, <1>1, PTL DEF Spec
-----------------------------------------------------------------------------
(* Dates *)

\* The first instant of a date, on a local clock.
Midnight(date) == date * DayLength

LEMMA Day == DayLength \in Nat /\ DayLength > 0
  BY ScheduleAssumption

LEMMA Products ==
    ASSUME NEW a \in Int, NEW b \in Int, NEW n \in Nat
    PROVE  /\ a * n \in Int /\ (a + 1) * n = a * n + n
           /\ a <= b => a * n <= b * n
<1>1. a * n \in Int /\ b * n \in Int /\ (b - a) * n = b * n - a * n /\ (a + 1) * n = a * n + n
  OBVIOUS
<1>2. ASSUME a <= b PROVE (b - a) * n >= 0
  <2>1. b - a \in Nat
    BY <1>2
  <2> QED
    BY <2>1
<1> QED
  BY <1>1, <1>2

LEMMA Midnights ==
    ASSUME NEW d \in Int, NEW e \in Int
    PROVE  /\ Midnight(d) \in Int
           /\ d = e + 1 => Midnight(d) = Midnight(e) + DayLength
           /\ d < e => Midnight(d) + DayLength <= Midnight(e)
           /\ d + 2 <= e => Midnight(d) + 2 * DayLength <= Midnight(e)
<1> DEFINE n == DayLength
<1>1. n \in Nat
  BY Day
<1> HIDE DEF n
<1>2. d * n \in Int /\ (d + 1) * n = d * n + n /\ (e + 1) * n = e * n + n
  BY <1>1, Products
<1>3. (d + 1) + 1 \in Int /\ ((d + 1) + 1) * n = (d + 1) * n + n /\ (d + 1) * n \in Int
  BY <1>1, Products
<1>4. (d < e => (d + 1) * n <= e * n) /\ (d + 2 <= e => ((d + 1) + 1) * n <= e * n)
  <2>1. (d < e => d + 1 <= e) /\ (d + 2 <= e => (d + 1) + 1 <= e) /\ d + 1 \in Int
    OBVIOUS
  <2> QED
    BY <1>1, <1>3, <2>1, Products
<1>5. e * n \in Int
  BY <1>1, Products
<1> QED
  BY <1>1, <1>2, <1>3, <1>4, <1>5 DEF Midnight, n

\* The date of a local clock.
LEMMA DateOf ==
    ASSUME NEW x \in Int
    PROVE  /\ x \div DayLength \in Int
           /\ Midnight(x \div DayLength) <= x /\ x < Midnight(x \div DayLength) + DayLength
  BY Day DEF Midnight

LEMMA DatesInOrder ==
    ASSUME NEW x \in Int, NEW y \in Int, x <= y
    PROVE  x \div DayLength <= y \div DayLength
<1> DEFINE d == x \div DayLength
           e == y \div DayLength
<1>1. /\ d \in Int /\ e \in Int /\ Midnight(d) <= x /\ y < Midnight(e) + DayLength
      /\ Midnight(d) \in Int /\ Midnight(e) \in Int
  BY DateOf, Midnights
<1> HIDE DEF d, e
<1>2. e < d => Midnight(e) + DayLength <= Midnight(d)
  BY <1>1, Midnights
<1>3. d <= e
  BY <1>1, <1>2, Day
<1> QED
  BY <1>3 DEF d, e

\* A date is where its instants are.
LEMMA DateFrom ==
    ASSUME NEW x \in Int, NEW d \in Int, Midnight(d) <= x, x < Midnight(d) + DayLength
    PROVE  x \div DayLength = d
<1> DEFINE e == x \div DayLength
<1>1. /\ e \in Int /\ Midnight(e) <= x /\ x < Midnight(e) + DayLength
      /\ Midnight(d) \in Int /\ Midnight(e) \in Int
  BY DateOf, Midnights
<1> HIDE DEF e
<1>2. /\ d < e => Midnight(d) + DayLength <= Midnight(e)
      /\ e < d => Midnight(e) + DayLength <= Midnight(d)
  BY <1>1, Midnights
<1>3. e = d
  BY <1>1, <1>2, Day
<1> QED
  BY <1>3 DEF e

LEMMA TimeOf ==
    ASSUME NEW d \in Int, NEW time \in Times
    PROVE  (Midnight(d) + time) % DayLength = time
<1> DEFINE x == Midnight(d) + time
<1>1. /\ x \in Int /\ time \in Int /\ x = d * DayLength + time
      /\ Midnight(d) <= x /\ x < Midnight(d) + DayLength
  BY Midnights, Day DEF Times, Midnight
<1> HIDE DEF x
<1>2. x \div DayLength = d
  BY <1>1, DateFrom
<1>3. x % DayLength = time
  BY <1>1, <1>2, Day
<1> QED
  BY <1>3 DEF x

LEMMA ZoneIs ==
    ASSUME NEW z \in Zones
    PROVE  /\ z.before \in Int /\ z.after \in Int /\ z.at \in Int
           /\ z.after <= z.before + DayLength /\ z.before <= z.after + DayLength
<1>1. z.before \in Int /\ z.after \in Int /\ z.at \in Int
  BY ZonesAssumption
<1>2. z.after - z.before <= DayLength /\ z.before - z.after <= DayLength
  BY ZonesAssumption
<1> QED
  BY <1>1, <1>2, Day
-----------------------------------------------------------------------------
(* One date of a civil schedule *)

\* Is the schedule's time on date d read with the offset before the transition?
Early(z, d, time) ==
    \/ Midnight(d) + time - z.before < z.at
    \/ Midnight(d) + time - z.after < z.at

LEMMA AtZone ==
    ASSUME NEW z \in Zones, NEW d \in Int, NEW time \in Times
    PROVE  /\ at_time_zone(z, d, time) \in Int
           /\ at_time_zone(z, d, time) = IF Early(z, d, time) THEN Midnight(d) + time - z.before
                                                              ELSE Midnight(d) + time - z.after
<1>1. Midnight(d) \in Int /\ time \in Int
  BY Midnights, Day DEF Times
<1> QED
  BY <1>1, ZoneIs DEF at_time_zone, Early, Midnight

LEMMA TimeIs == ASSUME NEW time \in Times PROVE time \in Int /\ 0 <= time /\ time < DayLength
  BY Day DEF Times

\* The date a local clock shows.
LEMMA LocalDate ==
    ASSUME NEW z \in Zones, NEW t \in Int
    PROVE  /\ local_date(z, t) \in Int /\ offset(z, t) \in Int
           /\ offset(z, t) = IF t < z.at THEN z.before ELSE z.after
           /\ Midnight(local_date(z, t)) \in Int
           /\ Midnight(local_date(z, t)) <= t + offset(z, t)
           /\ t + offset(z, t) < Midnight(local_date(z, t)) + DayLength
<1>1. offset(z, t) \in Int /\ offset(z, t) = IF t < z.at THEN z.before ELSE z.after
  BY ZoneIs DEF offset
<1> DEFINE x == t + offset(z, t)
<1>2. x \in Int
  BY <1>1
<1> HIDE DEF x
<1>3. /\ x \div DayLength \in Int /\ Midnight(x \div DayLength) \in Int
      /\ Midnight(x \div DayLength) <= x /\ x < Midnight(x \div DayLength) + DayLength
  BY <1>2, DateOf, Midnights
<1> QED
  BY <1>1, <1>3 DEF x, local_date

\* Later dates are due later, or at the same instant if a day is skipped.
LEMMA DatesKeepOrder ==
    ASSUME NEW z \in Zones, NEW time \in Times, NEW d \in Int, NEW e \in Int, d <= e
    PROVE  at_time_zone(z, d, time) <= at_time_zone(z, e, time)
<1>1. CASE d = e
  BY <1>1, AtZone
<1>2. CASE d < e
  <2>1. Midnight(d) \in Int /\ Midnight(e) \in Int /\ Midnight(d) + DayLength <= Midnight(e)
    BY <1>2, Midnights
  <2> QED
    BY <2>1, AtZone, TimeIs, ZoneIs, Day DEF Early
<1> QED
  BY <1>1, <1>2

\* Two days before today it has been due, two days after it is yet to be.
LEMMA TwoDaysAway ==
    ASSUME NEW z \in Zones, NEW time \in Times, NEW t \in Int, NEW d \in Int
    PROVE  /\ d + 2 <= local_date(z, t) => at_time_zone(z, d, time) <= t
           /\ local_date(z, t) + 2 <= d => at_time_zone(z, d, time) > t
<1> DEFINE today == local_date(z, t)
<1>1. /\ today \in Int /\ offset(z, t) \in {z.before, z.after} /\ Midnight(today) \in Int
      /\ Midnight(today) <= t + offset(z, t) /\ t + offset(z, t) < Midnight(today) + DayLength
  BY LocalDate
<1> HIDE DEF today
<1>2. /\ Midnight(d) \in Int
      /\ d + 2 <= today => Midnight(d) + 2 * DayLength <= Midnight(today)
      /\ today + 2 <= d => Midnight(today) + 2 * DayLength <= Midnight(d)
  BY <1>1, Midnights
<1>3. /\ d + 2 <= today => at_time_zone(z, d, time) <= t
      /\ today + 2 <= d => at_time_zone(z, d, time) > t
  BY <1>1, <1>2, AtZone, TimeIs, ZoneIs, Day
<1> QED
  BY <1>3 DEF today

\* A date the clock has yet to show has passed only if the clock was set back.
LEMMA LaterDates ==
    ASSUME NEW z \in Zones, NEW time \in Times, NEW t \in Int, NEW d \in Int,
           local_date(z, t) < d, at_time_zone(z, d, time) <= t
    PROVE  \E u \in (t - 2 * DayLength)..t : local_date(z, u) > local_date(z, t)
<1> DEFINE today == local_date(z, t)
           u     == at_time_zone(z, d, time)
<1>1. /\ today \in Int /\ offset(z, t) = (IF t < z.at THEN z.before ELSE z.after)
      /\ Midnight(today) \in Int
      /\ t + offset(z, t) < Midnight(today) + DayLength
  BY LocalDate
<1>2. Midnight(d) \in Int /\ Midnight(today) + DayLength <= Midnight(d)
  BY <1>1, Midnights
<1>3. u \in Int /\ u = IF Early(z, d, time) THEN Midnight(d) + time - z.before
                                            ELSE Midnight(d) + time - z.after
  BY AtZone
<1> HIDE DEF today, u
<1>4. /\ u = Midnight(d) + time - z.before /\ u < z.at /\ u <= t
      /\ t - 2 * DayLength <= u
  BY <1>1, <1>2, <1>3, TimeIs, ZoneIs, Day DEF Early, u
<1>5. u + offset(z, u) = Midnight(d) + time
  BY <1>2, <1>3, <1>4, TimeIs, ZoneIs DEF offset
<1>6. local_date(z, u) = d
  <2> DEFINE x == u + offset(z, u)
  <2>1. x = Midnight(d) + time
    BY <1>5
  <2> HIDE DEF x
  <2>3. x \in Int /\ Midnight(d) <= x /\ x < Midnight(d) + DayLength
    BY <1>2, <2>1, TimeIs, Day
  <2>2. x \div DayLength = d
    BY <2>3, DateFrom
  <2> QED
    BY <2>2 DEF local_date, x
<1>7. u \in (t - 2 * DayLength)..t /\ local_date(z, u) > local_date(z, t)
  BY <1>3, <1>4, <1>6, Day DEF today
<1> QED
  BY <1>7

\* A civil time reads as its date, or as the next one if it was skipped.
LEMMA DateRead ==
    ASSUME NEW z \in Zones, NEW time \in Times, NEW d \in Int
    PROVE  /\ d <= local_date(z, at_time_zone(z, d, time))
           /\ local_date(z, at_time_zone(z, d, time)) <= d + 1
<1> DEFINE t == at_time_zone(z, d, time)
           e == local_date(z, t)
<1>1. t \in Int /\ t = IF Early(z, d, time) THEN Midnight(d) + time - z.before
                                            ELSE Midnight(d) + time - z.after
  BY AtZone
<1> HIDE DEF t
<1>2. /\ e \in Int /\ offset(z, t) = (IF t < z.at THEN z.before ELSE z.after)
      /\ Midnight(e) \in Int
      /\ Midnight(e) <= t + offset(z, t) /\ t + offset(z, t) < Midnight(e) + DayLength
  BY <1>1, LocalDate
<1> HIDE DEF e
<1>3. /\ Midnight(d) \in Int
      /\ e < d => Midnight(e) + DayLength <= Midnight(d)
      /\ d + 2 <= e => Midnight(d) + 2 * DayLength <= Midnight(e)
  BY <1>2, Midnights
<1>4. d <= e /\ e < d + 2
  BY <1>1, <1>2, <1>3, TimeIs, ZoneIs, Day DEF Early
<1> QED
  BY <1>2, <1>4 DEF e, t
-----------------------------------------------------------------------------
(* The searches *)

LEMMA LeastIs ==
    ASSUME NEW S \in SUBSET Nat, S # {}
    PROVE  Least(S) \in S /\ \A n \in S : Least(S) <= n
<1> DEFINE R == {p \in Nat \X Nat : p[1] < p[2]}
<1>1. IsWellFoundedOn(R, Nat)
  BY LessThanWellFounded
<1> HIDE DEF R
<1>2. PICK m \in S : \A y \in S : <<y, m>> \notin R
  BY <1>1, WFMin
<1>3. ASSUME NEW y \in S PROVE m <= y
  <2>1. y \in Nat /\ m \in Nat
    OBVIOUS
  <2>2. <<y, m>> \notin R
    BY <1>2
  <2>3. y < m => <<y, m>> \in R
    BY <2>1 DEF R
  <2> QED
    BY <2>1, <2>2, <2>3
<1> QED
  BY <1>3 DEF Least

CivilSchedules == DailySchedules \cup MonthlySchedules

\* A schedule is due on one of any so many dates in a row.
Reach(s) == IF s.kind = "daily" THEN 6 ELSE 30

LEMMA CivilIs ==
    ASSUME NEW s \in CivilSchedules
    PROVE  /\ s.time \in Times /\ Reach(s) \in Nat /\ Reach(s) <= 30
           /\ s.kind = "daily" => Reach(s) = 6
           /\ s.kind \in {"daily", "monthly"}
  BY DEF CivilSchedules, DailySchedules, MonthlySchedules, Reach

LEMMA OnSomeDate ==
    ASSUME NEW s \in CivilSchedules, NEW d \in FirstDate..(LastDate - 30)
    PROVE  \E n \in 0..Reach(s) : on_date(s, d + n)
<1>0. d \in Int
  BY CalendarAssumption
<1>1. CASE s \in DailySchedules
  <2>1. s.kind = "daily" /\ s.weekdays \in {None} \cup ((SUBSET (0..6)) \ {{}})
    BY <1>1 DEF DailySchedules
  <2>2. CASE s.weekdays = None
    BY <2>1, <2>2 DEF on_date, Reach
  <2>3. CASE s.weekdays # None
    <3>1. PICK w \in s.weekdays : w \in 0..6
      <4> DEFINE W == s.weekdays
                 D == 0..6
      <4>1. W \in {None} \cup ((SUBSET D) \ {{}}) /\ W # None
        BY <2>1, <2>3
      <4> HIDE DEF W, D
      <4>2. W \in SUBSET D /\ W # {}
        BY <4>1
      <4>3. PICK w \in W : w \in D
        BY <4>2
      <4> QED
        BY <4>3 DEF W, D
    <3>2. PICK n \in 0..6 : (d + n) % 7 = w
      <4>1. (w - d) % 7 \in 0..6 /\ (d + ((w - d) % 7)) % 7 = w
        BY <1>0, <3>1
      <4> QED
        BY <4>1
    <3> QED
      BY <2>1, <3>1, <3>2 DEF on_date, weekday, Reach
  <2> QED
    BY <2>2, <2>3
<1>2. CASE s \in MonthlySchedules
  <2>1. s.kind = "monthly" /\ s.day \in 1..28
    BY <1>2 DEF MonthlySchedules
  <2>2. PICK n \in 0..30 : DayOfMonth(d + n) = s.day
    BY <2>1, CalendarAssumption
  <2> QED
    BY <2>1, <2>2 DEF on_date, Reach
<1> QED
  BY <1>1, <1>2 DEF CivilSchedules

\* The search finds the last date, no later than today, on which the schedule was due.
LEMMA LatestSearch ==
    ASSUME NEW s \in CivilSchedules, NEW z \in Zones, NEW t \in Int, NEW bound \in Nat,
           Reach(s) + 2 <= bound,
           local_date(z, t) \in (FirstDate + 32)..(LastDate - 30)
    PROVE  \E d \in Int :
              /\ latest_civil(s, z, t, bound) = at_time_zone(z, d, s.time)
              /\ on_date(s, d) /\ at_time_zone(z, d, s.time) <= t
              /\ local_date(z, t) - 32 <= d /\ d <= local_date(z, t)
              /\ \A e \in Int : /\ e <= local_date(z, t) /\ on_date(s, e)
                                /\ at_time_zone(z, e, s.time) <= t
                                => at_time_zone(z, e, s.time) <= at_time_zone(z, d, s.time)
<1> DEFINE today == local_date(z, t)
           hits  == {n \in 0..bound : /\ on_date(s, today - n)
                                      /\ at_time_zone(z, today - n, s.time) <= t}
           k     == Least(hits)
<1>0. today \in Int /\ s.time \in Times /\ Reach(s) \in Nat /\ Reach(s) <= 30
      /\ FirstDate \in Int /\ LastDate \in Int
      /\ FirstDate + 32 <= today /\ today <= LastDate - 30
  BY LocalDate, CivilIs, CalendarAssumption
<1>1. latest_civil(s, z, t, bound) = IF hits = {} THEN None ELSE at_time_zone(z, today - k, s.time)
  BY DEF latest_civil
<1>2. PICK n \in 2..(Reach(s) + 2) : n \in hits
  <2> DEFINE b == today - (Reach(s) + 2)
  <2>1. b \in FirstDate..(LastDate - 30)
    BY <1>0
  <2>2. PICK i \in 0..Reach(s) : on_date(s, b + i)
    BY <2>1, OnSomeDate
  <2> DEFINE n == (Reach(s) + 2) - i
  <2>3. n \in 2..(Reach(s) + 2) /\ n \in 0..bound /\ today - n = b + i /\ (today - n) + 2 <= today
    BY <1>0
  <2>4. at_time_zone(z, today - n, s.time) <= t
    <3> HIDE DEF n
    <3>1. today - n \in Int
      BY <1>0, <2>3
    <3> QED
      BY <1>0, <2>3, <3>1, TwoDaysAway
  <2> QED
    BY <2>2, <2>3, <2>4
<1>3. hits \in SUBSET Nat /\ hits # {} /\ n <= 32 /\ n \in Nat
  BY <1>0, <1>2
<1> HIDE DEF hits
<1>4. k \in hits /\ \A m \in hits : k <= m
  BY <1>3, LeastIs
<1>5. k \in Nat /\ k <= bound /\ k <= 32 /\ on_date(s, today - k)
      /\ at_time_zone(z, today - k, s.time) <= t
  BY <1>2, <1>3, <1>4 DEF hits
<1> HIDE DEF k, today
<1>6. ASSUME NEW e \in Int, e <= today, on_date(s, e), at_time_zone(z, e, s.time) <= t
      PROVE  e <= today - k
  <2> DEFINE m == today - e
  <2>1. m \in Nat /\ today - m = e
    BY <1>0, <1>6
  <2>2. CASE m <= bound
    <3> HIDE DEF m
    <3>1. m \in hits
      BY <1>6, <2>1, <2>2 DEF hits, today
    <3> QED
      BY <1>0, <1>4, <1>5, <2>1, <3>1
  <2>3. CASE m > bound
    BY <1>0, <1>5, <2>1, <2>3
  <2> QED
    BY <1>0, <2>1, <2>2, <2>3
<1> DEFINE d == today - k
<1>7. d \in Int /\ today - 32 <= d /\ d <= today
  BY <1>0, <1>5
<1>8. \A e \in Int : /\ e <= today /\ on_date(s, e) /\ at_time_zone(z, e, s.time) <= t
                     => at_time_zone(z, e, s.time) <= at_time_zone(z, d, s.time)
  BY <1>0, <1>6, <1>7, DatesKeepOrder
<1>9. latest_civil(s, z, t, bound) = at_time_zone(z, d, s.time)
  BY <1>1, <1>3
<1> QED
  BY <1>5, <1>7, <1>8, <1>9 DEF today

\* The search finds the first date from today on on which the schedule is yet to be due.
LEMMA NextSearch ==
    ASSUME NEW s \in CivilSchedules, NEW z \in Zones, NEW t \in Int, NEW bound \in Nat,
           NEW fallback, Reach(s) + 2 <= bound,
           local_date(z, t) \in FirstDate..(LastDate - 32)
    PROVE  \E d \in Int :
              /\ next_civil(s, z, t, bound, fallback) = at_time_zone(z, d, s.time)
              /\ on_date(s, d) /\ at_time_zone(z, d, s.time) > t
              /\ local_date(z, t) <= d /\ d <= local_date(z, t) + 32
              /\ \A e \in Int : /\ local_date(z, t) <= e /\ on_date(s, e)
                                /\ at_time_zone(z, e, s.time) > t
                                => at_time_zone(z, d, s.time) <= at_time_zone(z, e, s.time)
<1> DEFINE today == local_date(z, t)
           hits  == {n \in 0..bound : /\ on_date(s, today + n)
                                      /\ at_time_zone(z, today + n, s.time) > t}
           k     == Least(hits)
<1>0. today \in Int /\ s.time \in Times /\ Reach(s) \in Nat /\ Reach(s) <= 30
      /\ FirstDate \in Int /\ LastDate \in Int
      /\ FirstDate <= today /\ today <= LastDate - 32
  BY LocalDate, CivilIs, CalendarAssumption
<1>1. next_civil(s, z, t, bound, fallback) =
        IF hits = {} THEN t + fallback * DayLength ELSE at_time_zone(z, today + k, s.time)
  BY DEF next_civil
<1>2. PICK n \in 2..(Reach(s) + 2) : n \in hits
  <2> DEFINE b == today + 2
  <2>1. b \in FirstDate..(LastDate - 30)
    BY <1>0
  <2>2. PICK i \in 0..Reach(s) : on_date(s, b + i)
    BY <2>1, OnSomeDate
  <2> DEFINE n == i + 2
  <2>3. n \in 2..(Reach(s) + 2) /\ n \in 0..bound /\ today + n = b + i /\ today + 2 <= today + n
    BY <1>0
  <2>4. at_time_zone(z, today + n, s.time) > t
    <3> HIDE DEF n
    <3>1. today + n \in Int
      BY <1>0, <2>3
    <3> QED
      BY <1>0, <2>3, <3>1, TwoDaysAway
  <2> QED
    BY <2>2, <2>3, <2>4
<1>3. hits \in SUBSET Nat /\ hits # {} /\ n <= 32 /\ n \in Nat
  BY <1>0, <1>2
<1> HIDE DEF hits
<1>4. k \in hits /\ \A m \in hits : k <= m
  BY <1>3, LeastIs
<1>5. k \in Nat /\ k <= bound /\ k <= 32 /\ on_date(s, today + k)
      /\ at_time_zone(z, today + k, s.time) > t
  BY <1>2, <1>3, <1>4 DEF hits
<1> HIDE DEF k, today
<1>6. ASSUME NEW e \in Int, today <= e, on_date(s, e), at_time_zone(z, e, s.time) > t
      PROVE  today + k <= e
  <2> DEFINE m == e - today
  <2>1. m \in Nat /\ today + m = e
    BY <1>0, <1>6
  <2>2. CASE m <= bound
    <3> HIDE DEF m
    <3>1. m \in hits
      BY <1>6, <2>1, <2>2 DEF hits, today
    <3> QED
      BY <1>0, <1>4, <1>5, <2>1, <3>1
  <2>3. CASE m > bound
    BY <1>0, <1>5, <2>1, <2>3
  <2> QED
    BY <1>0, <2>1, <2>2, <2>3
<1> DEFINE d == today + k
<1>7. d \in Int /\ today <= d /\ d <= today + 32
  BY <1>0, <1>5
<1>8. \A e \in Int : /\ today <= e /\ on_date(s, e) /\ at_time_zone(z, e, s.time) > t
                     => at_time_zone(z, d, s.time) <= at_time_zone(z, e, s.time)
  BY <1>0, <1>6, <1>7, DatesKeepOrder
<1>9. next_civil(s, z, t, bound, fallback) = at_time_zone(z, d, s.time)
  BY <1>1, <1>3
<1> QED
  BY <1>5, <1>7, <1>8, <1>9 DEF today

\* What a local clock shows when a civil schedule is due: the scheduled time, or that
\* time plus the gap; and it shows it for the first time.
LEMMA TimeRead ==
    ASSUME NEW z \in Zones, NEW time \in Times, NEW d \in Int
    PROVE  LET t     == at_time_zone(z, d, time)
               shown == t + offset(z, t)
               gap   == z.after - z.before
           IN  /\ \/ shown % DayLength = time
                  \/ /\ gap > 0 /\ t >= z.at /\ t < z.at + gap
                     /\ (shown - gap) % DayLength = time
               /\ \A u \in Int : u < t => u + offset(z, u) # shown
<1> DEFINE t     == at_time_zone(z, d, time)
           shown == t + offset(z, t)
           gap   == z.after - z.before
<1>1. t \in Int /\ t = IF Early(z, d, time) THEN Midnight(d) + time - z.before
                                            ELSE Midnight(d) + time - z.after
  BY AtZone
<1>2. Midnight(d) \in Int /\ (Midnight(d) + time) % DayLength = time
  BY Midnights, TimeOf
<1> HIDE DEF t
<1>3. \/ shown = Midnight(d) + time
      \/ gap > 0 /\ t >= z.at /\ t < z.at + gap /\ shown - gap = Midnight(d) + time
  BY <1>1, <1>2, TimeIs, ZoneIs DEF Early, offset
<1>4. ASSUME NEW u \in Int, u < t PROVE u + offset(z, u) # shown
  BY <1>1, <1>2, <1>4, TimeIs, ZoneIs DEF Early, offset
<1> HIDE DEF shown, gap
<1>5. \/ shown % DayLength = time
      \/ gap > 0 /\ t >= z.at /\ t < z.at + gap /\ (shown - gap) % DayLength = time
  BY <1>2, <1>3
<1> QED
  BY <1>4, <1>5 DEF shown, gap, t
-----------------------------------------------------------------------------
(* Intervals *)

\* The multiple of n that an instant follows.
LEMMA Multiples ==
    ASSUME NEW n \in Nat \ {0}, NEW q \in Int
    PROVE  /\ q * n \in Int /\ (q * n) \div n = q /\ (q * n) % n = 0
           /\ \A x \in Int : q * n <= x /\ x < q * n + n => x \div n = q
<1>1. q * n \in Int /\ (q + 1) * n = q * n + n
  BY Products
<1>2. ASSUME NEW x \in Int, q * n <= x, x < q * n + n PROVE x \div n = q
  <2> DEFINE k == x \div n
  <2>1. k \in Int /\ k * n <= x /\ x < k * n + n /\ k * n \in Int /\ (k + 1) * n = k * n + n
    OBVIOUS
  <2> HIDE DEF k
  <2>2. (k < q => (k + 1) * n <= q * n) /\ (q < k => (q + 1) * n <= k * n)
    <3>1. (k < q => k + 1 <= q) /\ (q < k => q + 1 <= k) /\ k + 1 \in Int /\ q + 1 \in Int
      BY <2>1
    <3> QED
      BY <2>1, <3>1, Products
  <2>3. k = q
    BY <1>1, <1>2, <2>1, <2>2
  <2> QED
    BY <2>3 DEF k
<1>3. (q * n) \div n = q
  BY <1>1, <1>2
<1>4. (q * n) % n = 0
  BY <1>1, <1>3
<1> QED
  BY <1>1, <1>2, <1>3, <1>4

Length(every) == interval_secs(every) * Second

LEMMA LengthIs ==
    ASSUME NEW every \in Nat
    PROVE  /\ interval_secs(every) \in Nat \ {0} /\ Length(every) \in Nat \ {0}
           /\ Second \in Nat \ {0}
<1>1. Second \in Nat \ {0}
  BY ScheduleAssumption
<1> DEFINE q == every \div Second
<1>2. q \in Int /\ every < q * Second + Second
  BY <1>1
<1>3. q \in Nat
  <2>1. q < 0 => q * Second + Second <= 0
    <3> HIDE DEF q
    <3>1. q < 0 => q + 1 <= 0
      BY <1>2
    <3>2. (q + 1) * Second = q * Second + Second /\ (q + 1 <= 0 => (q + 1) * Second <= 0 * Second)
      BY <1>1, <1>2, Products
    <3> QED
      BY <1>1, <3>1, <3>2
  <2> HIDE DEF q
  <2>2. q * Second \in Int
    BY <1>1, <1>2
  <2> QED
    BY <1>1, <1>2, <2>1, <2>2
<1>4. interval_secs(every) \in Nat \ {0}
  <2> HIDE DEF q
  <2> QED
    BY <1>3 DEF interval_secs, q
<1>5. Length(every) \in Nat \ {0}
  <2> DEFINE a == interval_secs(every)
  <2> HIDE DEF a
  <2>1. a \in Nat \ {0}
    BY <1>4 DEF a
  <2>2. a * Second \in Nat \ {0}
    BY <1>1, <2>1
  <2> QED
    BY <2>2 DEF a, Length
<1> QED
  BY <1>1, <1>4, <1>5

\* Whole seconds, truncated.
LEMMA Seconds ==
    ASSUME NEW t \in Int
    PROVE  /\ as_second(t) \in Int /\ as_second(t) * Second \in Int
           /\ as_second(t) * Second < t + Second /\ t < as_second(t) * Second + Second
           /\ ~ RoundedUp(t) => as_second(t) * Second <= t
<1>1. Second \in Nat \ {0}
  BY ScheduleAssumption
<1>2. CASE t >= 0
  <2> DEFINE q == t \div Second
  <2>1. q \in Int /\ q * Second \in Int /\ q * Second <= t /\ t < q * Second + Second
    BY <1>1
  <2>2. as_second(t) = q
    BY <1>2 DEF as_second
  <2> HIDE DEF q
  <2> QED
    BY <1>1, <2>1, <2>2
<1>3. CASE t < 0
  <2> DEFINE u == 0 - t
             q == u \div Second
             w == 0 - q
  <2>1. q \in Int /\ q * Second \in Int /\ q * Second <= u /\ u < q * Second + Second
    BY <1>1
  <2>2. as_second(t) = w
    BY <1>3 DEF as_second
  <2>3. t % Second = 0 => q * Second = u
    <3>1. t % Second = 0 => t = (t \div Second) * Second /\ t \div Second \in Int
      BY <1>1
    <3> DEFINE k == 0 - (t \div Second)
    <3>2. t % Second = 0 => k \in Int /\ u = k * Second
      BY <1>1, <3>1
    <3> HIDE DEF k, u
    <3>3. k \in Int => (k * Second) \div Second = k
      BY <1>1, Multiples
    <3> QED
      BY <3>2, <3>3
  <2> HIDE DEF q
  <2>4. w \in Int /\ w * Second = 0 - q * Second
    BY <1>1, <2>1
  <2> HIDE DEF w
  <2> QED
    BY <1>1, <1>3, <2>1, <2>2, <2>3, <2>4 DEF RoundedUp
<1> QED
  BY <1>2, <1>3

\* The latest multiple of the interval, and the next one.
LEMMA IntervalIs ==
    ASSUME NEW every \in Nat, NEW t \in Int
    PROVE  LET n    == Length(every)
               last == latest_interval_due_at(t, every)
           IN  /\ last \in Int /\ last % n = 0 /\ last < t + Second /\ t < last + n
               /\ ~ RoundedUp(t) => last <= t
               /\ next_interval_after(last, every) = last + n
<1> DEFINE a == interval_secs(every)
           r == as_second(t)
           q == r \div a
<1>1. a \in Nat \ {0} /\ Second \in Nat \ {0} /\ Length(every) = a * Second
      /\ Length(every) \in Nat \ {0}
  BY LengthIs DEF Length
<1>l. latest_interval_due_at(t, every) = (q * a) * Second
  BY DEF latest_interval_due_at
<1> HIDE DEF a
<1>2. /\ r \in Int /\ r * Second < t + Second /\ t < r * Second + Second /\ r * Second \in Int
      /\ ~ RoundedUp(t) => r * Second <= t
  BY Seconds
<1> HIDE DEF r
<1>3. q \in Int /\ q * a <= r /\ r < q * a + a /\ q * a \in Int
  BY <1>1, <1>2
<1> HIDE DEF q
<1> DEFINE last == (q * a) * Second
<1>4. last \in Int /\ last = q * Length(every)
  BY <1>1, <1>3
<1>5. last % Length(every) = 0
  <2> DEFINE n == Length(every)
  <2>1. n \in Nat \ {0} /\ last = q * n
    BY <1>1, <1>4
  <2> HIDE DEF n, last
  <2>2. (q * n) % n = 0
    BY <1>3, <2>1, Multiples
  <2> QED
    BY <2>1, <2>2 DEF n
<1>6. last < t + Second /\ t < last + Length(every) /\ (~ RoundedUp(t) => last <= t)
  <2>1. (q * a) * Second <= r * Second /\ (r + 1) * Second <= (q * a + a) * Second
        /\ (r + 1) * Second = r * Second + Second
    <3>1. r + 1 <= q * a + a /\ r + 1 \in Int /\ q * a + a \in Int
      BY <1>1, <1>2, <1>3
    <3> QED
      BY <1>1, <1>2, <1>3, <3>1, Products
  <2>2. (q * a + a) * Second = last + Length(every)
    BY <1>1, <1>3
  <2> QED
    BY <1>1, <1>2, <1>4, <2>1, <2>2
<1>7. next_interval_after(last, every) = last + Length(every)
  <2>1. as_second(last) = q * a
    <3> DEFINE k == q * a
               m == 0 - k
    <3>1. k \in Int /\ m \in Int /\ m * Second = 0 - k * Second /\ k * Second \in Int
      BY <1>1, <1>3
    <3>2. last = k * Second
      OBVIOUS
    <3> HIDE DEF k, m, last
    <3>3. (k * Second) \div Second = k /\ (m * Second) \div Second = m
      BY <1>1, <3>1, Multiples
    <3>4. as_second(last) = IF last >= 0 THEN k ELSE 0 - m
      BY <3>1, <3>2, <3>3 DEF as_second
    <3>5. as_second(last) = k
      BY <3>1, <3>4 DEF m
    <3> QED
      BY <3>5 DEF k
  <2>2. (q * a) \div a = q
    BY <1>1, <1>3, Multiples
  <2>3. next_interval_after(last, every) = ((q + 1) * a) * Second
    BY <2>1, <2>2 DEF next_interval_after, a
  <2>4. (q + 1) * a = q * a + a
    BY <1>1, <1>3
  <2>5. (q * a + a) * Second = (q * a) * Second + a * Second
    BY <1>1, <1>3
  <2> QED
    BY <1>1, <2>3, <2>4, <2>5
<1> QED
  BY <1>4, <1>5, <1>6, <1>7, <1>l

LEMMA MultiplesApart ==
    ASSUME NEW n \in Nat \ {0}, NEW a \in Int, NEW b \in Int, a % n = 0, b % n = 0, a < b
    PROVE  a + n <= b
<1> DEFINE q == a \div n
           k == b \div n
<1>1. q \in Int /\ a = q * n /\ k \in Int /\ b = k * n
  OBVIOUS
<1> HIDE DEF q, k
<1>2. b < a + n => k = q
  <2>1. b < a + n => b \div n = q
    BY <1>1, Multiples
  <2>2. b \div n = k
    BY <1>1, Multiples
  <2> QED
    BY <2>1, <2>2
<1> QED
  BY <1>1, <1>2

LEMMA NextMultiple ==
    ASSUME NEW n \in Nat \ {0}, NEW a \in Int, a % n = 0
    PROVE  (a + n) % n = 0
<1> DEFINE q == a \div n
<1>1. q \in Int /\ a = q * n
  OBVIOUS
<1> HIDE DEF q
<1>2. q + 1 \in Int /\ (q + 1) * n = a + n
  BY <1>1, Products
<1> DEFINE k == q + 1
<1>3. k \in Int /\ k * n = a + n
  BY <1>2
<1> HIDE DEF k
<1>4. (k * n) % n = 0
  BY <1>3, Multiples
<1> QED
  BY <1>3, <1>4
-----------------------------------------------------------------------------
(* The clock *)

\* The clock stays within its bounds, and its local date within the calendar.
ClockOK ==
    /\ schedule \in Schedules /\ zone \in Zones /\ now \in Int
    /\ now = FirstInstant \/ (FirstInstant <= now /\ now <= LastInstant)

LEMMA ClockRuns == ClockSpec => []ClockOK
<1>1. ClockInit => ClockOK
  BY ClockAssumption DEF ClockInit, ClockOK
<1>2. ClockOK /\ [ClockTick]_clock => ClockOK'
  BY ClockAssumption DEF ClockOK, ClockTick, clock
<1> QED
  BY <1>1, <1>2, PTL DEF ClockSpec

LEMMA InCalendar ==
    ASSUME ClockOK
    PROVE  local_date(zone, now) \in (FirstDate + 40)..(LastDate - 80)
<1> DEFINE shift == offset(zone, now)
<1>0. /\ FirstDate \in Int /\ LastDate \in Int /\ FirstInstant \in Int /\ LastInstant \in Int
      /\ now \in Int /\ zone \in Zones
  BY CalendarAssumption, ClockAssumption DEF ClockOK
<1>1. shift \in {zone.before, zone.after} /\ shift \in Int
  BY <1>0, ZoneIs DEF offset
<1>2. /\ (FirstInstant + shift) \div DayLength \in (FirstDate + 40)..(LastDate - 80)
      /\ (LastInstant + shift) \div DayLength \in (FirstDate + 40)..(LastDate - 80)
  BY <1>0, <1>1, ClockAssumption
<1>3. local_date(zone, now) = (now + shift) \div DayLength
  BY DEF local_date
<1> HIDE DEF shift
<1>4. CASE now = FirstInstant
  BY <1>2, <1>3, <1>4
<1>5. CASE FirstInstant <= now /\ now <= LastInstant
  <2> DEFINE x == FirstInstant + shift
             y == now + shift
             w == LastInstant + shift
  <2>1. x \in Int /\ y \in Int /\ w \in Int /\ x <= y /\ y <= w
    BY <1>0, <1>1, <1>5
  <2>2. /\ x \div DayLength \in (FirstDate + 40)..(LastDate - 80)
        /\ w \div DayLength \in (FirstDate + 40)..(LastDate - 80)
        /\ local_date(zone, now) = y \div DayLength
    BY <1>2, <1>3
  <2> HIDE DEF x, y, w
  <2>3. /\ x \div DayLength <= y \div DayLength /\ y \div DayLength <= w \div DayLength
        /\ y \div DayLength \in Int
    BY <2>1, DatesInOrder, DateOf
  <2> QED
    BY <1>0, <2>2, <2>3
<1> QED
  BY <1>4, <1>5 DEF ClockOK

LEMMA KindIs ==
    ASSUME ClockOK
    PROVE  \/ schedule \in CivilSchedules /\ schedule.kind \in {"daily", "monthly"}
           \/ schedule.kind = "interval" /\ schedule.every \in Nat
  BY SchedulesAssumption DEF ClockOK, CivilSchedules, DailySchedules, MonthlySchedules,
     IntervalSchedules

\* When a civil schedule was last due, and when it is due next.
LEMMA CivilLatest ==
    ASSUME NEW s \in CivilSchedules, NEW z \in Zones, NEW t \in Int,
           local_date(z, t) \in (FirstDate + 40)..(LastDate - 80)
    PROVE  LET last == latest_due_at(s, z, t)
           IN  \E d \in FirstDate..LastDate :
                  /\ last = at_time_zone(z, d, s.time) /\ last <= t /\ on_date(s, d)
                  /\ local_date(z, t) - 32 <= d /\ d <= local_date(z, t)
                  /\ \A e \in Int : /\ e <= local_date(z, t) /\ on_date(s, e)
                                    /\ at_time_zone(z, e, s.time) <= t
                                    => at_time_zone(z, e, s.time) <= last
<1> DEFINE bound == IF s.kind = "daily" THEN 8 ELSE 370
<1>1. FirstDate \in Int /\ LastDate \in Int /\ bound \in Nat /\ Reach(s) + 2 <= bound
  BY CivilIs, CalendarAssumption DEF Reach
<1>2. latest_due_at(s, z, t) = latest_civil(s, z, t, bound)
  BY CivilIs DEF latest_due_at
<1>3. local_date(z, t) \in (FirstDate + 32)..(LastDate - 30)
  BY <1>1
<1> HIDE DEF bound
<1>4. PICK d \in Int :
        /\ latest_civil(s, z, t, bound) = at_time_zone(z, d, s.time)
        /\ on_date(s, d) /\ at_time_zone(z, d, s.time) <= t
        /\ local_date(z, t) - 32 <= d /\ d <= local_date(z, t)
        /\ \A e \in Int : /\ e <= local_date(z, t) /\ on_date(s, e)
                          /\ at_time_zone(z, e, s.time) <= t
                          => at_time_zone(z, e, s.time) <= at_time_zone(z, d, s.time)
  BY <1>1, <1>3, LatestSearch
<1>5. d \in FirstDate..LastDate
  BY <1>1, <1>4, LocalDate
<1> QED
  BY <1>2, <1>4, <1>5

LEMMA CivilNext ==
    ASSUME NEW s \in CivilSchedules, NEW z \in Zones, NEW t \in Int,
           local_date(z, t) \in (FirstDate + 40)..(LastDate - 80)
    PROVE  LET last == latest_due_at(s, z, t)
               next == next_after(s, z, last)
           IN  \E d \in FirstDate..LastDate :
                  /\ next = at_time_zone(z, d, s.time) /\ next > last /\ on_date(s, d)
                  /\ \A e \in Int : on_date(s, e) /\ at_time_zone(z, e, s.time) > last
                                    => next <= at_time_zone(z, e, s.time)
<1> DEFINE last     == latest_due_at(s, z, t)
           next     == next_after(s, z, last)
           day      == local_date(z, last)
           bound    == IF s.kind = "daily" THEN 8 ELSE 370
           fallback == IF s.kind = "daily" THEN 1 ELSE 31
<1>1. /\ bound \in Nat /\ Reach(s) + 2 <= bound /\ FirstDate \in Int /\ LastDate \in Int
      /\ s.time \in Times
  BY CivilIs, CalendarAssumption DEF Reach
<1>2. next = next_civil(s, z, last, bound, fallback)
  <2> HIDE DEF last
  <2> QED
    BY CivilIs DEF next_after
<1>3. PICK d \in Int :
        /\ last = at_time_zone(z, d, s.time)
        /\ local_date(z, t) - 32 <= d /\ d <= local_date(z, t)
  BY <1>1, CivilLatest
<1> HIDE DEF last
<1>4. last \in Int /\ day \in Int /\ d <= day /\ day <= d + 1
  <2>1. last \in Int
    BY <1>1, <1>3, AtZone
  <2>2. day \in Int
    BY <2>1, LocalDate
  <2> QED
    BY <1>1, <1>3, <2>1, <2>2, DateRead
<1> HIDE DEF bound, fallback, day, next
<1>5. day \in (FirstDate + 8)..(LastDate - 79) /\ day \in FirstDate..(LastDate - 32)
  BY <1>1, <1>3, <1>4, LocalDate
<1>6. PICK f \in Int :
        /\ next = at_time_zone(z, f, s.time) /\ on_date(s, f) /\ next > last
        /\ day <= f /\ f <= day + 32
        /\ \A e \in Int : day <= e /\ on_date(s, e) /\ at_time_zone(z, e, s.time) > last
                          => next <= at_time_zone(z, e, s.time)
  BY <1>1, <1>2, <1>4, <1>5, NextSearch DEF day
<1>7. f \in FirstDate..LastDate
  BY <1>1, <1>4, <1>5, <1>6
<1>8. ASSUME NEW e \in Int, on_date(s, e), at_time_zone(z, e, s.time) > last
      PROVE  next <= at_time_zone(z, e, s.time)
  <2>1. CASE day <= e
    BY <1>6, <1>8, <2>1
  <2>2. CASE e < day
    <3>1. e <= d
      BY <1>4, <2>2
    <3>2. at_time_zone(z, e, s.time) <= last
      BY <1>1, <1>3, <3>1, DatesKeepOrder
    <3> QED
      BY <1>1, <1>4, <1>8, <3>2, AtZone
  <2> QED
    BY <1>4, <2>1, <2>2
<1> QED
  BY <1>6, <1>7, <1>8 DEF next, last

LEMMA IntervalDue ==
    ASSUME NEW s, NEW z, NEW t \in Int, s.kind = "interval", s.every \in Nat
    PROVE  LET n    == Length(s.every)
               last == latest_due_at(s, z, t)
           IN  /\ n \in Nat \ {0} /\ last \in Int /\ last % n = 0
               /\ last < t + Second /\ t < last + n
               /\ ~ RoundedUp(t) => last <= t
               /\ next_after(s, z, last) = last + n
<1>1. latest_due_at(s, z, t) = latest_interval_due_at(t, s.every)
  BY DEF latest_due_at
<1>2. \A x : next_after(s, z, x) = next_interval_after(x, s.every)
  BY DEF next_after
<1> QED
  BY <1>1, <1>2, LengthIs, IntervalIs

LEMMA CivilOccurrences ==
    ASSUME ClockOK, schedule \in CivilSchedules
    PROVE  /\ \A d \in FirstDate..LastDate :
                 on_date(schedule, d) => at_time_zone(zone, d, schedule.time) \in Occurrences
           /\ \A t \in Occurrences :
                 \E d \in FirstDate..LastDate :
                    on_date(schedule, d) /\ t = at_time_zone(zone, d, schedule.time)
<1>1. schedule.kind # "interval"
  BY CivilIs
<1> QED
  BY <1>1 DEF Occurrences

-----------------------------------------------------------------------------
(* The theorems about schedules *)

LEMMA CivilGreatest == ASSUME ClockOK, schedule \in CivilSchedules PROVE LatestIsGreatest
<1>1. /\ now \in Int /\ zone \in Zones /\ schedule.time \in Times
      /\ local_date(zone, now) \in (FirstDate + 40)..(LastDate - 80)
  BY CivilIs, InCalendar DEF ClockOK
<1>2. PICK d \in FirstDate..LastDate :
        /\ due = at_time_zone(zone, d, schedule.time) /\ due <= now /\ on_date(schedule, d)
        /\ \A e \in Int : /\ e <= local_date(zone, now) /\ on_date(schedule, e)
                          /\ at_time_zone(zone, e, schedule.time) <= now
                          => at_time_zone(zone, e, schedule.time) <= due
  BY <1>1, CivilLatest DEF due
<1>3. due \in Occurrences
  BY <1>2, CivilOccurrences
<1>4. due # None
  <2>1. d \in Int
    BY CalendarAssumption
  <2>2. due \in Int
    BY <1>1, <1>2, <2>1, AtZone
  <2> QED
    BY <2>2, ScheduleAssumption
<1>5. ASSUME ~DateSetBack, NEW t \in Occurrences, t <= now PROVE t <= due
  <2>1. PICK e \in FirstDate..LastDate :
          on_date(schedule, e) /\ t = at_time_zone(zone, e, schedule.time)
    BY CivilOccurrences
  <2>2. e \in Int /\ local_date(zone, now) \in Int
    BY <1>1, CalendarAssumption, LocalDate
  <2>3. e <= local_date(zone, now)
    <3>1. local_date(zone, now) < e => DateSetBack
      BY <1>1, <1>5, <2>1, <2>2, LaterDates DEF DateSetBack
    <3> QED
      BY <1>5, <2>2, <3>1
  <2> QED
    BY <1>2, <1>5, <2>1, <2>2, <2>3
<1>6. due < now + Second
  <2>1. d \in Int
    BY CalendarAssumption
  <2> QED
    BY <1>1, <1>2, <2>1, AtZone, ScheduleAssumption
<1>7. schedule.kind # "interval"
  BY CivilIs
<1> QED
  BY <1>2, <1>3, <1>4, <1>5, <1>6, <1>7 DEF LatestIsGreatest

LEMMA CivilLeast == ASSUME ClockOK, schedule \in CivilSchedules PROVE NextIsLeast
<1> DEFINE next == next_after(schedule, zone, due)
<1>1. /\ now \in Int /\ zone \in Zones
      /\ local_date(zone, now) \in (FirstDate + 40)..(LastDate - 80)
  BY InCalendar DEF ClockOK
<1>2. PICK d \in FirstDate..LastDate :
        /\ next = at_time_zone(zone, d, schedule.time) /\ next > due /\ on_date(schedule, d)
        /\ \A e \in Int : on_date(schedule, e) /\ at_time_zone(zone, e, schedule.time) > due
                          => next <= at_time_zone(zone, e, schedule.time)
  BY <1>1, CivilNext DEF due
<1> HIDE DEF next
<1>3. next \in Occurrences
  BY <1>2, CivilOccurrences
<1>4. ASSUME NEW t \in Occurrences, t > due PROVE next <= t
  <2>1. PICK e \in FirstDate..LastDate :
          on_date(schedule, e) /\ t = at_time_zone(zone, e, schedule.time)
    BY CivilOccurrences
  <2>2. e \in Int
    BY CalendarAssumption
  <2> QED
    BY <1>2, <1>4, <2>1, <2>2
<1> QED
  BY <1>2, <1>3, <1>4 DEF NextIsLeast, next

LEMMA IntervalLatestNext ==
    ASSUME ClockOK, schedule.kind = "interval", schedule.every \in Nat
    PROVE  LatestIsGreatest /\ NextIsLeast
<1> DEFINE n    == Length(schedule.every)
           last == due
           next == next_after(schedule, zone, last)
           all  == Occurrences
<1>1. /\ n \in Nat \ {0} /\ last \in Int /\ last % n = 0 /\ next = last + n
      /\ last < now + Second /\ now < last + n /\ (~ RoundedUp(now) => last <= now)
      /\ all = {t \in (now - n)..(now + 2 * n) : t % n = 0}
      /\ now \in Int /\ Second \in Nat /\ Second <= n
  <2>1. now \in Int
    BY DEF ClockOK
  <2>2. /\ n \in Nat \ {0} /\ last \in Int /\ last % n = 0 /\ next = last + n
        /\ last < now + Second /\ now < last + n /\ (~ RoundedUp(now) => last <= now)
    BY <2>1, IntervalDue DEF due
  <2>3. Second \in Nat /\ Second <= n
    <3> DEFINE a == interval_secs(schedule.every)
    <3>1. a \in Nat \ {0} /\ Second \in Nat \ {0} /\ n = a * Second
      BY LengthIs DEF Length
    <3> HIDE DEF a, n
    <3>2. 1 <= a => 1 * Second <= a * Second
      BY <3>1, Products
    <3> QED
      BY <3>1, <3>2
  <2> QED
    BY <2>1, <2>2, <2>3 DEF Occurrences, Length
<1> HIDE DEF n, last, next, all
<1>2. last \in all /\ next \in all /\ next > last
  <2>1. (last + n) % n = 0
    BY <1>1, NextMultiple
  <2> QED
    BY <1>1, <2>1
<1>3. ASSUME NEW t \in all PROVE t <= last \/ next <= t
  <2>1. t \in Int /\ t % n = 0
    BY <1>1
  <2>2. last < t => last + n <= t
    BY <1>1, <2>1, MultiplesApart
  <2>3. last \in Int /\ next = last + n
    BY <1>1
  <2> QED
    BY <2>1, <2>2, <2>3
<1>4. /\ \A t \in all : t \in Int
      /\ last \in Int /\ next \in Int /\ now \in Int /\ now < next /\ last < next
  BY <1>1
<1>5. last # None
  BY <1>1, ScheduleAssumption
<1>6. \A t \in all : t <= now => t <= last
  BY <1>1, <1>3, <1>4
<1>7. \A t \in all : t > last => next <= t
  BY <1>1, <1>3, <1>4
<1> QED
  BY <1>1, <1>2, <1>5, <1>6, <1>7 DEF LatestIsGreatest, NextIsLeast, last, next, all

\* latest_due_at, whatever the schedule and wherever the zone's transition: bounding the
\* searches by 8 and 370 days loses no occurrence.  Its answer is in the future only for an
\* interval in the last second before an occurrence up to the epoch, and stale only while
\* the local date is set back.
THEOREM LatestGreatest == ClockSpec => []LatestIsGreatest
<1>1. ClockOK => LatestIsGreatest
  BY KindIs, CivilGreatest, IntervalLatestNext
<1> QED
  BY <1>1, ClockRuns, PTL

\* next_after of the due instant skips no occurrence, and its fallbacks of 1 and 31
\* days are never taken.
THEOREM NextLeast == ClockSpec => []NextIsLeast
<1>1. ClockOK => NextIsLeast
  BY KindIs, CivilLeast, IntervalLatestNext
<1> QED
  BY <1>1, ClockRuns, PTL

\* What the README says of local times that a transition skips or repeats, of every
\* daily and monthly schedule.
THEOREM TimesKept == ClockSpec => []LocalTimesKept
<1>1. ASSUME ClockOK PROVE LocalTimesKept
  <2>1. CASE schedule.kind = "interval"
    BY <2>1 DEF LocalTimesKept
  <2>2. CASE schedule.kind # "interval"
    <3>1. schedule \in CivilSchedules /\ now \in Int /\ zone \in Zones
      BY <1>1, <2>2, KindIs DEF ClockOK
    <3>2. schedule.time \in Times
      BY <3>1, CivilIs
    <3>3. PICK d \in Int : due = at_time_zone(zone, d, schedule.time)
      <4>1. PICK d \in FirstDate..LastDate : due = at_time_zone(zone, d, schedule.time)
        BY <1>1, <3>1, InCalendar, CivilLatest DEF due
      <4> QED
        BY <4>1, CalendarAssumption
    <3> DEFINE gap == zone.after - zone.before
               t   == due
    <3>4. /\ \/ (t + offset(zone, t)) % DayLength = schedule.time
             \/ /\ gap > 0 /\ t >= zone.at /\ t < zone.at + gap
                /\ ((t + offset(zone, t)) - gap) % DayLength = schedule.time
          /\ \A u \in Int : u < t => u + offset(zone, u) # t + offset(zone, t)
      BY <3>1, <3>2, <3>3, TimeRead
    <3>5. t \in Int
      BY <3>1, <3>2, <3>3, AtZone
    <3> HIDE DEF t
    <3>6. \A u \in (t - 2 * DayLength)..(t - 1) : u + offset(zone, u) # t + offset(zone, t)
      BY <3>4, <3>5, Day
    <3> QED
      BY <3>4, <3>6 DEF LocalTimesKept, civil, t
  <2> QED
    BY <2>1, <2>2
<1> QED
  BY <1>1, ClockRuns, PTL

\* No transition of the zone sets the local date back.
DatesAdvance(z) == \A t, u \in Int : u <= t => local_date(z, u) <= local_date(z, t)

\* Neither UTC nor a zone that is set forward ever does.
LEMMA ForwardAdvances ==
    ASSUME NEW z \in Zones, z.before <= z.after
    PROVE  DatesAdvance(z)
<1>1. ASSUME NEW t \in Int, NEW u \in Int, u <= t
      PROVE  local_date(z, u) <= local_date(z, t)
  <2> DEFINE x == u + offset(z, u)
             y == t + offset(z, t)
  <2>1. x \in Int /\ y \in Int /\ x <= y
    BY <1>1, ZoneIs DEF offset
  <2> HIDE DEF x, y
  <2>2. x \div DayLength <= y \div DayLength
    BY <2>1, DatesInOrder
  <2> QED
    BY <2>2 DEF x, y, local_date
<1> QED
  BY <1>1 DEF DatesAdvance

InYears(z, t) == t \in Int /\ local_date(z, t) \in (FirstDate + 40)..(LastDate - 80)

\* What module Cron assumes of the schedule of a definition holds of every schedule
\* in every zone that does not set the local date back, at all instants of the calendar
\* (of an interval: the whole seconds, and every instant after the epoch).
THEOREM ScheduleFits ==
    ASSUME NEW s \in Schedules, NEW z \in Zones, DatesAdvance(z),
           NEW t, NEW u, InYears(z, t), InYears(z, u),
           s.kind = "interval" => ~ RoundedUp(t) /\ ~ RoundedUp(u)
    PROVE  LET LatestDue(x) == latest_due_at(s, z, x)
               NextAfter(x) == next_after(s, z, x)
           IN  /\ LatestDue(t) \in Int /\ LatestDue(t) <= t
               /\ NextAfter(LatestDue(t)) \in Int
               /\ LatestDue(u) <= t => LatestDue(u) <= LatestDue(t)
               /\ LatestDue(u) = u /\ u < LatestDue(t) => NextAfter(u) <= LatestDue(t)
<1> DEFINE last == latest_due_at(s, z, t)
           prev == latest_due_at(s, z, u)
<1>1. t \in Int /\ u \in Int
  BY DEF InYears
<1>2. CASE s \in CivilSchedules
  <2>0. /\ s.time \in Times /\ FirstDate \in Int /\ LastDate \in Int
        /\ local_date(z, t) \in (FirstDate + 40)..(LastDate - 80)
        /\ local_date(z, u) \in (FirstDate + 40)..(LastDate - 80)
    BY <1>2, CivilIs, CalendarAssumption DEF InYears
  <2>1. PICK d \in FirstDate..LastDate :
          /\ last = at_time_zone(z, d, s.time) /\ last <= t /\ on_date(s, d)
          /\ \A e \in Int : /\ e <= local_date(z, t) /\ on_date(s, e)
                            /\ at_time_zone(z, e, s.time) <= t
                            => at_time_zone(z, e, s.time) <= last
    BY <1>1, <1>2, <2>0, CivilLatest
  <2>2. PICK c \in FirstDate..LastDate :
          prev = at_time_zone(z, c, s.time) /\ on_date(s, c)
    BY <1>1, <1>2, <2>0, CivilLatest
  <2>3. PICK f \in FirstDate..LastDate :
          next_after(s, z, last) = at_time_zone(z, f, s.time)
    BY <1>1, <1>2, <2>0, CivilNext
  <2>4. \A e \in Int : on_date(s, e) /\ at_time_zone(z, e, s.time) > prev
                        => next_after(s, z, prev) <= at_time_zone(z, e, s.time)
    BY <1>1, <1>2, <2>0, CivilNext
  <2> HIDE DEF last, prev
  <2>5. /\ d \in Int /\ c \in Int /\ f \in Int
        /\ last \in Int /\ prev \in Int /\ next_after(s, z, last) \in Int
    BY <2>0, <2>1, <2>2, <2>3, AtZone
  <2>6. prev <= t => prev <= last
    <3>1. prev <= t => c <= local_date(z, t)
      <4>1. \A x \in (t - 2 * DayLength)..t : local_date(z, x) <= local_date(z, t)
        BY <1>1, Day DEF DatesAdvance
      <4>2. prev <= t /\ local_date(z, t) < c =>
              \E x \in (t - 2 * DayLength)..t : local_date(z, x) > local_date(z, t)
        BY <1>1, <2>0, <2>2, <2>5, LaterDates
      <4>3. local_date(z, t) \in Int /\ \A x \in Int : local_date(z, x) \in Int
        BY <1>1, LocalDate
      <4>4. \A x \in (t - 2 * DayLength)..t : ~(local_date(z, x) > local_date(z, t))
        BY <1>1, <4>1, <4>3, Day
      <4> QED
        BY <2>5, <4>2, <4>3, <4>4
    <3> QED
      BY <2>1, <2>2, <2>5, <3>1
  <2>7. prev = u /\ u < last => next_after(s, z, u) <= last
    BY <1>1, <2>1, <2>4, <2>5
  <2> QED
    BY <2>1, <2>5, <2>6, <2>7 DEF last, prev
<1>3. CASE s.kind = "interval" /\ s.every \in Nat
  <2> DEFINE n == Length(s.every)
  <2>1. /\ n \in Nat \ {0} /\ last \in Int /\ last % n = 0 /\ last <= t /\ t < last + n
        /\ next_after(s, z, last) = last + n
        /\ prev \in Int /\ prev % n = 0 /\ next_after(s, z, prev) = prev + n
    BY <1>1, <1>3, IntervalDue
  <2> HIDE DEF last, prev, n
  <2>2. (last < prev => last + n <= prev) /\ (prev < last => prev + n <= last)
    BY <2>1, MultiplesApart
  <2>3. prev <= t => prev <= last
    BY <1>1, <2>1, <2>2
  <2>4. prev = u /\ u < last => next_after(s, z, u) <= last
    BY <1>1, <2>1, <2>2
  <2> QED
    BY <2>1, <2>3, <2>4 DEF last, prev
<1> QED
  BY <1>2, <1>3, SchedulesAssumption DEF CivilSchedules, DailySchedules, MonthlySchedules,
     IntervalSchedules
=============================================================================
