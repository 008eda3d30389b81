-------------------------- MODULE JobSummaryProofs ---------------------------
(***************************************************************************)
(* Proofs about JobSummary, for any number of claim loops, names and       *)
(* executions: the gauge counts executions, and drains drop no start and   *)
(* no short execution.                                                     *)
(***************************************************************************)
EXTENDS JobSummary, FiniteSetTheorems, TLAPS

\* The executions whose ending has not been recorded.
Unrecorded == {"executing", "completing", "aborted"}

\* An execution that no emission has seen was counted in the current window.
StartInWindow ==
    \A l \in Loops :
        loop[l].pc \in Unrecorded /\ ~ loop[l].carried => summaries[loop[l].name].started > 0

\* A window without a start holds no ending of a short execution.
ShortInWindow ==
    \A n \in Names :
        short[n] <= reported[n].ended + (IF summaries[n].started = 0 THEN 0 ELSE Ended(summaries[n]))

IInv == /\ TypeOK /\ GaugeIsExecutions /\ EveryStartReported /\ StartInWindow /\ ShortInWindow
        /\ EndingsFollowFromLog
-----------------------------------------------------------------------------
(* The counters *)

\* The fields are numbers.
LEMMA Fields ==
    ASSUME NEW s \in Summary
    PROVE  /\ s.started \in Nat /\ s.succeeded \in Nat /\ s.retried \in Nat
           /\ s.permanent_failed \in Nat /\ s.abandoned \in Nat /\ s.running \in Nat
           /\ Less(s.running) \in Nat /\ Ended(s) \in Nat
  BY DEF Summary, Less, Ended

\* A start moves two counters.
LEMMA StartedSummary ==
    ASSUME NEW s \in Summary
    PROVE  /\ record_job_started(s) \in Summary
           /\ record_job_started(s).started = s.started + 1
           /\ record_job_started(s).running = s.running + 1
           /\ Ended(record_job_started(s)) = Ended(s)
<1> DEFINE a == s.started + 1
           r == s.running + 1
           t == record_job_started(s)
<1>1. a \in Nat /\ r \in Nat
  BY Fields
<1>2. t = [s EXCEPT !.started = a, !.running = r]
  BY DEF record_job_started
<1> HIDE DEF a, r, t
<1>3. /\ t \in Summary
      /\ t.started = a /\ t.succeeded = s.succeeded /\ t.retried = s.retried
      /\ t.permanent_failed = s.permanent_failed /\ t.abandoned = s.abandoned /\ t.running = r
  BY <1>1, <1>2 DEF Summary
<1> USE DEF a, r
<1> QED
  BY <1>3 DEF Ended, t

\* What a recorded ending makes of a counter.
EndedSummary(s, t) ==
    /\ t \in Summary /\ t.started = s.started /\ t.running = Less(s.running)
    /\ Ended(t) = Ended(s) + 1

LEMMA Succeeded ==
    ASSUME NEW s \in Summary PROVE EndedSummary(s, record_job_succeeded(s))
<1> DEFINE a == s.succeeded + 1
           r == Less(s.running)
           t == record_job_succeeded(s)
<1>1. a \in Nat /\ r \in Nat
  BY Fields
<1>2. t = [s EXCEPT !.succeeded = a, !.running = r]
  BY DEF record_job_succeeded
<1> HIDE DEF a, r, t
<1>3. /\ t \in Summary
      /\ t.started = s.started /\ t.succeeded = a /\ t.retried = s.retried
      /\ t.permanent_failed = s.permanent_failed /\ t.abandoned = s.abandoned /\ t.running = r
  BY <1>1, <1>2 DEF Summary
<1> USE DEF a, r
<1> QED
  BY <1>3, Fields DEF EndedSummary, Ended, t

LEMMA Failed ==
    ASSUME NEW s \in Summary, NEW permanent \in BOOLEAN
    PROVE  EndedSummary(s, record_job_failed(s, permanent))
<1>1. CASE permanent
  <2> DEFINE a == s.permanent_failed + 1
             r == Less(s.running)
             t == record_job_failed(s, permanent)
  <2>1. a \in Nat /\ r \in Nat
    BY Fields
  <2>2. t = [s EXCEPT !.permanent_failed = a, !.running = r]
    BY <1>1 DEF record_job_failed
  <2> HIDE DEF a, r, t
  <2>3. /\ t \in Summary
        /\ t.started = s.started /\ t.succeeded = s.succeeded /\ t.retried = s.retried
        /\ t.permanent_failed = a /\ t.abandoned = s.abandoned /\ t.running = r
    BY <2>1, <2>2 DEF Summary
  <2> USE DEF a, r
  <2> QED
    BY <2>3, Fields DEF EndedSummary, Ended, t
<1>2. CASE ~ permanent
  <2> DEFINE a == s.retried + 1
             r == Less(s.running)
             t == record_job_failed(s, permanent)
  <2>1. a \in Nat /\ r \in Nat
    BY Fields
  <2>2. t = [s EXCEPT !.retried = a, !.running = r]
    BY <1>2 DEF record_job_failed
  <2> HIDE DEF a, r, t
  <2>3. /\ t \in Summary
        /\ t.started = s.started /\ t.succeeded = s.succeeded /\ t.retried = a
        /\ t.permanent_failed = s.permanent_failed /\ t.abandoned = s.abandoned /\ t.running = r
    BY <2>1, <2>2 DEF Summary
  <2> USE DEF a, r
  <2> QED
    BY <2>3, Fields DEF EndedSummary, Ended, t
<1> QED
  BY <1>1, <1>2

LEMMA Abandoned ==
    ASSUME NEW s \in Summary PROVE EndedSummary(s, record_job_abandoned(s))
<1> DEFINE a == s.abandoned + 1
           r == Less(s.running)
           t == record_job_abandoned(s)
<1>1. a \in Nat /\ r \in Nat
  BY Fields
<1>2. t = [s EXCEPT !.abandoned = a, !.running = r]
  BY DEF record_job_abandoned
<1> HIDE DEF a, r, t
<1>3. /\ t \in Summary
      /\ t.started = s.started /\ t.succeeded = s.succeeded /\ t.retried = s.retried
      /\ t.permanent_failed = s.permanent_failed /\ t.abandoned = a /\ t.running = r
  BY <1>1, <1>2 DEF Summary
<1> USE DEF a, r
<1> QED
  BY <1>3, Fields DEF EndedSummary, Ended, t

\* A drain keeps the gauge and clears the rest.
LEMMA DrainedSummary ==
    ASSUME NEW s \in Summary
    PROVE  /\ Drained(s) \in Summary /\ Drained(s).running = s.running
           /\ Drained(s).started = 0 /\ Ended(Drained(s)) = 0 /\ Ended(s) \in Nat
           /\ ~ Visible(s) => s.started = 0
<1>1. CASE Visible(s)
  BY <1>1 DEF Summary, Drained, Default, Ended, Visible
<1>2. CASE ~ Visible(s)
  BY <1>2 DEF Summary, Drained, Default, Ended, Visible
<1> QED
  BY <1>1, <1>2
-----------------------------------------------------------------------------
(* The steps.  Each is reduced to what it does to the counters and to the loops. *)

Loop == [pc : PCs, name : Names \cup {NULL}, carried : BOOLEAN]

\* The sets of executions are finite.
LEMMA RunningFinite ==
    ASSUME NEW n \in Names
    PROVE  IsFiniteSet(Running(n)) /\ Cardinality(Running(n)) \in Nat
<1>1. Running(n) \subseteq Loops /\ IsFiniteSet(Loops)
  BY SummaryAssumption DEF Running
<1>2. IsFiniteSet(Running(n))
  BY <1>1, FS_Subset
<1> QED
  BY <1>2, FS_CardinalityType

LEMMA InvInit == Init => IInv
<1> SUFFICES ASSUME Init PROVE IInv
  OBVIOUS
<1>1. Default \in Summary /\ Default.started = 0 /\ Default.running = 0 /\ Ended(Default) = 0
  BY DEF Default, Summary, Ended
<1>2. IdleLoop \in Loop /\ IdleLoop.pc = "idle"
  BY DEF IdleLoop, Loop, PCs
<1>3. TypeOK
  <2>1. [started |-> 0, ended |-> 0] \in [started : Nat, ended : Nat]
    OBVIOUS
  <2> QED
    BY <1>1, <1>2, <2>1 DEF Init, TypeOK, Loop
<1>4. \A n \in Names : Running(n) = {}
  BY <1>2 DEF Init, Running
<1>5. GaugeIsExecutions
  BY <1>1, <1>4, FS_EmptySet DEF Init, GaugeIsExecutions
<1>6. EveryStartReported
  BY <1>1 DEF Init, EveryStartReported
<1>7. StartInWindow
  BY <1>2 DEF Init, StartInWindow, Unrecorded
<1>8. ShortInWindow
  BY <1>1 DEF Init, ShortInWindow
<1>9. EndingsFollowFromLog
  BY <1>1 DEF Init, EndingsFollowFromLog
<1> QED
  BY <1>3, <1>5, <1>6, <1>7, <1>8, <1>9 DEF IInv

\* The state's functions, without their records.
LEMMA Types ==
    ASSUME TypeOK
    PROVE  /\ summaries \in [Names -> Summary] /\ loop \in [Loops -> Loop]
           /\ started \in [Names -> Nat] /\ shown \in [Names -> Nat] /\ short \in [Names -> Nat]
           /\ \A l \in Loops : loop[l].pc \notin {"idle", "claiming"} => loop[l].name \in Names
           /\ \A n \in Names : reported[n].started \in Nat /\ reported[n].ended \in Nat
           /\ \A n \in Names : reported[n] \in [started : Nat, ended : Nat]
  BY DEF TypeOK, Loop

\* A claim loop starts an execution.
LEMMA InvStart ==
    ASSUME IInv, NEW l \in Loops, NEW n \in Names, Start(l, n) PROVE IInv'
<1> DEFINE busy == [pc |-> "executing", name |-> n, carried |-> FALSE]
           s    == summaries[n]
           t    == record_job_started(s)
<1>1. TypeOK /\ loop[l].pc = "claiming"
  BY DEF IInv, Start
<1>2. /\ summaries' = [summaries EXCEPT ![n] = t] /\ loop' = [loop EXCEPT ![l] = busy]
      /\ started' = [started EXCEPT ![n] = @ + 1] /\ UNCHANGED <<shutdown, shown, short, reported>>
  BY DEF Start
<1>3. busy \in Loop /\ busy.pc = "executing" /\ busy.name = n /\ ~ busy.carried
  BY DEF Loop, PCs
<1>4. /\ s \in Summary /\ t \in Summary
      /\ t.started = s.started + 1 /\ t.running = s.running + 1 /\ Ended(t) = Ended(s)
      /\ s.started \in Nat /\ Ended(s) \in Nat
  BY <1>1, Types, StartedSummary, Fields
<1> HIDE DEF busy, t
<1>5. TypeOK'
  BY <1>1, <1>2, <1>3, <1>4, Types DEF TypeOK, Loop
<1>6. GaugeIsExecutions'
  <2>1. Running(n)' = Running(n) \cup {l} /\ l \notin Running(n)
    BY <1>1, <1>2, <1>3, Types DEF Running
  <2>2. \A m \in Names \ {n} : Running(m)' = Running(m)
    BY <1>1, <1>2, <1>3, Types DEF Running
  <2>3. Cardinality(Running(n) \cup {l}) = Cardinality(Running(n)) + 1
    BY <2>1, RunningFinite, FS_AddElement
  <2>4. summaries'[n] = t /\ \A m \in Names \ {n} : summaries'[m] = summaries[m]
    BY <1>1, <1>2, Types
  <2>5. \A m \in Names : summaries[m].running = Cardinality(Running(m))
    BY DEF IInv, GaugeIsExecutions
  <2>6. summaries'[n].running = Cardinality(Running(n)')
    BY <1>4, <2>1, <2>3, <2>4, <2>5
  <2>7. \A m \in Names \ {n} : summaries'[m].running = Cardinality(Running(m)')
    BY <2>2, <2>4, <2>5
  <2> QED
    BY <2>6, <2>7 DEF GaugeIsExecutions
<1>7. EveryStartReported'
  <2>1. /\ summaries'[n] = t /\ started'[n] = started[n] + 1
        /\ \A m \in Names \ {n} : summaries'[m] = summaries[m] /\ started'[m] = started[m]
        /\ reported' = reported
    BY <1>1, <1>2, Types
  <2>2. \A m \in Names : reported[m].started + summaries[m].started = started[m]
    BY DEF IInv, EveryStartReported
  <2>3. reported[n].started \in Nat
    BY <1>1, Types
  <2>4. reported'[n].started + summaries'[n].started = started'[n]
    BY <1>4, <2>1, <2>2, <2>3
  <2>5. \A m \in Names \ {n} : reported'[m].started + summaries'[m].started = started'[m]
    BY <2>1, <2>2
  <2> QED
    BY <2>4, <2>5 DEF EveryStartReported
<1>8. StartInWindow'
  BY <1>1, <1>2, <1>3, <1>4, Types DEF IInv, StartInWindow, Unrecorded
<1>9. ShortInWindow'
  BY <1>1, <1>2, <1>4, Types DEF IInv, ShortInWindow
<1>10. EndingsFollowFromLog'
  <2>1. /\ summaries'[n] = t /\ \A m \in Names \ {n} : summaries'[m] = summaries[m]
        /\ shown' = shown /\ shown[n] \in Nat /\ s.running \in Nat
    BY <1>1, <1>2, <1>4, Types, Fields
  <2>2. \A m \in Names : shown[m] + summaries[m].started = Ended(summaries[m]) + summaries[m].running
    BY DEF IInv, EndingsFollowFromLog
  <2>a. shown[n] + s.started = Ended(s) + s.running
    BY <2>2
  <2>3. shown[n] + t.started = Ended(t) + t.running
    <3> HIDE DEF s
    <3> QED
      BY <1>4, <2>1, <2>a
  <2> QED
    BY <2>1, <2>2, <2>3 DEF EndingsFollowFromLog
<1> QED
  BY <1>5, <1>6, <1>7, <1>8, <1>9, <1>10 DEF IInv

\* A recorded ending: the gauge goes down by one because the execution is in it, and a
\* short execution's ending is in a window that has its start.
LEMMA InvEnd ==
    ASSUME IInv, NEW l \in Loops, loop[l].pc \in {"executing", "completing"},
           NEW t, EndedSummary(summaries[loop[l].name], t),
           NEW next \in Loop, next.pc \notin Unrecorded,
           next.pc \notin {"idle", "claiming"} => next.name = loop[l].name,
           End(l, t, next)
    PROVE  IInv'
<1>0. PICK n \in Names : n = loop[l].name
  BY Types DEF IInv
<1> DEFINE s == summaries[n]
<1>1. TypeOK /\ n \in Names /\ n = loop[l].name
  BY <1>0 DEF IInv
<1>2. /\ summaries' = [summaries EXCEPT ![n] = t] /\ loop' = [loop EXCEPT ![l] = next]
      /\ short' = IF loop[l].carried THEN short ELSE [short EXCEPT ![n] = @ + 1]
      /\ UNCHANGED <<shutdown, started, shown, reported>>
  BY <1>0 DEF End
<1>3. /\ s \in Summary /\ t \in Summary /\ t.started = s.started /\ t.running = Less(s.running)
      /\ Ended(t) = Ended(s) + 1 /\ s.started \in Nat /\ s.running \in Nat /\ Ended(s) \in Nat
  BY <1>1, Types, Fields DEF EndedSummary
<1>4. TypeOK'
  BY <1>1, <1>2, <1>3, Types DEF TypeOK, Loop
<1>5a. s.running > 0
  <2>1. l \in Running(n) /\ s.running = Cardinality(Running(n))
    BY <1>1 DEF Running, IInv, GaugeIsExecutions
  <2>2. Cardinality(Running(n)) # 0
    BY <1>1, <2>1, RunningFinite, FS_EmptySet
  <2> QED
    BY <1>3, <2>1, <2>2
<1>5. GaugeIsExecutions'
  <2>1. l \in Running(n) /\ Running(n)' = Running(n) \ {l}
    BY <1>1, <1>2, Types DEF Running, Unrecorded
  <2>2. \A m \in Names \ {n} : Running(m)' = Running(m)
    BY <1>1, <1>2, Types DEF Running, Unrecorded
  <2>3. Cardinality(Running(n) \ {l}) = Cardinality(Running(n)) - 1
    BY <1>1, <2>1, RunningFinite, FS_RemoveElement
  <2>4. Cardinality(Running(n)) \in Nat /\ Cardinality(Running(n) \ {l}) \in Nat
    <3>1. IsFiniteSet(Running(n)) /\ IsFiniteSet(Running(n) \ {l})
      BY <1>1, RunningFinite, FS_RemoveElement
    <3> QED
      BY <3>1, FS_CardinalityType
  <2>5. s.running = Cardinality(Running(n))
    BY <1>1 DEF IInv, GaugeIsExecutions
  <2>6. t.running = Cardinality(Running(n) \ {l})
    BY <1>3, <2>3, <2>4, <2>5 DEF Less
  <2> QED
    BY <1>1, <1>2, <2>1, <2>2, <2>6, Types DEF IInv, GaugeIsExecutions
<1>6. EveryStartReported'
  BY <1>1, <1>2, <1>3, Types DEF IInv, EveryStartReported
<1>7. StartInWindow'
  BY <1>1, <1>2, <1>3, Types DEF IInv, StartInWindow
<1>7a. EndingsFollowFromLog'
  <2>1. /\ summaries'[n] = t /\ \A m \in Names \ {n} : summaries'[m] = summaries[m]
        /\ shown' = shown /\ shown[n] \in Nat
    BY <1>1, <1>2, Types
  <2>2. \A m \in Names : shown[m] + summaries[m].started = Ended(summaries[m]) + summaries[m].running
    BY DEF IInv, EndingsFollowFromLog
  <2>3. s.running > 0
    BY <1>1, <1>3, <1>5a
  <2>4. t.running = s.running - 1
    BY <1>3, <2>3 DEF Less
  <2>5. shown[n] + t.started = Ended(t) + t.running
    BY <1>1, <1>3, <2>1, <2>2, <2>4
  <2> QED
    BY <2>1, <2>2, <2>5 DEF EndingsFollowFromLog
<1>8. ShortInWindow'
  <2>1. ~ loop[l].carried => s.started > 0
    BY <1>0 DEF IInv, StartInWindow, Unrecorded
  <2>2. ASSUME NEW m \in Names
        PROVE  short'[m] <= reported[m].ended
                  + (IF summaries'[m].started = 0 THEN 0 ELSE Ended(summaries'[m]))
    <3>1. CASE m # n
      BY <1>1, <1>2, <3>1, Types DEF IInv, ShortInWindow
    <3>2. CASE m = n
      <4>1. short[n] <= reported[n].ended + (IF s.started = 0 THEN 0 ELSE Ended(s))
        BY <1>1 DEF IInv, ShortInWindow
      <4>2. short'[n] = (IF loop[l].carried THEN short[n] ELSE short[n] + 1) /\ summaries'[n] = t
        BY <1>1, <1>2, Types
      <4> QED
        BY <1>1, <1>3, <2>1, <3>2, <4>1, <4>2, Types
    <3> QED
      BY <3>1, <3>2
  <2> QED
    BY <1>2, <2>2 DEF ShortInWindow
<1> QED
  BY <1>4, <1>5, <1>6, <1>7, <1>7a, <1>8 DEF IInv

\* Steps of a loop that record nothing keep every execution where it is counted.
LEMMA InvMove ==
    ASSUME IInv, NEW l \in Loops, NEW next \in Loop,
           loop' = [loop EXCEPT ![l] = next],
           UNCHANGED <<summaries, started, shown, short, reported>>, shutdown' \in BOOLEAN,
           next.pc \in Unrecorded <=> loop[l].pc \in Unrecorded,
           next.pc \notin {"idle", "claiming"} =>
               /\ loop[l].pc \notin {"idle", "claiming"}
               /\ next.name = loop[l].name /\ next.carried = loop[l].carried
    PROVE  IInv'
<1>1. TypeOK
  BY DEF IInv
<1>2. TypeOK'
  BY <1>1, Types DEF TypeOK, Loop
<1>3. \A n \in Names : Running(n)' = Running(n)
  BY <1>1, Types DEF Running, Unrecorded
<1>4. GaugeIsExecutions' /\ EveryStartReported' /\ ShortInWindow' /\ EndingsFollowFromLog'
  BY <1>3 DEF IInv, GaugeIsExecutions, EveryStartReported, ShortInWindow, EndingsFollowFromLog
<1>5. StartInWindow'
  BY <1>1, Types DEF IInv, StartInWindow, Unrecorded
<1> QED
  BY <1>2, <1>4, <1>5 DEF IInv

\* A drain in the middle of executions.
LEMMA InvEmit == ASSUME IInv, EmitJobSummaries PROVE IInv'
<1>1. TypeOK
  BY DEF IInv
<1>2. \A n \in Names : /\ summaries[n] \in Summary /\ summaries[n].started \in Nat
                       /\ Ended(summaries[n]) \in Nat
  BY <1>1, Types, Fields
<1>3. \A n \in Names : /\ summaries'[n] \in Summary /\ summaries'[n].running = summaries[n].running
                       /\ summaries'[n].started = 0
                       /\ ~ Visible(summaries[n]) => summaries[n].started = 0
  BY <1>2, DrainedSummary DEF EmitJobSummaries
<1>4. \A l \in Loops : /\ loop'[l] \in Loop /\ loop'[l].carried
                       /\ loop'[l].pc = loop[l].pc /\ loop'[l].name = loop[l].name
  <2> SUFFICES ASSUME NEW l \in Loops
               PROVE  /\ loop'[l] \in Loop /\ loop'[l].carried
                      /\ loop'[l].pc = loop[l].pc /\ loop'[l].name = loop[l].name
    OBVIOUS
  <2>1. loop[l] \in Loop /\ loop'[l] = [loop[l] EXCEPT !.carried = TRUE]
    BY <1>1, Types DEF EmitJobSummaries
  <2> QED
    BY <2>1 DEF Loop
<1>5. \A n \in Names :
        /\ Visible(summaries[n]) =>
              /\ reported'[n].started = reported[n].started + summaries[n].started
              /\ reported'[n].ended = reported[n].ended + Ended(summaries[n])
        /\ ~ Visible(summaries[n]) => reported'[n] = reported[n]
        /\ reported'[n] \in [started : Nat, ended : Nat]
  BY <1>1, <1>2, Types DEF EmitJobSummaries
<1>6. TypeOK'
  <2>1. summaries' \in [Names -> Summary] /\ loop' \in [Loops -> Loop]
    BY <1>3, <1>4 DEF EmitJobSummaries
  <2>2. reported' \in [Names -> [started : Nat, ended : Nat]]
    BY <1>5 DEF EmitJobSummaries
  <2>3. shown' \in [Names -> Nat]
    BY <1>1, Types, Fields DEF EmitJobSummaries
  <2> QED
    BY <1>1, <1>4, <2>1, <2>2, <2>3 DEF TypeOK, Loop, EmitJobSummaries
<1>7. \A n \in Names : Running(n)' = Running(n)
  BY <1>4 DEF Running
<1>8. GaugeIsExecutions'
  BY <1>3, <1>7 DEF IInv, GaugeIsExecutions
<1>9. EveryStartReported'
  <2> SUFFICES ASSUME NEW n \in Names
               PROVE  reported'[n].started + summaries'[n].started = started'[n]
    BY DEF EveryStartReported
  <2>1. /\ reported[n].started + summaries[n].started = started[n] /\ started' = started
        /\ reported[n].started \in Nat
    BY <1>1, Types DEF IInv, EveryStartReported, EmitJobSummaries
  <2> QED
    BY <1>2, <1>3, <1>5, <2>1
<1>10. StartInWindow'
  BY <1>4 DEF StartInWindow
<1>11. ShortInWindow'
  <2> SUFFICES ASSUME NEW n \in Names
               PROVE  short'[n] <= reported'[n].ended
    BY <1>3, <1>5 DEF ShortInWindow
  <2>1. /\ short[n] <= reported[n].ended
                          + (IF summaries[n].started = 0 THEN 0 ELSE Ended(summaries[n]))
        /\ short' = short /\ short[n] \in Nat /\ reported[n].ended \in Nat
    BY <1>1, Types DEF IInv, ShortInWindow, EmitJobSummaries
  <2> QED
    BY <1>2, <1>3, <1>5, <2>1
<1>12. EndingsFollowFromLog'
  <2> SUFFICES ASSUME NEW n \in Names
               PROVE  shown'[n] + summaries'[n].started = Ended(summaries'[n]) + summaries'[n].running
    BY DEF EndingsFollowFromLog
  <2>1. /\ summaries'[n].running = summaries[n].running /\ summaries'[n].started = 0
        /\ Ended(summaries'[n]) = 0 /\ summaries[n].running \in Nat
        /\ ~ Visible(summaries[n]) => summaries[n].running = 0
    BY <1>1, <1>2, <1>3, DrainedSummary, Fields DEF EmitJobSummaries, Visible
  <2>2. shown'[n] = IF Visible(summaries[n]) THEN summaries[n].running ELSE 0
    BY DEF EmitJobSummaries
  <2> QED
    BY <2>1, <2>2
<1> QED
  BY <1>6, <1>8, <1>9, <1>10, <1>11, <1>12 DEF IInv

LEMMA InvNext == IInv /\ [Next]_vars => IInv'
<1> SUFFICES ASSUME IInv, [Next]_vars PROVE IInv'
  OBVIOUS
<1>0. TypeOK
  BY DEF IInv
<1>i. /\ IdleLoop \in Loop /\ IdleLoop.pc = "idle"
      /\ {"idle", "claiming", "failing"} \cap Unrecorded = {}
  BY DEF IdleLoop, Loop, PCs, Unrecorded
<1>1. CASE UNCHANGED vars
  <2>1. \A n \in Names : Running(n)' = Running(n)
    BY <1>1 DEF vars, Running
  <2> QED
    BY <1>1, <2>1
       DEF vars, IInv, TypeOK, GaugeIsExecutions, EveryStartReported, StartInWindow, ShortInWindow,
           EndingsFollowFromLog
<1>2. CASE EmitJobSummaries
  BY <1>2, InvEmit
<1>3. CASE RequestShutdown
  <2>1. \A n \in Names : Running(n)' = Running(n)
    BY <1>3 DEF RequestShutdown, Running
  <2> QED
    BY <1>3, <2>1
       DEF RequestShutdown, IInv, TypeOK, GaugeIsExecutions, EveryStartReported, StartInWindow,
           ShortInWindow, EndingsFollowFromLog
<1>4. ASSUME NEW l \in Loops, NEW n \in Names, Start(l, n) PROVE IInv'
  BY <1>4, InvStart
<1>5. ASSUME NEW l \in Loops,
             \/ LoseLock(l) \/ Complete(l) \/ CompleteRefused(l) \/ HandlerFails(l)
             \/ HandlerSucceeds(l) \/ FailureReported(l) \/ Abort(l)
             \/ AskForJob(l) \/ ClaimNothing(l)
      PROVE  IInv'
  <2>1. loop[l] \in Loop /\ (loop[l].pc \notin {"idle", "claiming"} => summaries[loop[l].name] \in Summary)
    BY <1>0, Types
  <2>2. CASE LoseLock(l) \/ CompleteRefused(l)
    <3>1. /\ loop[l].pc \in {"executing", "completing"}
          /\ End(l, record_job_abandoned(summaries[loop[l].name]), IdleLoop)
      BY <2>2 DEF LoseLock, CompleteRefused
    <3>2. EndedSummary(summaries[loop[l].name], record_job_abandoned(summaries[loop[l].name]))
      BY <2>1, <3>1, Abandoned
    <3> QED
      BY <1>i, <3>1, <3>2, InvEnd
  <2>3. CASE Complete(l)
    <3>1. /\ loop[l].pc \in {"executing", "completing"}
          /\ End(l, record_job_succeeded(summaries[loop[l].name]), IdleLoop)
      BY <2>3 DEF Complete
    <3>2. EndedSummary(summaries[loop[l].name], record_job_succeeded(summaries[loop[l].name]))
      BY <2>1, <3>1, Succeeded
    <3> QED
      BY <1>i, <3>1, <3>2, InvEnd
  <2>4. CASE HandlerFails(l)
    <3> DEFINE next == [loop[l] EXCEPT !.pc = "failing"]
    <3>1. PICK permanent \in BOOLEAN :
            /\ loop[l].pc \in {"executing", "completing"}
            /\ End(l, record_job_failed(summaries[loop[l].name], permanent), next)
      BY <2>4 DEF HandlerFails
    <3>2. EndedSummary(summaries[loop[l].name], record_job_failed(summaries[loop[l].name], permanent))
      BY <2>1, <3>1, Failed
    <3>3. next \in Loop /\ next.pc = "failing" /\ next.name = loop[l].name
      BY <2>1 DEF Loop, PCs
    <3> HIDE DEF next
    <3> QED
      BY <1>i, <3>1, <3>2, <3>3, InvEnd
  <2>5. CASE HandlerSucceeds(l)
    <3> DEFINE next == [loop[l] EXCEPT !.pc = "completing"]
    <3>1. /\ loop' = [loop EXCEPT ![l] = next] /\ loop[l].pc = "executing"
          /\ UNCHANGED <<summaries, shutdown, started, shown, short, reported>>
      BY <2>5 DEF HandlerSucceeds
    <3>2. /\ next \in Loop /\ next.pc = "completing" /\ next.name = loop[l].name
          /\ next.carried = loop[l].carried
      BY <2>1 DEF Loop, PCs
    <3> HIDE DEF next
    <3>3. shutdown' \in BOOLEAN
      BY <3>1, <1>0 DEF TypeOK
    <3> QED
      BY <3>1, <3>2, <3>3, InvMove DEF Unrecorded
  <2>6. CASE FailureReported(l) \/ ClaimNothing(l)
    <3>1. /\ loop' = [loop EXCEPT ![l] = IdleLoop] /\ loop[l].pc \in {"failing", "claiming"}
          /\ UNCHANGED <<summaries, shutdown, started, shown, short, reported>>
      BY <2>6 DEF FailureReported, ClaimNothing
    <3>2. shutdown' \in BOOLEAN
      BY <3>1, <1>0 DEF TypeOK
    <3> QED
      BY <1>i, <3>1, <3>2, InvMove
  <2>7. CASE Abort(l)
    <3> DEFINE next == [loop[l] EXCEPT !.pc = "aborted"]
    <3>1. /\ loop' = [loop EXCEPT ![l] = next] /\ loop[l].pc \in {"executing", "completing"}
          /\ UNCHANGED <<summaries, shutdown, started, shown, short, reported>>
      BY <2>7 DEF Abort
    <3>2. /\ next \in Loop /\ next.pc = "aborted" /\ next.name = loop[l].name
          /\ next.carried = loop[l].carried
      BY <2>1 DEF Loop, PCs
    <3> HIDE DEF next
    <3>3. shutdown' \in BOOLEAN
      BY <3>1, <1>0 DEF TypeOK
    <3> QED
      BY <3>1, <3>2, <3>3, InvMove DEF Unrecorded
  <2>8. CASE AskForJob(l)
    <3> DEFINE next == [loop[l] EXCEPT !.pc = "claiming"]
    <3>1. /\ loop' = [loop EXCEPT ![l] = next] /\ loop[l].pc = "idle"
          /\ UNCHANGED <<summaries, shutdown, started, shown, short, reported>>
      BY <2>8 DEF AskForJob
    <3>2. next \in Loop /\ next.pc = "claiming"
      BY <2>1 DEF Loop, PCs
    <3> HIDE DEF next
    <3>3. shutdown' \in BOOLEAN
      BY <3>1, <1>0 DEF TypeOK
    <3> QED
      BY <1>i, <3>1, <3>2, <3>3, InvMove
  <2> QED
    BY <1>5, <2>2, <2>3, <2>4, <2>5, <2>6, <2>7, <2>8
<1> QED
  BY <1>1, <1>2, <1>3, <1>4, <1>5 DEF Next

LEMMA Invariant == Spec => []IInv
  BY InvInit, InvNext, PTL DEF Spec

\* The counters are naturals and a busy claim loop has the name of its job.
THEOREM TypeCorrect == Spec => []TypeOK
<1>1. IInv => TypeOK
  BY DEF IInv
<1> QED
  BY <1>1, Invariant, PTL

\* For any number of claim loops, the running gauge that emit_job_summaries logs is the
\* number of executions, and saturating_sub never hides a wrong one.
THEOREM Gauge == Spec => []GaugeIsExecutions
<1>1. IInv => GaugeIsExecutions
  BY DEF IInv
<1> QED
  BY <1>1, Invariant, PTL

\* No drain loses a start or counts one twice.
THEOREM Starts == Spec => []EveryStartReported
<1>1. IInv => EveryStartReported
  BY DEF IInv
<1> QED
  BY <1>1, Invariant, PTL

\* No drain loses the ending of an execution that no emission saw begin.
THEOREM ShortJobs == Spec => []ShortJobsReported
<1>1. IInv => ShortJobsReported
  <2> SUFFICES ASSUME IInv, NEW n \in Names
               PROVE  short[n] <= reported[n].ended + Ended(summaries[n])
    BY DEF ShortJobsReported
  <2>1. short[n] <= reported[n].ended + (IF summaries[n].started = 0 THEN 0 ELSE Ended(summaries[n]))
    BY DEF IInv, ShortInWindow
  <2>2. /\ Ended(summaries[n]) \in Nat /\ short[n] \in Nat /\ reported[n].ended \in Nat
    BY Types, Fields DEF IInv
  <2> QED
    BY <2>1, <2>2
<1> QED
  BY <1>1, Invariant, PTL

\* For any number of claim loops and emissions, the lines around a dropped window tell the
\* endings it held.
THEOREM Endings == Spec => []EndingsFollowFromLog
<1>1. IInv => EndingsFollowFromLog
  BY DEF IInv
<1> QED
  BY <1>1, Invariant, PTL
=============================================================================
