------------------------ MODULE RunExecutionPlan_proofs ------------------------
(***************************************************************************)
(* Theorems about RunExecutionPlan, for every plan and every policy.       *)
(***************************************************************************)
EXTENDS RunExecutionPlan, FiniteSetTheorems, TLAPS

\* What TypeOK needs to be inductive: a settled race has an outcome, which may
\* become the result of the brief, and an entry is appended with a status.
RaceInv == \A b \in Briefs : pc[b] = "settled" => race[b] \in Outcomes
EntryInv == phase = "appending" => status \in RunStatuses
TypeInv == TypeOK /\ RaceInv /\ EntryInv

USE DEF BusyPcs

\* What an outcome carries: a status when it was returned, a kind of error when it
\* was thrown, and an attempt that has not settled has neither.
LEMMA OutcomeTypes ==
  /\ Unsettled \notin Outcomes
  /\ \A e \in ErrorKinds : Thrown(e) \in Outcomes /\ Thrown(e).threw
  /\ OperationOutcomes \subseteq Outcomes
  /\ \A o \in Outcomes : ~o.threw => o.what \in Statuses
  /\ \A o \in Outcomes : o.threw => o.what \in ErrorKinds
<1>1. \A o \in Outcomes :
        \/ \E s \in Statuses, r \in BOOLEAN : o = Returned(s, r)
        \/ \E e \in ErrorKinds : o = Thrown(e)
  BY DEF Outcomes
<1>2. \A s \in Statuses, r \in BOOLEAN :
        Returned(s, r).threw = FALSE /\ Returned(s, r).what = s
  BY DEF Returned
<1>3. \A e \in ErrorKinds : Thrown(e).threw = TRUE /\ Thrown(e).what = e
  BY DEF Thrown
<1>4. Unsettled.threw = FALSE /\ Unsettled.what = "none"
  BY DEF Unsettled, Returned
<1>5. "none" \notin Statuses
  BY DEF Statuses
<1>6. \A e \in ErrorKinds : Thrown(e) \in Outcomes
  BY DEF Outcomes
<1>7. OperationOutcomes \subseteq Outcomes
  BY PolicyAssumption
<1> QED
  BY <1>1, <1>2, <1>3, <1>4, <1>5, <1>6, <1>7

\* mapWithConcurrency makes a number of workers even for a cap of NaN.
LEMMA PoolSizeType ==
  ASSUME NEW i \in Int, NEW j \in Int, i <= j
  PROVE  PoolSize(i, j) \in Nat
  BY PolicyAssumption DEF PoolSize, AtLeastOne

\* Briefs are positions.
LEMMA BriefsType == NumBriefs \in Nat /\ Briefs \subseteq Nat
  BY BriefsAssumption DEF NumBriefs, Briefs

\* emit logs an event of the known types.
LEMMA EventType ==
  ASSUME NEW t \in {"started", "retry"} \cup Statuses, NEW a \in Nat
  PROVE  Event(t, a) \in Events
  BY DEF Event, Events

\* A step that leaves the variables of some parts alone keeps those parts.
LEMMA UnchangedTypes ==
  ASSUME TypeInv
  PROVE  /\ UNCHANGED <<runVars, aborted>> => RunTypes'
         /\ UNCHANGED runVars => EntryInv'
         /\ phase' = "rejected" => EntryInv'
         /\ UNCHANGED poolVars => PoolTypes'
         /\ UNCHANGED <<pc, attempt, live, timedOut, error>> => LoopTypes'
         /\ UNCHANGED <<pc, race>> => RaceTypes' /\ RaceInv'
         /\ UNCHANGED result => ResultTypes'
         /\ UNCHANGED events => EventTypes'
  BY DEF TypeInv, TypeOK, RunTypes, PoolTypes, LoopTypes, RaceTypes, ResultTypes,
     EventTypes, RaceInv, EntryInv, runVars, poolVars

\* A hook that throws leaves a stream of events a stream of events.
LEMMA HeardOrNotTypes ==
  ASSUME EventTypes, NEW b, NEW e \in Events, HeardOrNot(b, e)
  PROVE  EventTypes'
  BY DEF EventTypes, HeardOrNot

\* What is emitted of the end of an attempt is an event.
LEMMA EndEventType ==
  ASSUME TypeInv, NEW b \in Briefs, AttemptReturned(b) \/ pc[b] = "caught"
  PROVE  EndEvent(b) \in Events
<1>1. pc[b] # "caught" => race[b].what \in Statuses
  BY OutcomeTypes DEF TypeInv, RaceInv, AttemptReturned
<1>2. FailureStatus(error[b]) \in Statuses
  BY DEF FailureStatus, Statuses
<1>3. attempt[b] \in Nat
  BY DEF TypeInv, TypeOK, LoopTypes
<1> QED
  BY <1>1, <1>2, <1>3, EventType DEF EndEvent

\* Every step of the run, of its hooks and of the executor keeps TypeInv.
LEMMA TypeInvStep == TypeInv /\ [Next]_vars => TypeInv'
<1> SUFFICES ASSUME TypeInv, [Next]_vars
             PROVE  TypeInv'
  OBVIOUS
<1> USE BriefsType, UnchangedTypes DEF TypeInv, TypeOK
<1>1. CASE \E s, r \in BOOLEAN : Begin(s, r)
  BY <1>1 DEF Begin, RunTypes, EntryInv, poolVars, briefVars
<1>2. CASE NextGroup
  <2>1. PoolTypes'
    BY <1>2, PoolSizeType DEF NextGroup, PoolTypes
  <2> QED
    BY <1>2, <2>1 DEF NextGroup, runVars, briefVars
<1>3. CASE TakeBrief
  <2>1. RunTypes' /\ EntryInv' /\ PoolTypes'
    BY <1>3 DEF TakeBrief, EnterAttempt, RunTypes, EntryInv, PoolTypes
  <2>2. LoopTypes'
    BY <1>3 DEF TakeBrief, EnterAttempt, LoopTypes, ErrorKinds, PoolTypes
  <2>3. RaceTypes' /\ RaceInv' /\ ResultTypes'
    BY <1>3 DEF TakeBrief, EnterAttempt, RaceTypes, RaceInv, ResultTypes, LoopTypes
  <2>4. EventTypes'
    <3>1. <<Event("started", 1)>> \in Seq(Events)
      BY EventType
    <3> QED
      BY <1>3, <3>1 DEF TakeBrief, EventTypes
  <2> QED
    BY <2>1, <2>2, <2>3, <2>4
<1>4. CASE StartThrows
  <2>1. EventTypes'
    BY <1>4, EventType, HeardOrNotTypes DEF StartThrows
  <2>2. RunTypes' /\ EntryInv' /\ PoolTypes'
    BY <1>4 DEF StartThrows, RunTypes, EntryInv, PoolTypes
  <2>3. LoopTypes' /\ RaceTypes' /\ RaceInv' /\ ResultTypes'
    BY <1>4 DEF StartThrows, LoopTypes, RaceTypes, RaceInv, ResultTypes
  <2> QED
    BY <2>1, <2>2, <2>3
<1>5. ASSUME NEW b \in Briefs, TimerFires(b)
      PROVE  TypeInv'
  <2>1. LoopTypes'
    BY <1>5 DEF TimerFires, LoopTypes
  <2>2. RaceTypes' /\ RaceInv'
    BY <1>5, OutcomeTypes DEF TimerFires, RaceTypes, RaceInv, LoopTypes, ErrorKinds
  <2> QED
    BY <1>5, <2>1, <2>2 DEF TimerFires
<1>6. ASSUME NEW b \in Briefs, AttemptThrows(b)
      PROVE  TypeInv'
  <2>1. LoopTypes'
    BY <1>6, OutcomeTypes DEF AttemptThrows, LoopTypes, RaceInv, ErrorKinds
  <2>2. RaceTypes' /\ RaceInv'
    BY <1>6 DEF AttemptThrows, RaceTypes, RaceInv, LoopTypes
  <2> QED
    BY <1>6, <2>1, <2>2 DEF AttemptThrows
<1>7. ASSUME NEW b \in Briefs, Retry(b)
      PROVE  TypeInv'
  <2>1. LoopTypes'
    BY <1>7 DEF Retry, LoopTypes, ErrorKinds
  <2>2. RaceTypes' /\ RaceInv'
    BY <1>7 DEF Retry, RaceTypes, RaceInv, LoopTypes
  <2>3. EventTypes'
    <3>1. Event("retry", attempt[b]) \in Events
      BY EventType DEF LoopTypes
    <3> QED
      BY <1>7, <3>1 DEF Retry, EventTypes
  <2> QED
    BY <1>7, <2>1, <2>2, <2>3 DEF Retry
<1>8. ASSUME NEW b \in Briefs, DelayEnds(b)
      PROVE  TypeInv'
  BY <1>8 DEF DelayEnds, LoopTypes, RaceTypes, RaceInv
<1>9. ASSUME NEW b \in Briefs, NextAttempt(b)
      PROVE  TypeInv'
  <2>1. LoopTypes'
    BY <1>9 DEF NextAttempt, EnterAttempt, LoopTypes, ErrorKinds
  <2>2. RaceTypes' /\ RaceInv'
    BY <1>9 DEF NextAttempt, EnterAttempt, RaceTypes, RaceInv, LoopTypes
  <2>3. RunTypes' /\ EntryInv'
    BY <1>9 DEF NextAttempt, EnterAttempt, RunTypes, EntryInv
  <2> QED
    BY <1>9, <2>1, <2>2, <2>3 DEF NextAttempt
<1>10. ASSUME NEW b \in Briefs, NEW s \in Statuses, Finish(b, s)
       PROVE  TypeInv'
  <2>1. LoopTypes' /\ PoolTypes'
    BY <1>10 DEF Finish, LoopTypes, PoolTypes
  <2>2. RaceTypes' /\ RaceInv' /\ ResultTypes'
    BY <1>10 DEF Finish, RaceTypes, RaceInv, ResultTypes, LoopTypes
  <2>3. EventTypes'
    <3>1. Event(s, attempt[b]) \in Events
      BY EventType DEF LoopTypes
    <3> QED
      BY <1>10, <3>1 DEF Finish, EventTypes
  <2> QED
    BY <1>10, <2>1, <2>2, <2>3 DEF Finish
<1>11. ASSUME NEW b \in Briefs, FinishReturned(b)
       PROVE  TypeInv'
  <2>1. race[b].what \in Statuses
    BY <1>11, OutcomeTypes DEF FinishReturned, AttemptReturned, RaceInv
  <2> QED
    BY <1>10, <1>11, <2>1 DEF FinishReturned
<1>12. ASSUME NEW b \in Briefs, FinishCaught(b)
       PROVE  TypeInv'
  <2>1. FailureStatus(error[b]) \in Statuses
    BY DEF FailureStatus, Statuses
  <2> QED
    BY <1>10, <1>12, <2>1 DEF FinishCaught
<1>13. ASSUME NEW b \in Briefs, HookThrowsInTry(b) \/ HookThrowsInCatch(b)
       PROVE  TypeInv'
  <2>1. LoopTypes'
    BY <1>13 DEF HookThrowsInTry, HookThrowsInCatch, LoopTypes, ErrorKinds
  <2>2. RaceTypes' /\ RaceInv' /\ RunTypes' /\ EntryInv'
    BY <1>13 DEF HookThrowsInTry, HookThrowsInCatch, RaceTypes, RaceInv, LoopTypes,
       RunTypes, EntryInv, runVars
  <2>3. EventTypes'
    BY <1>13, EndEventType, HeardOrNotTypes DEF HookThrowsInTry, HookThrowsInCatch
  <2> QED
    BY <1>13, <2>1, <2>2, <2>3 DEF HookThrowsInTry, HookThrowsInCatch
<1>14. CASE Conclude \/ ConcludeThrows
  <2>1. RunTypes' /\ EntryInv'
    BY <1>14 DEF Conclude, ConcludeThrows, executionStatus, RunTypes, EntryInv, RunStatuses
  <2> QED
    BY <1>14, <2>1 DEF Conclude, ConcludeThrows, poolVars, briefVars
<1>15. CASE AppendEntry
  <2>1. status \in RunStatuses
    BY <1>15 DEF AppendEntry, EntryInv
  <2>2. RunTypes' /\ EntryInv'
    BY <1>15, <2>1 DEF AppendEntry, RunTypes, EntryInv
  <2> QED
    BY <1>15, <2>2 DEF AppendEntry, poolVars, briefVars
<1>16. CASE AppendFails
  BY <1>16 DEF AppendFails, RunTypes, poolVars, briefVars
<1>17. ASSUME NEW b \in Briefs, NEW a \in live[b], NEW o \in OperationOutcomes,
              OperationSettles(b, a, o)
       PROVE  TypeInv'
  <2>1. LoopTypes'
    BY <1>17 DEF OperationSettles, LoopTypes
  <2>2. RaceTypes' /\ RaceInv'
    BY <1>17, OutcomeTypes DEF OperationSettles, RaceTypes, RaceInv, LoopTypes
  <2> QED
    BY <1>17, <2>1, <2>2 DEF OperationSettles
<1>18. CASE Abort
  <2>1. LoopTypes' /\ RunTypes'
    BY <1>18 DEF Abort, LoopTypes, RunTypes, ErrorKinds, runVars
  <2>2. RaceTypes' /\ RaceInv'
    BY <1>18, OutcomeTypes DEF Abort, RaceTypes, RaceInv, LoopTypes, ErrorKinds
  <2> QED
    BY <1>18, <2>1, <2>2 DEF Abort
<1>19. CASE UNCHANGED vars
  BY <1>19 DEF vars, briefVars
<1> QED
  BY <1>1, <1>2, <1>3, <1>4, <1>5, <1>6, <1>7, <1>8, <1>9, <1>11, <1>12, <1>13,
     <1>14, <1>15, <1>16, <1>17, <1>18, <1>19
     DEF Next, Runtime, Environment, Terminated

\* A run that has not begun satisfies TypeInv.
LEMMA InitTypeInv == Init => TypeInv
<1> SUFFICES ASSUME Init PROVE TypeInv
  OBVIOUS
<1>1. RunTypes /\ EntryInv
  <2>1. log \in Seq(RunStatuses)
    BY DEF Init
  <2>2. aborted \in BOOLEAN
    BY DEF Init
  <2> QED
    BY <2>1, <2>2 DEF Init, RunTypes, EntryInv
<1>4. PoolTypes /\ ResultTypes
  BY DEF Init, PoolTypes, ResultTypes
<1>2. LoopTypes /\ RaceTypes /\ RaceInv
  BY DEF Init, LoopTypes, RaceTypes, RaceInv
<1>3. EventTypes
  BY DEF Init, EventTypes
<1> QED
  BY <1>1, <1>2, <1>3, <1>4 DEF TypeInv, TypeOK

\* TypeInv is an invariant: types, a settled race has an outcome, and the entry
\* that is appended has a status.
THEOREM TypeInvariant == Spec => []TypeInv
  BY InitTypeInv, TypeInvStep, PTL DEF Spec

\* TypeOK is an invariant for every plan, every policy and every executor.
THEOREM TypeCorrect == Spec => []TypeOK
<1>1. TypeInv => TypeOK
  BY DEF TypeInv
<1> QED
  BY <1>1, TypeInvariant, PTL

-----------------------------------------------------------------------------
\* The pool

\* The briefs under way can be counted.
LEMMA BusyFinite == IsFiniteSet(Busy) /\ Cardinality(Busy) \in Nat
<1>1. IsFiniteSet(Briefs)
  BY FS_Interval, BriefsType DEF Briefs
<1> QED
  BY <1>1, FS_Subset, FS_CardinalityType DEF Busy

\* A group that is started has at least one worker in its pool.
LEMMA PoolSizeRange ==
  ASSUME NEW i \in Int, NEW j \in Int, i <= j
  PROVE  /\ PoolSize(i, j) <= Cap
         /\ MaxConcurrency # NaN => PoolSize(i, j) >= 1
  BY PolicyAssumption DEF PoolSize, AtLeastOne, Cap

\* A step that moves briefs only between the busy locations, and does not start
\* or revive the run in the middle of a group, keeps PoolInv.
LEMMA QuietStep ==
  ASSUME TypeInv, TypeInv', PoolInv,
         UNCHANGED <<poolVars, result>>,
         \A b \in Briefs : \/ pc'[b] = pc[b]
                           \/ pc[b] \in BusyPcs /\ pc'[b] \in BusyPcs,
         phase' = "start" => phase = "start",
         phase' = "running" => phase = "running" \/ last = 0,
         phase = "rejected" => phase' = "rejected"
  PROVE  PoolInv'
<1>1. Busy' = Busy
  BY DEF Busy
<1>2. Groups'
  BY DEF PoolInv, Groups, poolVars
<1>3. Positions'
  BY <1>1 DEF PoolInv, Positions, Busy, poolVars
<1>4. PoolCount'
  BY <1>1 DEF PoolInv, PoolCount, poolVars
<1> QED
  BY <1>2, <1>3, <1>4 DEF PoolInv

\* A brief whose runWithPolicies throws leaves its place in the pool empty.
LEMMA LeaveStep ==
  ASSUME TypeInv, TypeInv', PoolInv, NEW b \in Busy,
         UNCHANGED <<poolVars, result>>,
         NEW p \in {"threw", "unreachable"},
         pc' = [pc EXCEPT ![b] = p],
         phase' = "rejected"
  PROVE  PoolInv'
<1>1. b \in Briefs /\ pc[b] \in BusyPcs
  BY DEF Busy
<1>2. Busy' = Busy \ {b}
  BY <1>1 DEF Busy, TypeInv, TypeOK, LoopTypes
<1>3. Cardinality(Busy') = Cardinality(Busy) - 1
  BY <1>2, BusyFinite, FS_RemoveElement
<1>4. Groups'
  BY DEF PoolInv, Groups, poolVars
<1>5. Positions'
  BY <1>1, <1>2 DEF PoolInv, Positions, TypeInv, TypeOK, LoopTypes, poolVars, Busy
<1>6. PoolCount'
  <2>1. PoolSize(first, last)' = PoolSize(first, last)
    BY DEF poolVars, PoolSize
  <2>2. last # 0 => PoolSize(first, last) \in Nat
    BY PoolSizeType DEF PoolInv, Groups, TypeInv, TypeOK, PoolTypes
  <2>3. Cardinality(Busy) + ready <= IF last = 0 THEN 0 ELSE PoolSize(first, last)
    BY DEF PoolInv, PoolCount
  <2>4. ready' = ready /\ last' = last /\ ready \in Nat
    BY DEF poolVars, TypeInv, TypeOK, PoolTypes
  <2>5. Cardinality(Busy') + ready' <= IF last' = 0 THEN 0 ELSE PoolSize(first, last)'
    BY <1>3, <2>1, <2>2, <2>3, <2>4, BusyFinite
  <2> QED
    BY <2>5 DEF PoolCount
<1> QED
  BY <1>4, <1>5, <1>6 DEF PoolInv

\* Every step keeps PoolInv: briefs are taken in order, and a place in the pool is
\* handed on, or lost together with the run.
LEMMA PoolInvStep == TypeInv /\ TypeInv' /\ PoolInv /\ [Next]_vars => PoolInv'
<1> SUFFICES ASSUME TypeInv, TypeInv', PoolInv, [Next]_vars
             PROVE  PoolInv'
  OBVIOUS
<1> USE BriefsType
<1>types. PoolTypes /\ PoolTypes' /\ LoopTypes /\ LoopTypes' /\ ResultTypes
  BY DEF TypeInv, TypeOK
<1>1. CASE \E s, r \in BOOLEAN : Begin(s, r)
  BY <1>1, QuietStep DEF Begin, poolVars, briefVars, PoolInv, Groups
<1>2. CASE NextGroup
  <2> PICK j \in last + 1..NumBriefs :
         /\ EndsGroup(last + 1, j)
         /\ first' = last + 1
         /\ last' = j
         /\ next' = last + 1
         /\ ready' = PoolSize(last + 1, j)
    BY <1>2 DEF NextGroup
  <2>1. Busy = {} /\ Busy' = {} /\ Cardinality(Busy) = 0 /\ Cardinality(Busy') = 0
    BY <1>2, FS_EmptySet DEF NextGroup, GroupDone, Busy, briefVars
  <2>2. ASSUME MaxConcurrency # NaN, last # 0
        PROVE  next > last
    <3>1. Cardinality(Busy) + ready = PoolSize(first, last)
      BY <1>2, <2>2, <1>types DEF NextGroup, PoolInv, PoolCount, PoolTypes
    <3>2. PoolSize(first, last) >= 1
      BY <2>2, <1>types, PoolSizeRange DEF PoolInv, Groups, PoolTypes
    <3> QED
      BY <1>2, <2>1, <3>1, <3>2 DEF NextGroup, GroupDone
  <2>3. Groups'
    BY <1>2, <1>types DEF NextGroup, PoolInv, Groups, PoolTypes, runVars
  <2>4. ASSUME NEW b \in Briefs, b < first'
        PROVE  pc[b] = "done" \/ (MaxConcurrency = NaN /\ b \notin Busy)
    <3>1. CASE b < first
      BY <3>1 DEF PoolInv, Positions
    <3>2. CASE first <= b /\ MaxConcurrency # NaN
      <4>1. last # 0 /\ b <= last
        BY <2>4, <3>2, <1>types DEF PoolInv, Groups, PoolTypes, Briefs
      <4>2. b < next
        BY <4>1, <2>2, <3>2, <1>types DEF PoolTypes
      <4>3. pc[b] # "idle"
        BY <4>2, <3>2, <1>types DEF PoolInv, Positions, PoolTypes
      <4>4. pc[b] \notin {"threw", "unreachable"}
        BY <1>2 DEF NextGroup, PoolInv, Positions
      <4> QED
        BY <2>1, <4>3, <4>4, <1>types DEF LoopTypes, Busy
    <3> QED
      BY <2>1, <3>1, <3>2, <1>types DEF PoolTypes
  <2>5. Positions'
    <3> SUFFICES ASSUME NEW b \in Briefs
                 PROVE  (/\ pc[b] = "idle" => b < first \/ next <= b
                         /\ next <= b => pc[b] = "idle"
                         /\ b < first => pc[b] = "done" \/ (MaxConcurrency = NaN /\ b \notin Busy)
                         /\ pc[b] = "done" <=> result[b] # "none"
                         /\ pc[b] \in {"threw", "unreachable"} => phase = "rejected")'
      BY DEF Positions
    <3>1. UNCHANGED <<pc, result, phase>>
      BY <1>2 DEF NextGroup, briefVars, runVars
    <3>2. next' <= b => pc[b] = "idle"
      BY <1>types DEF PoolInv, Positions, Groups, PoolTypes
    <3>3. pc[b] = "idle" => b < first' \/ next' <= b
      BY <1>types DEF PoolTypes
    <3> QED
      BY <2>1, <2>4, <3>1, <3>2, <3>3 DEF PoolInv, Positions
  <2>6. PoolCount'
    <3>1. PoolSize(first, last)' = PoolSize(last + 1, j)
      BY DEF PoolSize
    <3>2. PoolSize(last + 1, j) \in Nat
      BY <1>types, PoolSizeType DEF PoolTypes
    <3> QED
      BY <2>1, <3>1, <3>2, <1>types DEF PoolCount, PoolTypes
  <2> QED
    BY <2>3, <2>5, <2>6 DEF PoolInv
<1>started. ASSUME ready > 0, next <= last, next' = next + 1, ready' = ready - 1,
                   UNCHANGED <<first, last, result>>,
                   NEW p \in BusyPcs \cup {"threw", "unreachable"},
                   pc' = [pc EXCEPT ![next] = p],
                   IF p \in BusyPcs THEN phase' = phase ELSE phase' = "rejected"
            PROVE  PoolInv'
  <2>1. next \in Briefs /\ pc[next] = "idle" /\ next \notin Busy
    BY <1>started, <1>types DEF PoolInv, Groups, Positions, PoolTypes, Briefs, Busy
  <2>2. Busy' = IF p \in BusyPcs THEN Busy \cup {next} ELSE Busy
    BY <1>started, <2>1, <1>types DEF Busy, LoopTypes
  <2>3. /\ Cardinality(Busy') \in Nat
        /\ Cardinality(Busy') <= Cardinality(Busy) + 1
        /\ p \in BusyPcs => Cardinality(Busy') = Cardinality(Busy) + 1
    BY <2>1, <2>2, BusyFinite, FS_AddElement
  <2>4. Groups'
    BY <1>started, <1>types DEF PoolInv, Groups, PoolTypes, EndsGroup
  <2>5. Positions'
    <3> SUFFICES ASSUME NEW b \in Briefs
                 PROVE  (/\ pc[b] = "idle" => b < first \/ next <= b
                         /\ next <= b => pc[b] = "idle"
                         /\ b < first => pc[b] = "done" \/ (MaxConcurrency = NaN /\ b \notin Busy)
                         /\ pc[b] = "done" <=> result[b] # "none"
                         /\ pc[b] \in {"threw", "unreachable"} => phase = "rejected")'
      BY DEF Positions
    <3>1. CASE b = next
      BY <3>1, <2>1, <1>started, <1>types DEF PoolInv, Positions, Groups, PoolTypes, LoopTypes
    <3>2. CASE b # next
      <4>1. pc'[b] = pc[b] /\ (b \in Busy' <=> b \in Busy)
        BY <3>2, <1>started, <1>types, <2>2 DEF LoopTypes
      <4> QED
        BY <3>2, <4>1, <1>started, <1>types DEF PoolInv, Positions, PoolTypes
    <3> QED
      BY <3>1, <3>2
  <2>6. PoolCount'
    <3>1. PoolSize(first, last)' = PoolSize(first, last) /\ last # 0
      BY <1>started, <2>1 DEF PoolSize, Briefs, PoolInv, Groups
    <3>2. PoolSize(first, last) \in Nat
      BY <3>1, <1>types, PoolSizeType DEF PoolInv, Groups, PoolTypes
    <3>3. Cardinality(Busy) + ready <= PoolSize(first, last)
      BY <3>1 DEF PoolInv, PoolCount
    <3>4. phase' = "running" =>
            p \in BusyPcs /\ Cardinality(Busy) + ready = PoolSize(first, last)
      BY <1>started, <3>1, <1>types DEF PoolInv, PoolCount, PoolTypes
    <3> QED
      BY <1>started, <2>3, <3>1, <3>2, <3>3, <3>4, <1>types, BusyFinite DEF PoolCount, PoolTypes
  <2> QED
    BY <2>4, <2>5, <2>6 DEF PoolInv
<1>3. CASE TakeBrief
  BY <1>3, <1>started DEF TakeBrief, EnterAttempt
<1>4. CASE StartThrows
  BY <1>4, <1>started DEF StartThrows
<1>5. ASSUME NEW b \in Briefs,
             TimerFires(b) \/ AttemptThrows(b) \/ Retry(b) \/ DelayEnds(b)
               \/ HookThrowsInTry(b)
      PROVE  PoolInv'
  <2>1. pc[b] \in BusyPcs
    BY <1>5 DEF TimerFires, AttemptThrows, Retry, MayRetry, DelayEnds, HookThrowsInTry,
       AttemptReturned
  <2>2. \E p \in BusyPcs : pc' = [pc EXCEPT ![b] = p]
    BY <1>5 DEF TimerFires, AttemptThrows, Retry, DelayEnds, HookThrowsInTry
  <2>3. UNCHANGED <<phase, poolVars, result>>
    BY <1>5 DEF TimerFires, AttemptThrows, Retry, DelayEnds, HookThrowsInTry, runVars
  <2> QED
    BY <2>1, <2>2, <2>3, <1>types, QuietStep DEF LoopTypes
<1>6. ASSUME NEW b \in Briefs, NextAttempt(b)
      PROVE  PoolInv'
  <2>1. b \in Busy /\ UNCHANGED <<poolVars, result>>
    BY <1>6 DEF NextAttempt, Busy
  <2>2. CASE WithinBudget(attempt[b] + 1)
    BY <1>6, <2>1, <2>2, <1>types, QuietStep DEF NextAttempt, EnterAttempt, LoopTypes, Busy
  <2>3. CASE ~WithinBudget(attempt[b] + 1)
    BY <1>6, <2>1, <2>3, LeaveStep DEF NextAttempt, EnterAttempt
  <2> QED
    BY <2>2, <2>3
<1>7. ASSUME NEW b \in Briefs, HookThrowsInCatch(b)
      PROVE  PoolInv'
  BY <1>7, LeaveStep DEF HookThrowsInCatch, Busy
<1>8. ASSUME NEW b \in Briefs, NEW s \in Statuses, pc[b] \in BusyPcs, Finish(b, s)
      PROVE  PoolInv'
  <2>1. b \in Busy /\ b < next /\ first <= b /\ last # 0
    BY <1>8, <1>types DEF Busy, PoolInv, Positions, Groups, PoolTypes, Briefs
  <2>2. Busy' = Busy \ {b}
    BY <1>8, <1>types DEF Busy, LoopTypes, Finish
  <2>3. Cardinality(Busy') = Cardinality(Busy) - 1
    BY <2>1, <2>2, BusyFinite, FS_RemoveElement
  <2>4. Groups'
    BY <1>8, <2>1 DEF PoolInv, Groups, Finish, runVars
  <2>5. Positions'
    <3>1. "none" \notin Statuses
      BY DEF Statuses
    <3>2. UNCHANGED <<first, next, phase>>
      BY <1>8 DEF Finish, runVars
    <3>3. /\ pc' = [pc EXCEPT ![b] = "done"]
          /\ result' = [result EXCEPT ![b] = s]
      BY <1>8 DEF Finish
    <3>4. ASSUME NEW c \in Briefs
          PROVE  (/\ pc[c] = "idle" => c < first \/ next <= c
                  /\ next <= c => pc[c] = "idle"
                  /\ c < first => pc[c] = "done" \/ (MaxConcurrency = NaN /\ c \notin Busy)
                  /\ pc[c] = "done" <=> result[c] # "none"
                  /\ pc[c] \in {"threw", "unreachable"} => phase = "rejected")'
      <4>1. CASE c = b
        BY <4>1, <2>1, <3>1, <3>2, <3>3, <1>types DEF LoopTypes, ResultTypes, PoolTypes
      <4>2. CASE c # b
        <5>1. pc'[c] = pc[c] /\ result'[c] = result[c] /\ (c \in Busy' <=> c \in Busy)
          BY <4>2, <2>2, <3>3, <1>types DEF LoopTypes, ResultTypes
        <5> QED
          BY <5>1, <3>2 DEF PoolInv, Positions
      <4> QED
        BY <4>1, <4>2
    <3> QED
      BY <3>4 DEF Positions
  <2>6. PoolCount'
    BY <1>8, <2>1, <2>3, <1>types, BusyFinite
       DEF PoolInv, PoolCount, Finish, runVars, PoolTypes, PoolSize
  <2> QED
    BY <2>4, <2>5, <2>6 DEF PoolInv
<1>9. ASSUME NEW b \in Briefs, FinishReturned(b)
      PROVE  PoolInv'
  <2>1. race[b].what \in Statuses
    BY <1>9, OutcomeTypes DEF FinishReturned, AttemptReturned, TypeInv, RaceInv
  <2> QED
    BY <1>8, <1>9, <2>1 DEF FinishReturned, AttemptReturned
<1>10. ASSUME NEW b \in Briefs, FinishCaught(b)
       PROVE  PoolInv'
  <2>1. FailureStatus(error[b]) \in Statuses
    BY DEF FailureStatus, Statuses
  <2> QED
    BY <1>8, <1>10, <2>1 DEF FinishCaught
<1>11. CASE Conclude \/ ConcludeThrows \/ AppendEntry \/ AppendFails
  BY <1>11, QuietStep DEF Conclude, ConcludeThrows, AllGroupsDone, AppendEntry, AppendFails,
     briefVars
<1>12. ASSUME NEW b \in Briefs, NEW a \in live[b], NEW o \in OperationOutcomes,
              OperationSettles(b, a, o)
       PROVE  PoolInv'
  BY <1>12, <1>types, QuietStep DEF OperationSettles, LoopTypes, runVars
<1>13. CASE Abort
  BY <1>13, <1>types, QuietStep DEF Abort, LoopTypes, runVars
<1>14. CASE UNCHANGED vars
  BY <1>14, QuietStep DEF vars, runVars, briefVars
<1> QED
  BY <1>1, <1>2, <1>3, <1>4, <1>5, <1>6, <1>7, <1>9, <1>10, <1>11, <1>12, <1>13, <1>14
     DEF Next, Runtime, Environment, Terminated

\* PoolInv follows from the specification alone, whatever hooks throw.
THEOREM PoolInvariant == Spec => []PoolInv
<1>1. Init => TypeInv
  BY InitTypeInv
<1>2. Init => PoolInv
  <2> SUFFICES ASSUME Init PROVE PoolInv
    OBVIOUS
  <2>1. Busy = {} /\ Cardinality(Busy) = 0
    BY FS_EmptySet DEF Init, Busy
  <2> QED
    BY <2>1, BriefsType DEF Init, PoolInv, Groups, Positions, PoolCount, Briefs
<1> QED
  BY <1>1, <1>2, TypeInvStep, PoolInvStep, PTL DEF Spec

\* No brief overtakes the groups before it, and the reviewer none of the
\* workers, when the concurrency cap is a number.
THEOREM PlanOrderHolds ==
  ASSUME MaxConcurrency # NaN
  PROVE  Spec => []PlanOrder
<1>1. TypeInv /\ PoolInv => PlanOrder
  <2> SUFFICES ASSUME TypeInv, PoolInv, NEW b \in Briefs, NEW c \in Briefs,
                      b < c, pc[c] # "idle", result[b] = "none"
               PROVE  SameGroup(b, c)
    BY DEF PlanOrder
  <2>1. c <= last /\ first <= b /\ last # 0
    BY BriefsType DEF PoolInv, Groups, Positions, TypeInv, TypeOK, PoolTypes, Briefs
  <2>2. EndsGroup(first, last) /\ first < last
    BY <2>1, BriefsType DEF PoolInv, Groups, TypeInv, TypeOK, PoolTypes
  <2>3. first..last \subseteq Independent
    BY <2>2, BriefsType DEF EndsGroup, TypeInv, TypeOK, PoolTypes
  <2> QED
    BY <2>1, <2>3, BriefsType DEF SameGroup, TypeInv, TypeOK, PoolTypes
<1> QED
  BY <1>1, TypeInvariant, PoolInvariant, PTL

\* However many briefs a group has and however they end, no more than the cap
\* are under way.
THEOREM ConcurrencyCapHolds == Spec => []ConcurrencyCap
<1>1. TypeInv /\ PoolInv => ConcurrencyCap
  <2> SUFFICES ASSUME TypeInv, PoolInv PROVE Cardinality(Busy) <= Cap
    BY DEF ConcurrencyCap
  <2>1. Cap \in Nat
    BY PolicyAssumption DEF Cap, AtLeastOne
  <2>2. last # 0 => PoolSize(first, last) \in Nat /\ PoolSize(first, last) <= Cap
    BY PoolSizeType, PoolSizeRange DEF PoolInv, Groups, TypeInv, TypeOK, PoolTypes
  <2> QED
    BY <2>1, <2>2, BusyFinite DEF PoolInv, PoolCount, TypeInv, TypeOK, PoolTypes
<1> QED
  BY <1>1, TypeInvariant, PoolInvariant, PTL
===============================================================================
