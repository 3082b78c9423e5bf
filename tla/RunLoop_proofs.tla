---------------------------- MODULE RunLoop_proofs ----------------------------
(***************************************************************************)
(* Theorems about the attempts of a brief in RunExecutionPlan - what is    *)
(* left running, what is tried again, what the logger hears - for every    *)
(* plan, every policy and every executor.                                  *)
(***************************************************************************)
EXTENDS RunExecutionPlan_proofs

\* What of a brief a step may leave alone.
Untouched(c) ==
  /\ pc'[c] = pc[c] /\ attempt'[c] = attempt[c] /\ live'[c] = live[c]
  /\ race'[c] = race[c] /\ timedOut'[c] = timedOut[c] /\ error'[c] = error[c]
  /\ events'[c] = events[c] /\ result'[c] = result[c]

\* The steps of one brief.
BriefStep(b) ==
  \/ TimerFires(b) \/ AttemptThrows(b) \/ Retry(b) \/ DelayEnds(b) \/ NextAttempt(b)
  \/ FinishReturned(b) \/ FinishCaught(b) \/ HookThrowsInTry(b) \/ HookThrowsInCatch(b)
  \/ \E a \in live[b], o \in OperationOutcomes : OperationSettles(b, a, o)

\* The steps of the run that concern no brief.
RunStep ==
  \/ \E s, r \in BOOLEAN : Begin(s, r)
  \/ NextGroup \/ Conclude \/ ConcludeThrows \/ AppendEntry \/ AppendFails
  \/ UNCHANGED vars

\* Every step is one of the run, one that starts the next brief, one of a brief,
\* or the caller's abort.
LEMMA StepKinds ==
  ASSUME [Next]_vars
  PROVE  RunStep \/ TakeBrief \/ StartThrows \/ Abort \/ \E b \in Briefs : BriefStep(b)
  BY DEF Next, Runtime, Environment, Terminated, RunStep, BriefStep

\* A step of the run leaves every brief as it was.
LEMMA RunStepTouchesNoBrief ==
  ASSUME RunStep
  PROVE  UNCHANGED <<aborted, briefVars>>
  BY DEF RunStep, Begin, NextGroup, Conclude, ConcludeThrows, AppendEntry, AppendFails,
     vars, briefVars

\* A step of one brief leaves the others as they were.
LEMMA BriefStepTouchesItsBrief ==
  ASSUME TypeInv, NEW b \in Briefs, BriefStep(b), NEW c \in Briefs, c # b
  PROVE  Untouched(c) /\ UNCHANGED aborted
<1> USE DEF TypeInv, TypeOK, LoopTypes, RaceTypes, ResultTypes, EventTypes, Untouched
<1>1. CASE TimerFires(b)
  BY <1>1 DEF TimerFires
<1>2. CASE AttemptThrows(b) \/ HookThrowsInTry(b) \/ HookThrowsInCatch(b) \/ DelayEnds(b)
  BY <1>2 DEF AttemptThrows, HookThrowsInTry, HookThrowsInCatch, HeardOrNot, DelayEnds
<1>3. CASE Retry(b)
  BY <1>3 DEF Retry
<1>4. CASE NextAttempt(b)
  BY <1>4 DEF NextAttempt, EnterAttempt
<1>5. CASE FinishReturned(b) \/ FinishCaught(b)
  BY <1>5 DEF FinishReturned, FinishCaught, Finish
<1>6. CASE \E a \in live[b], o \in OperationOutcomes : OperationSettles(b, a, o)
  BY <1>6 DEF OperationSettles
<1> QED
  BY <1>1, <1>2, <1>3, <1>4, <1>5, <1>6 DEF BriefStep

\* The brief that is started is one that has not been.
LEMMA NextIsIdle ==
  ASSUME TypeInv, PoolInv, next <= last
  PROVE  next \in Briefs /\ pc[next] = "idle" /\ result[next] = "none"
  BY BriefsType DEF TypeInv, TypeOK, PoolTypes, PoolInv, Groups, Positions, Briefs

\* Starting a brief leaves the others as they were.
LEMMA StartTouchesItsBrief ==
  ASSUME TypeInv, PoolInv, TakeBrief \/ StartThrows, NEW c \in Briefs, c # next
  PROVE  Untouched(c) /\ UNCHANGED aborted
  BY NextIsIdle
  DEF TakeBrief, StartThrows, HeardOrNot, EnterAttempt, Untouched, TypeInv, TypeOK, LoopTypes,
      RaceTypes, ResultTypes, EventTypes
-----------------------------------------------------------------------------
\* Operations that are left running

\* One brief's share of OnlyDeadlinesAbandon.
Awaited(b) ==
  /\ pc[b] = "racing" => attempt[b] \in live[b]
  /\ aborted \/ Abandoned(b) \subseteq timedOut[b]

\* The race that is left behind was lost to its own timer or to the abort; an
\* attempt that is entered adds to what is left behind by the earlier ones nothing
\* but itself, which is waited for.
LEMMA AwaitedStep ==
  ASSUME TypeInv, PoolInv, OnlyDeadlinesAbandon, [Next]_vars
  PROVE  OnlyDeadlinesAbandon'
<1> SUFFICES ASSUME NEW c \in Briefs
             PROVE  Awaited(c)'
  BY DEF OnlyDeadlinesAbandon, Awaited
<1> USE DEF Awaited, Abandoned
<1>types. Awaited(c) /\ LoopTypes
  BY DEF OnlyDeadlinesAbandon, TypeInv, TypeOK
<1>same. ASSUME Untouched(c), UNCHANGED aborted PROVE Awaited(c)'
  BY <1>same, <1>types DEF Untouched
<1>1. CASE RunStep
  BY <1>1, <1>types, RunStepTouchesNoBrief DEF briefVars
<1>2. CASE TakeBrief \/ StartThrows
  <2>1. CASE c = next
    BY <2>1, <1>2, <1>types, NextIsIdle DEF TakeBrief, StartThrows, EnterAttempt, LoopTypes
  <2> QED
    BY <2>1, <1>2, <1>same, StartTouchesItsBrief
<1>3. CASE Abort
  BY <1>3, <1>types DEF Abort, LoopTypes
<1>4. ASSUME BriefStep(c) PROVE Awaited(c)'
  <2> USE <1>types DEF LoopTypes
  <2>1. CASE TimerFires(c)
    BY <2>1 DEF TimerFires
  <2>2. CASE AttemptThrows(c) \/ Retry(c) \/ DelayEnds(c)
    BY <2>2 DEF AttemptThrows, Retry, MayRetry, AttemptReturned, DelayEnds
  <2>3. CASE HookThrowsInTry(c) \/ HookThrowsInCatch(c)
    BY <2>3 DEF HookThrowsInTry, HookThrowsInCatch, AttemptReturned
  <2>4. CASE NextAttempt(c)
    BY <2>4 DEF NextAttempt, EnterAttempt
  <2>5. CASE FinishReturned(c) \/ FinishCaught(c)
    BY <2>5 DEF FinishReturned, FinishCaught, Finish, AttemptReturned
  <2>6. ASSUME NEW a \in live[c], NEW o \in OperationOutcomes, OperationSettles(c, a, o)
        PROVE  Awaited(c)'
    BY <2>6 DEF OperationSettles
  <2> QED
    BY <1>4, <2>1, <2>2, <2>3, <2>4, <2>5, <2>6 DEF BriefStep
<1>5. ASSUME NEW b \in Briefs, BriefStep(b), b # c PROVE Awaited(c)'
  BY <1>5, <1>same, BriefStepTouchesItsBrief
<1> QED
  BY <1>1, <1>2, <1>3, <1>4, <1>5, StepKinds

\* An operation that runs without anybody waiting for it has been told to stop, by
\* the caller's abort or by the timer of its own attempt, however many attempts have
\* followed; and every race is one of a running operation.
THEOREM OnlyDeadlinesAbandonHolds == Spec => []OnlyDeadlinesAbandon
<1>1. Init => OnlyDeadlinesAbandon
  BY DEF Init, OnlyDeadlinesAbandon, Abandoned
<1>2. TypeInv /\ PoolInv /\ OnlyDeadlinesAbandon /\ [Next]_vars => OnlyDeadlinesAbandon'
  BY AwaitedStep
<1> QED
  BY <1>1, <1>2, TypeInvariant, PoolInvariant, PTL DEF Spec

\* From the abort on no operation is launched: only an attempt that is entered
\* launches one, and it looks at the signal first.
THEOREM NothingIsLaunchedAfterAbort == Spec => NoLaunchAfterAbort
<1>1. ASSUME TypeInv, PoolInv, [Next]_vars, aborted, NEW c \in Briefs
      PROVE  live'[c] \subseteq live[c]
  <2> USE <1>1 DEF TypeInv, TypeOK, LoopTypes
  <2>1. CASE RunStep \/ Abort
    BY <2>1, RunStepTouchesNoBrief DEF Abort, briefVars
  <2>2. CASE TakeBrief \/ StartThrows
    BY <2>2, NextIsIdle DEF TakeBrief, StartThrows, EnterAttempt
  <2>3. ASSUME NEW b \in Briefs, BriefStep(b)
        PROVE  live'[c] \subseteq live[c]
    <3>1. CASE b = c
      <4>1. CASE TimerFires(c)
        BY <4>1 DEF TimerFires
      <4>2. CASE NextAttempt(c)
        BY <4>2 DEF NextAttempt, EnterAttempt
      <4>3. ASSUME NEW a \in live[c], NEW o \in OperationOutcomes, OperationSettles(c, a, o)
            PROVE  live'[c] \subseteq live[c]
        BY <4>3 DEF OperationSettles
      <4> QED
        BY <2>3, <3>1, <4>1, <4>2, <4>3
        DEF BriefStep, AttemptThrows, Retry, DelayEnds, FinishReturned, FinishCaught,
            Finish, HookThrowsInTry, HookThrowsInCatch
    <3> QED
      BY <2>3, <3>1, BriefStepTouchesItsBrief DEF Untouched
  <2> QED
    BY <2>1, <2>2, <2>3, StepKinds
<1>2. TypeInv /\ PoolInv /\ [Next]_vars =>
        (aborted => \A b \in Briefs : live'[b] \subseteq live[b])
  BY <1>1
<1> QED
  BY <1>2, TypeInvariant, PoolInvariant, PTL DEF Spec, NoLaunchAfterAbort

-----------------------------------------------------------------------------
\* The budget

\* An attempt is followed by another only when that one is within the budget.
WithinLoop(b) ==
  /\ pc[b] # "unreachable"
  /\ pc[b] \in {"delay", "restart"} => WithinBudget(attempt[b] + 1)
BudgetInv == \A b \in Briefs : WithinLoop(b)

\* There is always one attempt.
LEMMA FirstAttemptIsWithinBudget ==
  ASSUME MaxAttempts # NaN
  PROVE  WithinBudget(1)
  BY PolicyAssumption DEF WithinBudget, AtLeastOne

\* The budget is read before every further attempt.
LEMMA BudgetStep ==
  ASSUME MaxAttempts # NaN, TypeInv, PoolInv, BudgetInv, [Next]_vars
  PROVE  BudgetInv'
<1> SUFFICES ASSUME NEW c \in Briefs
             PROVE  WithinLoop(c)'
  BY DEF BudgetInv
<1> USE DEF WithinLoop
<1>types. WithinLoop(c) /\ LoopTypes
  BY DEF BudgetInv, TypeInv, TypeOK
<1>same. ASSUME Untouched(c) PROVE WithinLoop(c)'
  BY <1>same, <1>types DEF Untouched, WithinBudget
<1>1. CASE RunStep
  BY <1>1, <1>types, RunStepTouchesNoBrief DEF briefVars, WithinBudget
<1>2. CASE TakeBrief \/ StartThrows
  <2>1. CASE c = next
    BY <2>1, <1>2, <1>types, NextIsIdle, FirstAttemptIsWithinBudget
    DEF TakeBrief, StartThrows, EnterAttempt, LoopTypes
  <2> QED
    BY <2>1, <1>2, <1>same, StartTouchesItsBrief
<1>3. CASE Abort
  BY <1>3, <1>types DEF Abort, LoopTypes, WithinBudget
<1>4. ASSUME BriefStep(c) PROVE WithinLoop(c)'
  <2> USE <1>types DEF LoopTypes, WithinBudget
  <2>1. CASE TimerFires(c) \/ AttemptThrows(c) \/ HookThrowsInTry(c) \/ HookThrowsInCatch(c)
    BY <2>1 DEF TimerFires, AttemptThrows, HookThrowsInTry, HookThrowsInCatch
  <2>2. CASE Retry(c) \/ DelayEnds(c)
    BY <2>2 DEF Retry, MayRetry, DelayEnds
  <2>3. CASE NextAttempt(c)
    BY <2>3 DEF NextAttempt, EnterAttempt
  <2>4. CASE FinishReturned(c) \/ FinishCaught(c)
    BY <2>4 DEF FinishReturned, FinishCaught, Finish
  <2>5. ASSUME NEW a \in live[c], NEW o \in OperationOutcomes, OperationSettles(c, a, o)
        PROVE  WithinLoop(c)'
    BY <2>5 DEF OperationSettles
  <2> QED
    BY <1>4, <2>1, <2>2, <2>3, <2>4, <2>5 DEF BriefStep
<1>5. ASSUME NEW b \in Briefs, BriefStep(b), b # c PROVE WithinLoop(c)'
  BY <1>5, <1>same, BriefStepTouchesItsBrief
<1> QED
  BY <1>1, <1>2, <1>3, <1>4, <1>5, StepKinds

\* No attempt is beyond the budget.
LEMMA BudgetInvariant == ASSUME MaxAttempts # NaN PROVE Spec => []BudgetInv
<1>1. Init => BudgetInv
  BY DEF Init, BudgetInv, WithinLoop
<1>2. TypeInv /\ PoolInv /\ BudgetInv /\ [Next]_vars => BudgetInv'
  BY BudgetStep
<1> QED
  BY <1>1, <1>2, TypeInvariant, PoolInvariant, PTL DEF Spec

\* The end of the loop ("Unreachable retry state.") is not reached when
\* max_attempts is a number; run_nan shows that it is when it is none.
THEOREM RetryLoopReturnsHolds ==
  ASSUME MaxAttempts # NaN
  PROVE  Spec => []RetryLoopReturns
<1>1. BudgetInv => RetryLoopReturns
  BY DEF BudgetInv, WithinLoop, RetryLoopReturns
<1> QED
  BY <1>1, BudgetInvariant, PTL

-----------------------------------------------------------------------------
\* What is tried again

\* Between an attempt and the next its end is one that may be retried, and an
\* error that is not fatal is the error the attempt ended with.  A brief that has
\* not been started has had no attempt.
Justified(b) ==
  /\ pc[b] = "idle" => attempt[b] = 0
  /\ pc[b] \in {"delay", "restart"} => LastAttemptRetryable(b)
  /\ pc[b] = "caught" /\ ~Fatal(error[b]) => LastAttemptRetryable(b)
JustifiedInv == \A b \in Briefs : Justified(b)

\* What an abort leaves behind in the delay is not tried again.
LEMMA CancelledIsFatal == Fatal("cancelled")
  BY DEF Fatal, AlwaysFatal

\* Every step keeps what the next attempt is justified by.
LEMMA JustifiedStep ==
  ASSUME ~HooksMayThrow, TypeInv, PoolInv, JustifiedInv, [Next]_vars
  PROVE  JustifiedInv'
<1> SUFFICES ASSUME NEW c \in Briefs
             PROVE  Justified(c)'
  BY DEF JustifiedInv
<1> USE DEF Justified, LastAttemptRetryable
<1>types. Justified(c) /\ LoopTypes /\ RaceTypes
  BY DEF JustifiedInv, TypeInv, TypeOK
<1>same. ASSUME Untouched(c) PROVE Justified(c)'
  BY <1>same, <1>types DEF Untouched, Fatal
<1>1. CASE RunStep
  BY <1>1, <1>types, RunStepTouchesNoBrief DEF briefVars, Fatal
<1>2. CASE TakeBrief
  <2>1. CASE c = next
    BY <2>1, <1>2, <1>types, NextIsIdle, CancelledIsFatal
    DEF TakeBrief, EnterAttempt, LoopTypes, Fatal
  <2> QED
    BY <2>1, <1>2, <1>same, StartTouchesItsBrief
<1>3. CASE Abort
  BY <1>3, <1>types, CancelledIsFatal DEF Abort, LoopTypes, Fatal
<1>4. ASSUME BriefStep(c) PROVE Justified(c)'
  <2> USE <1>types DEF LoopTypes, RaceTypes
  <2>1. CASE TimerFires(c) \/ DelayEnds(c)
    BY <2>1 DEF TimerFires, DelayEnds
  <2>2. CASE AttemptThrows(c)
    BY <2>2, CancelledIsFatal DEF AttemptThrows
  <2>3. CASE Retry(c)
    BY <2>3, CancelledIsFatal DEF Retry, MayRetry, AttemptReturned
  <2>4. CASE NextAttempt(c)
    BY <2>4, CancelledIsFatal DEF NextAttempt, EnterAttempt
  <2>5. CASE FinishReturned(c) \/ FinishCaught(c)
    BY <2>5 DEF FinishReturned, FinishCaught, Finish
  <2>6. ASSUME NEW a \in live[c], NEW o \in OperationOutcomes, OperationSettles(c, a, o)
        PROVE  Justified(c)'
    BY <2>6 DEF OperationSettles
  <2> QED
    BY <1>4, <2>1, <2>2, <2>3, <2>4, <2>5, <2>6
    DEF BriefStep, HookThrowsInTry, HookThrowsInCatch
<1>5. ASSUME NEW b \in Briefs, BriefStep(b), b # c PROVE Justified(c)'
  BY <1>5, <1>same, BriefStepTouchesItsBrief
<1> QED
  BY <1>1, <1>2, <1>3, <1>4, <1>5, StepKinds DEF StartThrows

\* A brief waits for its next attempt only after one that may be retried.
LEMMA JustifiedInvariant == ASSUME ~HooksMayThrow PROVE Spec => []JustifiedInv
<1>1. Init => JustifiedInv
  BY DEF Init, JustifiedInv, Justified
<1>2. TypeInv /\ PoolInv /\ JustifiedInv /\ [Next]_vars => JustifiedInv'
  BY JustifiedStep
<1> QED
  BY <1>1, <1>2, TypeInvariant, PoolInvariant, PTL DEF Spec

\* Without hooks that throw, a brief is tried again only after an attempt that may
\* be retried; run_fatal shows what a logger that throws does to that.
THEOREM RetriesAreJustifiedHolds ==
  ASSUME ~HooksMayThrow
  PROVE  Spec => RetriesAreJustified
<1>1. ASSUME TypeInv, PoolInv, JustifiedInv, [Next]_vars, NEW c \in Briefs,
             attempt[c] > 0, attempt'[c] # attempt[c]
      PROVE  LastAttemptRetryable(c)
  <2>1. CASE RunStep \/ Abort
    BY <2>1, <1>1, RunStepTouchesNoBrief DEF Abort, briefVars
  <2>2. CASE TakeBrief \/ StartThrows
    <3>1. c = next
      BY <2>2, <1>1, StartTouchesItsBrief DEF Untouched
    <3> QED
      BY <2>2, <3>1, <1>1, NextIsIdle DEF TakeBrief, StartThrows, JustifiedInv, Justified
  <2>3. ASSUME NEW b \in Briefs, BriefStep(b)
        PROVE  LastAttemptRetryable(c)
    <3>1. b = c
      BY <2>3, <1>1, BriefStepTouchesItsBrief DEF Untouched
    <3>2. NextAttempt(c)
      BY <2>3, <3>1, <1>1
      DEF BriefStep, TimerFires, AttemptThrows, Retry, DelayEnds, FinishReturned,
          FinishCaught, Finish, HookThrowsInTry, HookThrowsInCatch, OperationSettles
    <3> QED
      BY <3>2, <1>1 DEF NextAttempt, JustifiedInv, Justified
  <2> QED
    BY <1>1, <2>1, <2>2, <2>3, StepKinds
<1>2. TypeInv /\ PoolInv /\ JustifiedInv /\ [Next]_vars =>
        \A b \in Briefs :
          attempt[b] > 0 /\ attempt'[b] # attempt[b] => LastAttemptRetryable(b)
  BY <1>1
<1> QED
  BY <1>2, TypeInvariant, PoolInvariant, JustifiedInvariant, PTL DEF Spec, RetriesAreJustified
-----------------------------------------------------------------------------
\* The answer

\* Before the run, while its entry is appended and after it is resolved, nothing
\* of a group is under way or about to be.
EndInv == phase \in {"start", "appending", "resolved"} => GroupDone

\* Without hooks that throw the same is true of a run that is rejected.
RejectedInv == phase = "rejected" => GroupDone

\* When a group is done all that a step may do is to end the run, to start the
\* next group, to abort, or to settle an operation that was left behind.
LEMMA GroupStaysDone ==
  ASSUME TypeInv, PoolInv, GroupDone, phase # "running", [Next]_vars
  PROVE  GroupDone'
<1> USE DEF GroupDone, Busy, BusyPcs
<1>1. CASE RunStep
  BY <1>1 DEF RunStep, Begin, NextGroup, Conclude, ConcludeThrows, AllGroupsDone,
     AppendEntry, AppendFails, vars, briefVars, poolVars
<1>2. CASE TakeBrief \/ StartThrows
  BY <1>2 DEF TakeBrief, StartThrows, TypeInv, TypeOK, PoolTypes
<1>3. CASE Abort
  BY <1>3 DEF Abort, poolVars
<1>4. ASSUME NEW b \in Briefs, BriefStep(b)
      PROVE  GroupDone'
  <2>1. pc[b] \notin BusyPcs
    BY <1>4
  <2>2. \E a \in live[b], o \in OperationOutcomes : OperationSettles(b, a, o)
    BY <2>1, <1>4
    DEF BriefStep, TimerFires, AttemptThrows, Retry, MayRetry, AttemptReturned, DelayEnds,
        NextAttempt, FinishReturned, FinishCaught, HookThrowsInTry, HookThrowsInCatch
  <2>3. UNCHANGED <<pc, ready, next, last>>
    BY <2>1, <2>2 DEF OperationSettles, poolVars
  <2> QED
    BY <2>3
<1> QED
  BY <1>1, <1>2, <1>3, <1>4, StepKinds

\* The phase changes at the beginning, at the end, or to a rejection.
LEMMA PhaseSteps ==
  ASSUME [Next]_vars, phase' # phase, ~HooksMayThrow, BudgetInv', TypeInv, PoolInv
  PROVE  /\ phase \in {"start", "appending"} \/ GroupDone
         /\ phase' # "running" => UNCHANGED <<pc, poolVars>>
<1>1. CASE RunStep
  BY <1>1 DEF RunStep, Begin, NextGroup, Conclude, ConcludeThrows, AllGroupsDone,
     AppendEntry, AppendFails, vars, runVars, briefVars
<1>2. CASE TakeBrief
  <2>1. pc'[next] # "unreachable"
    BY <1>2, NextIsIdle DEF TakeBrief, BudgetInv, WithinLoop
  <2> QED
    BY <1>2, <2>1, NextIsIdle DEF TakeBrief, EnterAttempt, TypeInv, TypeOK, LoopTypes
<1>3. CASE Abort
  BY <1>3 DEF Abort, runVars
<1>4. ASSUME NEW b \in Briefs, BriefStep(b)
      PROVE  FALSE
  <2>1. CASE NextAttempt(b)
    <3>1. pc'[b] # "unreachable"
      BY DEF BudgetInv, WithinLoop
    <3> QED
      BY <2>1, <3>1 DEF NextAttempt, EnterAttempt, TypeInv, TypeOK, LoopTypes
  <2> QED
    BY <1>4, <2>1
    DEF BriefStep, TimerFires, AttemptThrows, Retry, DelayEnds, FinishReturned,
        FinishCaught, Finish, HookThrowsInTry, HookThrowsInCatch, OperationSettles, runVars
<1> QED
  BY <1>1, <1>2, <1>3, <1>4, StepKinds DEF StartThrows

\* The run is over, or appends its entry, only when its last group is done.
LEMMA EndStep ==
  ASSUME TypeInv, PoolInv, EndInv, [Next]_vars
  PROVE  EndInv'
<1> SUFFICES ASSUME phase' \in {"start", "appending", "resolved"}
             PROVE  GroupDone'
  BY DEF EndInv
<1>1. CASE phase \in {"start", "appending", "resolved"}
  BY <1>1, GroupStaysDone DEF EndInv
<1>2. CASE phase \notin {"start", "appending", "resolved"}
  <2>1. Conclude
    <3>1. CASE RunStep
      BY <1>2, <3>1 DEF RunStep, Begin, NextGroup, Conclude, ConcludeThrows, AppendEntry,
         AppendFails, vars, runVars
    <3>2. CASE TakeBrief \/ StartThrows \/ Abort
      BY <1>2, <3>2 DEF TakeBrief, EnterAttempt, StartThrows, Abort, runVars
    <3>3. ASSUME NEW b \in Briefs, BriefStep(b)
          PROVE  Conclude
      <4>1. phase' \in {phase, "rejected"}
        <5>1. CASE NextAttempt(b)
          BY <5>1 DEF NextAttempt, EnterAttempt
        <5> QED
          BY <3>3, <5>1
          DEF BriefStep, TimerFires, AttemptThrows, Retry, DelayEnds, FinishReturned,
              FinishCaught, Finish, HookThrowsInTry, HookThrowsInCatch, OperationSettles,
              runVars
      <4> QED
        BY <1>2, <4>1
    <3> QED
      BY <3>1, <3>2, <3>3, StepKinds
  <2> QED
    BY <2>1 DEF Conclude, AllGroupsDone, GroupDone, Busy, poolVars, briefVars
<1> QED
  BY <1>1, <1>2

\* Before the run and after it, unless it is rejected, no brief is under way.
THEOREM RunsEndWithTheirGroups == Spec => []EndInv
<1>1. Init => EndInv
  BY DEF Init, EndInv, GroupDone, Busy, BusyPcs
<1>2. TypeInv /\ PoolInv /\ EndInv /\ [Next]_vars => EndInv'
  BY EndStep
<1> QED
  BY <1>1, <1>2, TypeInvariant, PoolInvariant, PTL DEF Spec

\* When the caller has its answer nothing is under way any more, also when the
\* answer is a rejection, unless a hook has thrown or the number of attempts is
\* none.
THEOREM AnsweredRunIsQuietHolds ==
  ASSUME ~HooksMayThrow, MaxAttempts # NaN
  PROVE  Spec => []AnsweredRunIsQuiet
<1>1. Init => RejectedInv
  BY DEF Init, RejectedInv
<1>2. ASSUME TypeInv, PoolInv, BudgetInv', EndInv, RejectedInv, [Next]_vars
      PROVE  RejectedInv'
  <2> SUFFICES ASSUME phase' = "rejected"
               PROVE  GroupDone'
    BY DEF RejectedInv
  <2>1. CASE phase # "running"
    <3>1. GroupDone
      BY <1>2, <2>1 DEF EndInv, RejectedInv, TypeInv, TypeOK, RunTypes
    <3> QED
      BY <1>2, <2>1, <3>1, GroupStaysDone
  <2>2. CASE phase = "running"
    BY <1>2, <2>2, PhaseSteps DEF GroupDone, Busy, poolVars
  <2> QED
    BY <2>1, <2>2
<1>3. EndInv /\ RejectedInv => AnsweredRunIsQuiet
  BY DEF EndInv, RejectedInv, AnsweredRunIsQuiet, GroupDone
<1>4. TypeInv /\ PoolInv /\ BudgetInv' /\ EndInv /\ RejectedInv /\ [Next]_vars => RejectedInv'
  BY <1>2
<1> QED
  BY <1>1, <1>3, <1>4, TypeInvariant, PoolInvariant, BudgetInvariant, RunsEndWithTheirGroups,
     PTL DEF Spec
-----------------------------------------------------------------------------
\* What the logger hears

\* The length of the stream follows the attempts: a started event and a retry event
\* for each attempt before this one; the retry event of this attempt is there when
\* it is followed by a delay, also by a delay that was cut off, which no further
\* retry follows because that error is fatal.
Heard(b) ==
  LET n == Len(events[b])
  IN  /\ pc[b] = "idle" => n = 0
      /\ pc[b] \in {"racing", "settled"} => n = attempt[b]
      /\ pc[b] = "caught" => n = attempt[b] \/ (n = attempt[b] + 1 /\ Fatal(error[b]))
      /\ pc[b] \in {"delay", "restart"} => n = attempt[b] + 1
      /\ pc[b] \in BusyPcs => n > 0
      /\ EventStream(b)
HeardInv == \A b \in Briefs : Heard(b)

\* An event is added behind the others.
LEMMA AppendEvent ==
  ASSUME TypeInv, NEW b \in Briefs, NEW e \in Events,
         events' = [events EXCEPT ![b] = Append(@, e)]
  PROVE  /\ Len(events[b]) \in Nat
         /\ Len(events'[b]) = Len(events[b]) + 1
         /\ events'[b][Len(events[b]) + 1] = e
         /\ \A i \in 1..Len(events[b]) : events'[b][i] = events[b][i]
  BY DEF TypeInv, TypeOK, EventTypes

\* An event is of the started kind, of the retry kind, or tells a status.
LEMMA EventKinds == "started" \notin Statuses /\ "retry" \notin Statuses /\ "none" \notin Statuses
  BY DEF Statuses

\* The first event of a brief.
LEMMA HeardStart ==
  ASSUME TypeInv, PoolInv, TakeBrief, NEW b \in Briefs, b = next
  PROVE  Heard(b)'
<1>1. /\ result'[b] = "none"
      /\ events'[b] = <<Event("started", 1)>>
      /\ attempt'[b] = 1
      /\ pc'[b] \in {"unreachable", "racing", "caught"}
  BY NextIsIdle DEF TakeBrief, EnterAttempt, TypeInv, TypeOK, LoopTypes, EventTypes
<1>2. Event("started", 1).type = "started" /\ Event("started", 1).attempt = 1
  BY DEF Event
<1>3. /\ Len(events'[b]) = 1
      /\ events'[b][1].type = "started" /\ events'[b][1].attempt = 1
  BY <1>1, <1>2
<1>4. EventStream(b)'
  BY <1>1, <1>3, EventKinds DEF EventStream, BusyPcs
<1> QED
  BY <1>1, <1>3, <1>4 DEF Heard, BusyPcs

\* A retry event goes behind the events of the attempts before.
LEMMA HeardRetry ==
  ASSUME ~HooksMayThrow, TypeInv, PoolInv, NEW b \in Briefs, Heard(b), Retry(b)
  PROVE  Heard(b)'
<1> DEFINE n == Len(events[b])
<1>1. /\ n = attempt[b] /\ n > 0 /\ result[b] = "none"
      /\ events' = [events EXCEPT ![b] = Append(@, Event("retry", attempt[b]))]
      /\ UNCHANGED <<attempt, result>>
  BY DEF Retry, MayRetry, AttemptReturned, Heard, BusyPcs, PoolInv, Positions
<1>2. Event("retry", attempt[b]) \in Events
  BY EventType DEF TypeInv, TypeOK, LoopTypes
<1>3. /\ Len(events'[b]) = n + 1 /\ n \in Nat
      /\ events'[b][n + 1] = Event("retry", n)
      /\ \A i \in 1..n : events'[b][i] = events[b][i]
  BY <1>1, <1>2, AppendEvent
<1>event. Event("retry", n).type = "retry" /\ Event("retry", n).attempt = n
  BY DEF Event
<1>4. pc'[b] \in {"restart", "delay"} \/ (pc'[b] = "caught" /\ error'[b] = "cancelled")
  BY DEF Retry, TypeInv, TypeOK, LoopTypes
<1>5. EventStream(b)'
  <2>1. ASSUME NEW i \in 1..n
        PROVE  events[b][i].type \notin Statuses
    BY <1>1, <2>1, EventKinds DEF Heard, EventStream
  <2>2. ASSUME NEW i \in 1..n
        PROVE  /\ events'[b][i] = events[b][i]
               /\ events[b][i].type = "started" <=> i = 1
               /\ i = 1 => events[b][i].attempt = 1
               /\ events[b][i].type = "retry" => events[b][i].attempt = i - 1
    BY <1>3, <2>2 DEF Heard, EventStream
  <2>3. \A i \in 1..n + 1 : i \in 1..n \/ i = n + 1
    BY <1>3
  <2>4. events'[b][n + 1].type = "retry" /\ events'[b][n + 1].attempt = n
    BY <1>3, <1>event
  <2> HIDE DEF n
  <2>5. ASSUME NEW i \in 1..n + 1
        PROVE  /\ events'[b][i].type = "started" <=> i = 1
               /\ i = 1 => events'[b][i].attempt = 1
               /\ events'[b][i].type = "retry" => events'[b][i].attempt = i - 1
               /\ events'[b][i].type \notin Statuses
    <3>1. CASE i = n + 1
      BY <1>1, <1>3, <2>4, <3>1, EventKinds
    <3>2. CASE i \in 1..n
      BY <2>1, <2>2, <3>2
    <3> QED
      BY <2>3, <3>1, <3>2
  <2>6. result'[b] = "none" /\ Len(events'[b]) > 0
    BY <1>1, <1>3
  <2> QED
    BY <1>3, <2>5, <2>6 DEF EventStream
<1> QED
  BY <1>1, <1>3, <1>4, <1>5, CancelledIsFatal DEF Heard, BusyPcs, Fatal

\* The last event tells the result.
LEMMA HeardFinish ==
  ASSUME TypeInv, PoolInv, NEW b \in Briefs, Heard(b),
         pc[b] \in {"settled", "caught"}, NEW s \in Statuses, Finish(b, s)
  PROVE  Heard(b)'
<1> DEFINE n == Len(events[b])
<1>1. /\ n \in {attempt[b], attempt[b] + 1} /\ n > 0 /\ result[b] = "none"
      /\ events' = [events EXCEPT ![b] = Append(@, Event(s, attempt[b]))]
      /\ result'[b] = s /\ pc'[b] = "done" /\ UNCHANGED attempt
      /\ attempt[b] \in Nat
  BY DEF Finish, Heard, BusyPcs, PoolInv, Positions, TypeInv, TypeOK, LoopTypes, ResultTypes
<1>2. Event(s, attempt[b]) \in Events
  BY EventType DEF TypeInv, TypeOK, LoopTypes
<1>3. /\ Len(events'[b]) = n + 1 /\ n \in Nat
      /\ events'[b][n + 1] = Event(s, attempt[b])
      /\ \A i \in 1..n : events'[b][i] = events[b][i]
  BY <1>1, <1>2, AppendEvent
<1>event. Event(s, attempt[b]).type = s /\ Event(s, attempt[b]).attempt = attempt[b]
  BY DEF Event
<1>5. EventStream(b)'
  <2>1. ASSUME NEW i \in 1..n
        PROVE  events[b][i].type \notin Statuses
    BY <1>1, <2>1, EventKinds DEF Heard, EventStream
  <2>2. ASSUME NEW i \in 1..n
        PROVE  /\ events'[b][i] = events[b][i]
               /\ events[b][i].type = "started" <=> i = 1
               /\ i = 1 => events[b][i].attempt = 1
               /\ events[b][i].type = "retry" => events[b][i].attempt = i - 1
    BY <1>3, <2>2 DEF Heard, EventStream
  <2>3. \A i \in 1..n + 1 : i \in 1..n \/ i = n + 1
    BY <1>3
  <2>4. /\ events'[b][n + 1].type = s /\ s \in Statuses
        /\ events'[b][n + 1].attempt \in {n - 1, n}
    BY <1>1, <1>3, <1>event
  <2> HIDE DEF n
  <2> QED
    BY <1>1, <1>3, <2>1, <2>2, <2>3, <2>4, EventKinds DEF EventStream, BusyPcs
<1> QED
  BY <1>1, <1>5 DEF Heard, BusyPcs

\* Every step keeps the stream in step with the attempts.
LEMMA HeardStep ==
  ASSUME ~HooksMayThrow, TypeInv, PoolInv, HeardInv, [Next]_vars
  PROVE  HeardInv'
<1> SUFFICES ASSUME NEW c \in Briefs
             PROVE  Heard(c)'
  BY DEF HeardInv
<1>types. Heard(c) /\ LoopTypes /\ RaceInv
  BY DEF HeardInv, TypeInv, TypeOK
<1>same. ASSUME Untouched(c) PROVE Heard(c)'
  BY <1>same, <1>types DEF Untouched, Heard, EventStream, Fatal
<1>move. ASSUME events'[c] = events[c], result'[c] = result[c],
                pc'[c] \in BusyPcs => pc[c] \in BusyPcs,
                pc'[c] # "idle",
                pc'[c] \in {"racing", "settled"} => Len(events[c]) = attempt'[c],
                pc'[c] = "caught" =>
                  \/ Len(events[c]) = attempt'[c]
                  \/ Len(events[c]) = attempt'[c] + 1 /\ Fatal(error'[c]),
                pc'[c] \in {"delay", "restart"} => Len(events[c]) = attempt'[c] + 1
         PROVE  Heard(c)'
  BY <1>move, <1>types DEF Heard, EventStream, Fatal, BusyPcs
<1>1. CASE RunStep
  BY <1>1, <1>same, RunStepTouchesNoBrief DEF briefVars, Untouched
<1>2. CASE TakeBrief
  <2>1. CASE c = next
    BY <1>2, <2>1, HeardStart
  <2> QED
    BY <2>1, <1>2, <1>same, StartTouchesItsBrief
<1>3. CASE Abort
  <2>1. CASE pc[c] = "idle"
    BY <1>3, <2>1, <1>types DEF Abort, Heard, EventStream, BusyPcs
  <2> QED
    BY <1>3, <2>1, <1>types, <1>move, CancelledIsFatal DEF Abort, Heard, BusyPcs, Fatal, LoopTypes
<1>4. ASSUME BriefStep(c) PROVE Heard(c)'
  <2> USE <1>types DEF LoopTypes, BusyPcs
  <2>1. CASE TimerFires(c) \/ DelayEnds(c)
    BY <2>1, <1>move DEF TimerFires, DelayEnds, Heard
  <2>2. CASE AttemptThrows(c)
    BY <2>2, <1>move DEF AttemptThrows, Heard
  <2>3. CASE Retry(c)
    BY <2>3, HeardRetry
  <2>4. CASE NextAttempt(c)
    BY <2>4, <1>move DEF NextAttempt, EnterAttempt, Heard
  <2>5. CASE FinishReturned(c)
    <3>1. race[c].what \in Statuses
      BY <2>5, OutcomeTypes DEF FinishReturned, AttemptReturned, RaceInv
    <3> QED
      BY <2>5, <3>1, HeardFinish DEF FinishReturned, AttemptReturned
  <2>6. CASE FinishCaught(c)
    <3>1. FailureStatus(error[c]) \in Statuses
      BY DEF FailureStatus, Statuses
    <3> QED
      BY <2>6, <3>1, HeardFinish DEF FinishCaught
  <2>7. ASSUME NEW a \in live[c], NEW o \in OperationOutcomes, OperationSettles(c, a, o)
        PROVE  Heard(c)'
    <3>1. CASE pc[c] = "racing" /\ a = attempt[c]
      BY <2>7, <3>1, <1>move DEF OperationSettles, Heard
    <3>2. CASE ~(pc[c] = "racing" /\ a = attempt[c])
      BY <2>7, <3>2 DEF OperationSettles, Heard, EventStream, Fatal
    <3> QED
      BY <3>1, <3>2
  <2> QED
    BY <1>4, <2>1, <2>2, <2>3, <2>4, <2>5, <2>6, <2>7
    DEF BriefStep, HookThrowsInTry, HookThrowsInCatch
<1>5. ASSUME NEW b \in Briefs, BriefStep(b), b # c PROVE Heard(c)'
  BY <1>5, <1>same, BriefStepTouchesItsBrief
<1> QED
  BY <1>1, <1>2, <1>3, <1>4, <1>5, StepKinds DEF StartThrows

\* Without hooks that throw: however often a brief is tried, timed out, delayed and
\* cancelled, the logger hears one started event, one retry event for each attempt
\* that is given another chance, and one last event exactly when there is a result.
THEOREM EventsTellResultsHolds ==
  ASSUME ~HooksMayThrow
  PROVE  Spec => []EventsTellResults
<1>1. Init => HeardInv
  BY DEF Init, HeardInv, Heard, EventStream, BusyPcs
<1>2. TypeInv /\ PoolInv /\ HeardInv /\ [Next]_vars => HeardInv'
  BY HeardStep
<1>3. HeardInv => EventsTellResults
  BY DEF HeardInv, Heard, EventsTellResults
<1> QED
  BY <1>1, <1>2, <1>3, TypeInvariant, PoolInvariant, PTL DEF Spec

-----------------------------------------------------------------------------
\* What the logger hears when hooks throw

\* A brief that has not been started has not been heard of, one that is under way is
\* in its first attempt or a later one, and what waits for its next attempt has had
\* the retry event of this one.
Ordered(b) ==
  LET n == Len(events[b])
  IN  /\ pc[b] = "idle" => events[b] = << >> /\ attempt[b] = 0
      /\ pc[b] \in BusyPcs => attempt[b] > 0
      /\ pc[b] \in {"delay", "restart"} =>
           \E i \in 1..n : events[b][i] = Event("retry", attempt[b])
      /\ HeardInOrder(b)
OrderedInv == \A b \in Briefs : Ordered(b)

\* The first event of a brief, whether or not the logger throws on it.
LEMMA OrderedStart ==
  ASSUME TypeInv, PoolInv, OrderedInv, TakeBrief \/ StartThrows, NEW b \in Briefs, b = next
  PROVE  Ordered(b)'
<1> DEFINE e == Event("started", 1)
<1>1. /\ result'[b] = "none" /\ attempt'[b] \in {0, 1}
      /\ pc'[b] \in {"unreachable", "racing", "caught", "threw"}
      /\ pc'[b] # "threw" => attempt'[b] = 1 /\ events'[b] = <<e>>
      /\ events'[b] = <<e>> \/ events'[b] = << >>
  <2>1. CASE TakeBrief
    BY <2>1, NextIsIdle DEF TakeBrief, EnterAttempt, TypeInv, TypeOK, LoopTypes, EventTypes
  <2>2. CASE StartThrows
    <3>1. events[b] = << >> /\ attempt[b] = 0 /\ result[b] = "none"
      BY <2>2, NextIsIdle DEF StartThrows, OrderedInv, Ordered
    <3>2. events'[b] = events[b] \/ events'[b] = Append(events[b], e)
      BY <2>2 DEF StartThrows, HeardOrNot, TypeInv, TypeOK, EventTypes
    <3>3. Append(<< >>, e) = <<e>>
      OBVIOUS
    <3>4. pc'[b] = "threw" /\ attempt'[b] = attempt[b] /\ result'[b] = result[b]
      BY <2>2 DEF StartThrows, TypeInv, TypeOK, LoopTypes
    <3> QED
      BY <3>1, <3>2, <3>3, <3>4
  <2> QED
    BY <2>1, <2>2
<1>2. e.type = "started" /\ e.attempt = 1
  BY DEF Event
<1> HIDE DEF e
<1>3. CASE events'[b] = <<e>>
  <2>1. /\ Len(events'[b]) = 1
        /\ events'[b][1].type = "started" /\ events'[b][1].attempt = 1
    BY <1>2, <1>3
  <2>2. HeardInOrder(b)'
    BY <1>1, <2>1 DEF HeardInOrder, BusyPcs
  <2> QED
    BY <1>1, <1>3, <2>2 DEF Ordered, BusyPcs
<1>4. CASE events'[b] = << >>
  <2>1. Len(events'[b]) = 0
    BY <1>4
  <2>2. pc'[b] = "threw"
    BY <1>1, <1>4
  <2>3. HeardInOrder(b)'
    BY <1>1, <2>1, <2>2 DEF HeardInOrder, BusyPcs
  <2> QED
    BY <2>2, <2>3 DEF Ordered, BusyPcs
<1> QED
  BY <1>1, <1>3, <1>4

\* An event of the running attempt goes behind those of the earlier ones.
LEMMA OrderedAppend ==
  ASSUME TypeInv, PoolInv, NEW b \in Briefs, Ordered(b), pc[b] \in BusyPcs,
         NEW t \in {"retry"} \cup Statuses,
         events' = [events EXCEPT ![b] = Append(@, Event(t, attempt[b]))],
         attempt'[b] = attempt[b], pc'[b] # "idle",
         pc'[b] \in {"delay", "restart"} => t = "retry",
         result'[b] = "none" \/ result'[b] = t
  PROVE  Ordered(b)'
<1> DEFINE n == Len(events[b])
           e == Event(t, attempt[b])
<1>1. e \in Events /\ attempt[b] \in Nat
  BY EventType DEF TypeInv, TypeOK, LoopTypes
<1>2. /\ Len(events'[b]) = n + 1 /\ n \in Nat
      /\ events'[b][n + 1] = e
      /\ \A i \in 1..n : events'[b][i] = events[b][i]
  BY <1>1, AppendEvent
<1>3. e.type = t /\ e.type # "started" /\ e.attempt = attempt[b]
  BY EventKinds DEF Event
<1>4. n > 0 /\ attempt[b] > 0
  BY DEF Ordered, HeardInOrder
<1>5. ASSUME NEW i \in 1..n
      PROVE  /\ events[b][i].attempt \in Nat /\ events[b][i].attempt <= attempt[b]
             /\ events[b][i].type = "started" <=> i = 1
  <2>1. events[b][i] \in Events
    BY DEF TypeInv, TypeOK, EventTypes
  <2>2. events[b][i].attempt \in Nat
    BY <2>1 DEF Events
  <2> QED
    BY <1>1, <1>4, <2>2 DEF Ordered, HeardInOrder
<1>6. \A i, j \in 1..n : i <= j => events[b][i].attempt <= events[b][j].attempt
  BY DEF Ordered, HeardInOrder
<1>7. \A a \in 1..attempt[b] - 1 : \E i \in 1..n : events[b][i] = Event("retry", a)
  BY DEF Ordered, HeardInOrder
<1>8. \A i \in 1..n + 1 : i \in 1..n \/ i = n + 1
  BY <1>2
<1>9. n + 1 \in 1..n + 1 /\ \A i \in 1..n : i \in 1..n + 1
  BY <1>2
<1>10. result'[b] # "none" => n + 1 > 1 /\ e = Event(result'[b], attempt[b])
  BY <1>2, <1>4
<1>11. pc'[b] \in {"delay", "restart"} => e = Event("retry", attempt[b])
  OBVIOUS
<1> HIDE DEF n, e
<1>12. \A i \in 1..n + 1 : events'[b][i].type = "started" <=> i = 1
  BY <1>2, <1>3, <1>4, <1>5, <1>8
<1>13. \A i \in 1..n + 1 : events'[b][i].attempt = 1 \/ events'[b][i].attempt <= attempt[b]
  BY <1>1, <1>2, <1>3, <1>5, <1>8
<1>14. \A i, j \in 1..n + 1 : i <= j => events'[b][i].attempt <= events'[b][j].attempt
  BY <1>1, <1>2, <1>3, <1>5, <1>6, <1>8
<1>15. \A a \in 1..attempt[b] - 1 : \E i \in 1..n + 1 : events'[b][i] = Event("retry", a)
  BY <1>2, <1>7, <1>9
<1>16. HeardInOrder(b)'
  BY <1>2, <1>4, <1>10, <1>12, <1>13, <1>14, <1>15 DEF HeardInOrder
<1>17. pc'[b] \in {"delay", "restart"} =>
         \E i \in 1..n + 1 : events'[b][i] = Event("retry", attempt[b])
  BY <1>2, <1>9, <1>11
<1> QED
  BY <1>2, <1>4, <1>16, <1>17 DEF Ordered

\* Every step keeps the stream in order, the ones of hooks that throw included.
LEMMA OrderedStep ==
  ASSUME TypeInv, PoolInv, OrderedInv, [Next]_vars
  PROVE  OrderedInv'
<1> SUFFICES ASSUME NEW c \in Briefs
             PROVE  Ordered(c)'
  BY DEF OrderedInv
<1>types. Ordered(c) /\ LoopTypes /\ RaceInv
  BY DEF OrderedInv, TypeInv, TypeOK
<1>same. ASSUME Untouched(c) PROVE Ordered(c)'
  BY <1>same, <1>types DEF Untouched, Ordered, HeardInOrder
<1>move. ASSUME events'[c] = events[c], result'[c] = result[c], attempt'[c] = attempt[c],
                pc'[c] \in BusyPcs => pc[c] \in BusyPcs,
                pc'[c] # "idle",
                pc'[c] \in {"delay", "restart"} => pc[c] \in {"delay", "restart"}
         PROVE  Ordered(c)'
  BY <1>move, <1>types DEF Ordered, HeardInOrder
<1>open. pc[c] \in BusyPcs => result[c] = "none"
  BY DEF PoolInv, Positions, BusyPcs
<1>1. CASE RunStep
  BY <1>1, <1>same, RunStepTouchesNoBrief DEF briefVars, Untouched
<1>2. CASE TakeBrief \/ StartThrows
  <2>1. CASE c = next
    BY <1>2, <2>1, OrderedStart
  <2> QED
    BY <2>1, <1>2, <1>same, StartTouchesItsBrief
<1>3. CASE Abort
  <2>1. CASE pc[c] = "idle"
    BY <1>3, <2>1, <1>types DEF Abort, Ordered, HeardInOrder, BusyPcs
  <2> QED
    BY <1>3, <2>1, <1>move DEF Abort, BusyPcs
<1>4. ASSUME BriefStep(c) PROVE Ordered(c)'
  <2> USE <1>types DEF LoopTypes, BusyPcs
  <2>1. CASE TimerFires(c) \/ DelayEnds(c) \/ AttemptThrows(c)
    BY <2>1, <1>move DEF TimerFires, DelayEnds, AttemptThrows
  <2>2. CASE Retry(c)
    BY <2>2, <1>open, OrderedAppend DEF Retry, MayRetry, AttemptReturned
  <2>3. CASE NextAttempt(c)
    <3>1. /\ pc[c] = "restart" /\ attempt'[c] = attempt[c] + 1
          /\ events'[c] = events[c] /\ result'[c] = result[c]
          /\ pc'[c] \in {"unreachable", "caught", "racing"}
      BY <2>3 DEF NextAttempt, EnterAttempt
    <3>2. HeardInOrder(c)'
      <4>1. ASSUME NEW i \in 1..Len(events[c])
            PROVE  events[c][i].attempt = 1 \/ events[c][i].attempt <= attempt'[c]
        <5>1. events[c][i] \in Events
          BY DEF TypeInv, TypeOK, EventTypes
        <5>2. events[c][i].attempt \in Nat
          BY <5>1 DEF Events
        <5> QED
          BY <3>1, <5>2 DEF Ordered, HeardInOrder
      <4>2. \A a \in 1..attempt'[c] - 1 : a \in 1..attempt[c] - 1 \/ a = attempt[c]
        BY <3>1
      <4>3. \A a \in 1..attempt'[c] - 1 :
              \E i \in 1..Len(events[c]) : events[c][i] = Event("retry", a)
        BY <3>1, <4>2 DEF Ordered, HeardInOrder
      <4> QED
        BY <3>1, <4>1, <4>3, <1>open DEF Ordered, HeardInOrder
    <3> QED
      BY <3>1, <3>2 DEF Ordered
  <2>4. CASE FinishReturned(c)
    <3>1. race[c].what \in Statuses
      BY <2>4, OutcomeTypes DEF FinishReturned, AttemptReturned, RaceInv
    <3> QED
      BY <2>4, <3>1, OrderedAppend
      DEF FinishReturned, AttemptReturned, Finish, TypeInv, TypeOK, ResultTypes
  <2>5. CASE FinishCaught(c)
    <3>1. FailureStatus(error[c]) \in Statuses
      BY DEF FailureStatus, Statuses
    <3> QED
      BY <2>5, <3>1, OrderedAppend DEF FinishCaught, Finish, TypeInv, TypeOK, ResultTypes
  <2>6. CASE HookThrowsInTry(c) \/ HookThrowsInCatch(c)
    <3>1. /\ pc[c] \in BusyPcs /\ pc'[c] \in {"caught", "threw"}
          /\ attempt'[c] = attempt[c] /\ result'[c] = result[c] /\ result[c] = "none"
          /\ UNCHANGED events \/ events' = [events EXCEPT ![c] = Append(@, EndEvent(c))]
      BY <2>6, <1>open DEF HookThrowsInTry, HookThrowsInCatch, AttemptReturned, HeardOrNot
    <3>2. pc[c] # "caught" => race[c].what \in Statuses
      BY <2>6, OutcomeTypes
      DEF HookThrowsInTry, HookThrowsInCatch, AttemptReturned, RaceInv
    <3>3. FailureStatus(error[c]) \in Statuses
      BY DEF FailureStatus, Statuses
    <3>4. PICK t \in {"retry"} \cup Statuses : EndEvent(c) = Event(t, attempt[c])
      BY <3>2, <3>3 DEF EndEvent
    <3> QED
      BY <3>1, <3>4, <1>move, OrderedAppend
  <2>7. ASSUME NEW a \in live[c], NEW o \in OperationOutcomes, OperationSettles(c, a, o)
        PROVE  Ordered(c)'
    <3>1. CASE pc[c] = "racing" /\ a = attempt[c]
      BY <2>7, <3>1, <1>move DEF OperationSettles
    <3>2. CASE ~(pc[c] = "racing" /\ a = attempt[c])
      BY <2>7, <3>2 DEF OperationSettles, Ordered, HeardInOrder
    <3> QED
      BY <3>1, <3>2
  <2> QED
    BY <1>4, <2>1, <2>2, <2>3, <2>4, <2>5, <2>6, <2>7 DEF BriefStep
<1>5. ASSUME NEW b \in Briefs, BriefStep(b), b # c PROVE Ordered(c)'
  BY <1>5, <1>same, BriefStepTouchesItsBrief
<1> QED
  BY <1>1, <1>2, <1>3, <1>4, <1>5, StepKinds

\* Whatever hooks throw, and whether or not the logger heard what it threw on: it
\* hears of the attempts in their order, of every attempt that was followed by
\* another, and the result of a brief as the last thing.
THEOREM EventsEndWithResultsHolds == Spec => []EventsEndWithResults
<1>1. Init => OrderedInv
  BY DEF Init, OrderedInv, Ordered, HeardInOrder, BusyPcs
<1>2. TypeInv /\ PoolInv /\ OrderedInv /\ [Next]_vars => OrderedInv'
  BY OrderedStep
<1>3. OrderedInv => EventsEndWithResults
  BY DEF OrderedInv, Ordered, EventsEndWithResults
<1> QED
  BY <1>1, <1>2, <1>3, TypeInvariant, PoolInvariant, PTL DEF Spec
===============================================================================
