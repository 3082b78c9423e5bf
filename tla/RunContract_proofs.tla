-------------------------- MODULE RunContract_proofs --------------------------
(***************************************************************************)
(* Every run keeps the contract with its caller (RunContract), whatever    *)
(* the executor, the timers, the hooks, the store and the caller's abort   *)
(* do, when the concurrency cap is a number.                               *)
(*                                                                         *)
(* The map hides all variables but the four the contract has.  A step of   *)
(* an attempt is a stutter; a brief that finishes is reported; a run that  *)
(* is left by a hook, by the end of the retry loop or by its store is      *)
(* abandoned, and is so once, since it may be left by several briefs.      *)
(***************************************************************************)
EXTENDS RunLoop_proofs

\* What the steps need: the parts of a run that are invariant by themselves.
ContractInv == TypeInv /\ PoolInv /\ EndInv /\ PlanOrder

\* A brief that is under way is under way in a run that has begun and has not come to
\* its end.
LEMMA BusyMeansOpen ==
  ASSUME ContractInv, Busy # {} \/ (ready > 0 /\ next <= last)
  PROVE  phase \in {"running", "rejected"}
  BY DEF ContractInv, EndInv, GroupDone, TypeInv, TypeOK, RunTypes, PoolTypes

\* The contract sees the plan as the run does.
LEMMA SamePlan ==
  /\ Contract!Briefs = Briefs
  /\ \A b, c : Contract!SameGroup(b, c) <=> SameGroup(b, c)
  BY DEF Contract!Briefs, Contract!NumBriefs, Briefs, NumBriefs, Contract!SameGroup, SameGroup

\* The overall status is the one that the statuses of all briefs call for.
LEMMA StatusFits ==
  ASSUME TypeInv, \A b \in Briefs : result[b] # "none"
  PROVE  executionStatus \in RunStatuses /\ Contract!Fits(executionStatus)
<1>1. \A b \in Briefs : result[b] \in Statuses
  BY DEF TypeInv, TypeOK, ResultTypes
<1> DEFINE Has(s) == \E b \in Briefs : result[b] = s
<1>2. executionStatus = IF Has("cancelled") THEN "cancelled"
                        ELSE IF Has("timed_out") THEN "timed_out"
                        ELSE IF Has("failed") THEN "failed"
                        ELSE "completed"
  BY Zenon DEF executionStatus
<1>3. (\A b \in Briefs : result[b] = "succeeded") <=>
        ~Has("cancelled") /\ ~Has("timed_out") /\ ~Has("failed")
  BY <1>1 DEF Statuses
<1>4. \A s : Contract!Some(s) <=> Has(s)
  BY SamePlan DEF Contract!Some
<1>5. (\A b \in Contract!Briefs : result[b] = "succeeded") <=>
        \A b \in Briefs : result[b] = "succeeded"
  BY SamePlan
<1> HIDE DEF Has
<1> QED
  BY <1>2, <1>3, <1>4, <1>5 DEF RunStatuses, Contract!Fits

\* A brief that finishes is reported after those of the earlier groups, and once.
LEMMA FinishReports ==
  ASSUME ContractInv, NEW b \in Busy, NEW s \in Statuses, Finish(b, s)
  PROVE  Contract!Report(b)
<1>1. b \in Briefs /\ pc[b] \notin {"idle", "done"}
  BY DEF Busy, BusyPcs
<1>2. phase \in {"running", "rejected"}
  BY BusyMeansOpen
<1>3. result[b] = "none"
  BY <1>1 DEF ContractInv, PoolInv, Positions
<1>4. \A c \in Briefs : c < b => SameGroup(c, b) \/ result[c] # "none"
  BY <1>1 DEF ContractInv, PlanOrder
<1>5. Statuses = Contract!Statuses
  BY DEF Statuses, Contract!Statuses
<1> QED
  BY <1>2, <1>3, <1>4, <1>5, SamePlan DEF Contract!Report, Contract!Reported, Finish, runVars

\* A step that leaves the run rejected abandons it, or leaves it as it was.
LEMMA LeaveAbandons ==
  ASSUME phase \in {"running", "appending", "rejected"}, phase' = "rejected",
         UNCHANGED <<status, log, result>>
  PROVE  Contract!Abandon \/ UNCHANGED Contract!vars
  BY DEF Contract!Abandon, Contract!vars

\* A step that the caller does not see.
LEMMA Hidden ==
  ASSUME UNCHANGED <<phase, status, log, result>>
  PROVE  UNCHANGED Contract!vars
  BY DEF Contract!vars

\* Every step is one of the contract, or is hidden.
LEMMA ContractStep ==
  ASSUME ContractInv, [Next]_vars
  PROVE  [Contract!Next]_(Contract!vars)
<1>1. ASSUME NEW s \in BOOLEAN, NEW r \in BOOLEAN, Begin(s, r)
      PROVE  Contract!Open
  BY <1>1 DEF Begin, Contract!Open, briefVars
<1>2. CASE NextGroup \/ Abort \/ UNCHANGED vars
  BY <1>2, Hidden DEF NextGroup, Abort, vars, runVars, briefVars
<1>3. CASE TakeBrief \/ StartThrows
  <2>1. phase \in {"running", "rejected"}
    BY <1>3, BusyMeansOpen DEF TakeBrief, StartThrows
  <2>2. phase' \in {phase, "rejected"} /\ UNCHANGED <<status, log, result>>
    BY <1>3 DEF TakeBrief, StartThrows, EnterAttempt
  <2> QED
    BY <2>1, <2>2, LeaveAbandons, Hidden DEF Contract!Next
<1>4. ASSUME NEW b \in Briefs, NextAttempt(b) \/ HookThrowsInCatch(b)
      PROVE  Contract!Next \/ UNCHANGED Contract!vars
  <2>1. b \in Busy
    BY <1>4 DEF NextAttempt, HookThrowsInCatch, Busy, BusyPcs
  <2>2. phase' \in {phase, "rejected"} /\ UNCHANGED <<status, log, result>>
    <3>1. CASE NextAttempt(b)
      BY <3>1 DEF NextAttempt, EnterAttempt
    <3>2. CASE HookThrowsInCatch(b)
      BY <3>2 DEF HookThrowsInCatch
    <3> QED
      BY <1>4, <3>1, <3>2
  <2> QED
    BY <2>1, <2>2, BusyMeansOpen, LeaveAbandons, Hidden DEF Contract!Next
<1>5. ASSUME NEW b \in Briefs, FinishReturned(b) \/ FinishCaught(b)
      PROVE  Contract!Next
  <2>1. b \in Busy
    BY <1>5 DEF FinishReturned, FinishCaught, AttemptReturned, Busy, BusyPcs
  <2>2. FinishReturned(b) => race[b].what \in Statuses
    BY OutcomeTypes DEF FinishReturned, AttemptReturned, ContractInv, TypeInv, RaceInv
  <2>3. FailureStatus(error[b]) \in Statuses
    BY DEF FailureStatus, Statuses
  <2>4. Contract!Report(b)
    BY <1>5, <2>1, <2>2, <2>3, FinishReports DEF FinishReturned, FinishCaught
  <2> QED
    BY <2>4, SamePlan DEF Contract!Next
<1>6. ASSUME NEW b \in Briefs,
             \/ TimerFires(b) \/ AttemptThrows(b) \/ Retry(b) \/ DelayEnds(b)
             \/ HookThrowsInTry(b)
             \/ \E a \in live[b], o \in OperationOutcomes : OperationSettles(b, a, o)
      PROVE  UNCHANGED Contract!vars
  BY <1>6, Hidden DEF TimerFires, AttemptThrows, Retry, DelayEnds, HookThrowsInTry,
     OperationSettles, runVars
<1>7. CASE Conclude
  <2>1. CASE \E b \in Briefs : result[b] = "none"
    BY <1>7, <2>1, LeaveAbandons DEF Conclude, AllGroupsDone, briefVars, Contract!Next
  <2>2. CASE \A b \in Briefs : result[b] # "none"
    <3>1. executionStatus \in RunStatuses /\ Contract!Fits(executionStatus)
      BY <2>2, StatusFits DEF ContractInv
    <3>2. RunStatuses = Contract!RunStatuses
      BY DEF RunStatuses, Contract!RunStatuses
    <3>3. Contract!Conclude
      BY <1>7, <2>2, <3>1, <3>2, SamePlan
      DEF Conclude, AllGroupsDone, briefVars, Contract!Conclude, Contract!Reported
    <3> QED
      BY <3>3 DEF Contract!Next
  <2> QED
    BY <2>1, <2>2
<1>8. CASE ConcludeThrows \/ AppendFails
  BY <1>8, LeaveAbandons DEF ConcludeThrows, AllGroupsDone, AppendFails, briefVars,
     Contract!Next
<1>9. CASE AppendEntry
  BY <1>9 DEF AppendEntry, briefVars, Contract!Store, Contract!Next
<1> QED
  BY <1>1, <1>2, <1>3, <1>4, <1>5, <1>6, <1>7, <1>8, <1>9, StepKinds
  DEF RunStep, BriefStep, Contract!Next

\* What the caller sees of a run - results in group order and never revised, a status
\* that all of them decide, one entry in the log before the answer and none for a run
\* that rejects - holds for every plan, policy and executor, when the concurrency cap
\* is a number.
THEOREM RunKeepsContract ==
  ASSUME MaxConcurrency # NaN
  PROVE  Spec => KeepsContract
<1>1. Init => Contract!Init
  BY SamePlan DEF Init, Contract!Init
<1>2. ContractInv /\ [Next]_vars => [Contract!Next]_(Contract!vars)
  BY ContractStep
<1>3. TypeInv /\ PoolInv /\ EndInv /\ PlanOrder => ContractInv
  BY DEF ContractInv
<1> QED
  BY <1>1, <1>2, <1>3, TypeInvariant, PoolInvariant, RunsEndWithTheirGroups, PlanOrderHolds,
     PTL DEF Spec, KeepsContract, Contract!Spec
===============================================================================
