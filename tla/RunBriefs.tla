------------------------------ MODULE RunBriefs ------------------------------
(***************************************************************************)
(* The briefs of one call of runExecutionPlan, as the runner walks them:   *)
(* the worker briefs of the execution plan in their order, then the        *)
(* reviewer brief when the plan has one.  A brief is its position.         *)
(*                                                                         *)
(* runWorkerBriefs cuts the worker briefs into groups: a brief whose id is *)
(* not in independent_worker_ids is a group of its own, and a maximal run  *)
(* of briefs whose ids are is one group.  The reviewer is awaited after    *)
(* all of them, which makes it a last group of one.                        *)
(***************************************************************************)
EXTENDS Integers

CONSTANTS
  NumWorkers,    \* length of execution_plan.worker_briefs
  Independent,   \* the workers named by concurrency_policy.independent_worker_ids
  HasReviewer    \* does the plan have a reviewer_brief?

ASSUME BriefsAssumption ==
  /\ NumWorkers \in Nat
  /\ Independent \subseteq 1..NumWorkers
  /\ HasReviewer \in BOOLEAN

NumBriefs == IF HasReviewer THEN NumWorkers + 1 ELSE NumWorkers
Briefs == 1..NumBriefs

IsReviewer(b) == b > NumWorkers

\* The group that starts at brief i ends at brief j.
EndsGroup(i, j) ==
  IF i \in Independent
  THEN i..j \subseteq Independent /\ j + 1 \notin Independent
  ELSE j = i

\* Briefs b <= c are in one group.
SameGroup(b, c) == b = c \/ b..c \subseteq Independent
==============================================================================
