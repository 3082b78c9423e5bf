----------------------------- MODULE RouterCalls -----------------------------
(***************************************************************************)
(* What a router answers, as functions of its configuration, the           *)
(* assessment and the preferred provider: the validation of an assessment, *)
(* the execution plan, and the two calls as a whole for callers that do    *)
(* not write to the assessment meanwhile.                                  *)
(***************************************************************************)
EXTENDS RoutingRules

CONSTANT SubtaskCounts   \* how many suggested_subtasks an assessment may have

validAssessment(a) == a \in TaskAssessments(SubtaskCounts)

\* preferredProvider ?? catalog.default_provider
Provider(c, p) == IF p = "none" THEN c.catalog.default_provider ELSE p

-----------------------------------------------------------------------------
\* createExecutionPlan

\* A brief's id is its number; its task is the number of a subtask, or 0 for
\* the whole task.
Brief(n, task) == [id |-> n, task |-> task]

\* Mutant of workerBriefs: without subtasks a delegated plan has no worker.
subtaskBriefs(a, d) ==
  IF d.delegate THEN [n \in 1..a.suggested_subtasks |-> Brief(n, n)]
  ELSE <<Brief(1, 0)>>

workerBriefs(a, d) ==
  IF d.delegate /\ a.suggested_subtasks > 0
  THEN [n \in 1..a.suggested_subtasks |-> Brief(n, n)]
  ELSE <<Brief(1, 0)>>

createExecutionPlan(a, d) ==
  [execution_mode |-> IF d.delegate THEN "delegated" ELSE "direct",
   worker_briefs |-> workerBriefs(a, d),
   reviewer_brief |-> d.add_reviewer,
   model_class |-> d.model_class,
   provider |-> d.provider]

-----------------------------------------------------------------------------
\* The calls of a router

\* A promise that is fulfilled with a value or rejected with an error.
Fulfilled(value) == <<"fulfilled", value>>
Rejected(error) == <<"rejected", error>>

routeTask(c, a, p) ==
  LET d == routeConfiguredTask(c.policy, c.catalog, a, Provider(c, p))
  IN  IF d = << >> THEN Rejected("RoutingPolicyError") ELSE Fulfilled(d[1])

prepareAgentExecution(c, a, p) ==
  LET routed == routeTask(c, a, p)
  IN  IF ~validAssessment(a) THEN Rejected("TaskAssessmentValidationError")
      ELSE IF routed[1] = "rejected" THEN routed
      ELSE Fulfilled([route |-> routed[2],
                      execution_plan |-> createExecutionPlan(a, routed[2])])
==============================================================================
