------------------------------- MODULE Routing -------------------------------
(***************************************************************************)
(* A router made by createRouter, and the calls of it: routeTask, which    *)
(* decides at once, and prepareAgentExecution, which awaits the validation *)
(* and then the route.  The caller keeps the configuration it passed and   *)
(* the assessment object it passed, and may write to both: to the first at *)
(* any time, to the second between the steps of prepareAgentExecution,     *)
(* which reads it anew in each.                                            *)
(*                                                                         *)
(* Abstracted: prices, version and description of a configuration, and the *)
(* texts of reasons, briefs and errors.  Calls share nothing but the       *)
(* frozen configuration, so one call at a time stands for all.             *)
(***************************************************************************)
EXTENDS RouterCalls

CONSTANTS
  Configurations,   \* what the caller may make of its policy and catalog
  Inputs,           \* the assessments that are passed
  Rewrites          \* what the caller may write over an assessment

ASSUME RoutingAssumption ==
  /\ Confidences \subseteq Int
  /\ SubtaskCounts \subseteq Nat
  /\ \A a \in Inputs \cup Rewrites : a.suggested_subtasks \in Nat

VARIABLES
  given,      \* the configuration object in the caller's hands
  router,     \* "none", "refused" or "made"
  config,     \* the router's copy of the configuration
  madeOf,     \* the configuration as it was when the router was made
  pc,         \* where the call is
  assessment, \* the assessment object in the caller's hands
  preferred,  \* options.preferred_provider, or "none"
  route,      \* the decision, << >> before
  routedOn,   \* the assessment as it was when the route was decided, as a sequence
  plan        \* the execution plan, << >> before

configVars == <<given, router, config, madeOf>>
callVars == <<pc, assessment, preferred, route, routedOn, plan>>
vars == <<configVars, callVars>>

-----------------------------------------------------------------------------
Init ==
  /\ given \in Configurations
  /\ router = "none"
  /\ config = << >>
  /\ madeOf = << >>
  /\ pc = "idle"
  /\ assessment \in Inputs
  /\ preferred = "none"
  /\ route = << >> /\ routedOn = << >> /\ plan = << >>

\* createRouter validates the configuration and copies it.
CreateRouter ==
  /\ router # "made"
  /\ IF ValidPolicy(given.policy) /\ ValidCatalog(given.catalog)
     THEN router' = "made" /\ config' = <<given>> /\ madeOf' = <<given>>
     ELSE router' = "refused" /\ UNCHANGED <<config, madeOf>>
  /\ UNCHANGED <<given, callVars>>

\* Mutant of RewriteConfiguration: the router works on the caller's object.
RewriteSharedConfiguration ==
  /\ given' \in Configurations
  /\ config' = IF router = "made" THEN <<given'>> ELSE config
  /\ UNCHANGED <<router, madeOf, callVars>>

\* The caller changes the object it made the router from.
RewriteConfiguration ==
  /\ given' \in Configurations
  /\ UNCHANGED <<router, config, madeOf, callVars>>

\* The route of the assessment as it is now.
Decide(a, p) ==
  route' = routeConfiguredTask(config[1].policy, config[1].catalog, a,
                               Provider(config[1], p))

\* Mutant of RouteTask: a router that threw is taken to have answered.
RouteTaskUnchecked ==
  /\ pc = "idle"
  /\ router = "made"
  /\ \E p \in MODEL_PROVIDERS \cup {"none"} :
       /\ Decide(assessment, p)
       /\ preferred' = p
  /\ pc' = "decided"
  /\ routedOn' = <<assessment>>
  /\ UNCHANGED <<configVars, assessment, plan>>

\* routeTask: the caller's assessment is taken as it is.
RouteTask ==
  /\ pc = "idle"
  /\ router = "made"
  /\ \E p \in MODEL_PROVIDERS \cup {"none"} :
       /\ Decide(assessment, p)
       /\ preferred' = p
       /\ pc' = IF route' = << >> THEN "rejected" ELSE "decided"
  /\ routedOn' = <<assessment>>
  /\ UNCHANGED <<configVars, assessment, plan>>

\* prepareAgentExecution up to its first await: the assessment is validated.
PrepareAgentExecution ==
  /\ pc = "idle"
  /\ router = "made"
  /\ preferred' \in MODEL_PROVIDERS \cup {"none"}
  /\ pc' = IF validAssessment(assessment) THEN "validated" ELSE "rejected"
  /\ UNCHANGED <<configVars, assessment, route, routedOn, plan>>

\* Up to its second await: the route is decided.
RoutePrepared ==
  /\ pc = "validated"
  /\ Decide(assessment, preferred)
  /\ pc' = IF route' = << >> THEN "rejected" ELSE "routed"
  /\ routedOn' = <<assessment>>
  /\ UNCHANGED <<configVars, assessment, preferred, plan>>

\* The plan is made of the route and of the assessment, read once more.
PlanPrepared ==
  /\ pc = "routed"
  /\ plan' = <<createExecutionPlan(assessment, route[1])>>
  /\ pc' = "prepared"
  /\ UNCHANGED <<configVars, assessment, preferred, route, routedOn>>

\* The caller writes to the assessment while the call awaits.
RewriteAssessment ==
  /\ pc \in {"validated", "routed"}
  /\ assessment' \in Rewrites
  /\ UNCHANGED <<configVars, pc, preferred, route, routedOn, plan>>

Next ==
  \/ CreateRouter
  \/ RewriteConfiguration
  \/ RouteTask
  \/ PrepareAgentExecution
  \/ RoutePrepared
  \/ PlanPrepared
  \/ RewriteAssessment

Spec == Init /\ [][Next]_vars
-----------------------------------------------------------------------------
\* Properties

\* Every variable has its type, and a call has a route and a plan when it is
\* where it should have them.
TypeOK ==
  /\ given \in Configurations
  /\ router \in {"none", "refused", "made"}
  /\ router = "made" => config[1] \in Configurations /\ madeOf[1] \in Configurations
  /\ pc \in {"idle", "validated", "routed", "prepared", "decided", "rejected"}
  /\ assessment \in Inputs \cup Rewrites
  /\ preferred \in MODEL_PROVIDERS \cup {"none"}
  /\ route # << >> <=> pc \in {"routed", "prepared", "decided"}
  /\ plan # << >> <=> pc = "prepared"

\* "Custom configuration is copied and frozen so later caller mutation cannot
\* alter routing decisions": whatever the caller has written to its policy and
\* catalog since, a decision is the one the configuration led to when the
\* router was made, for the assessment as it was when the route was decided.
DecisionsAreReproducible ==
  route # << >> =>
    route = routeConfiguredTask(madeOf[1].policy, madeOf[1].catalog, routedOn[1],
                                Provider(madeOf[1], preferred))

\* Nobody but a caller with an assessment that is not valid, a policy without a
\* rule for everything, or a provider the catalog lacks, is refused a route.
CatchesAll(rules) == \E i \in DOMAIN rules : rules[i].when = {[key |-> "always",
                       negated |-> FALSE, expected |-> <<"boolean", TRUE>>]}
RefusalsAreExplained ==
  pc = "rejected" =>
    \/ ~validAssessment(assessment)
    \/ ~CatchesAll(config[1].policy.model_rules)
    \/ ~CatchesAll(config[1].policy.delegation_rules)
    \/ ~CatchesAll(config[1].policy.review_rules)
    \/ preferred \notin config[1].catalog.providers \cup {"none"}

\* A plan follows the route of its own call even when the assessment has been
\* rewritten in between: its mode, reviewer, class and provider are the
\* route's, and it always has a worker to run and then to review, numbered
\* from 1, each with a task of its own.
PlanFollowsRoute ==
  plan # << >> =>
    LET p == plan[1]
        briefs == p.worker_briefs
        d == route[1]
    IN  /\ p.execution_mode = "delegated" <=> d.delegate
        /\ p.reviewer_brief = d.add_reviewer
        /\ p.model_class = d.model_class /\ p.provider = d.provider
        /\ briefs # << >>
        /\ \A n \in DOMAIN briefs : briefs[n].id = n
        /\ \A m, n \in DOMAIN briefs : briefs[m].task = briefs[n].task => m = n
==============================================================================
