---------------------------- MODULE Routing_proofs ----------------------------
(***************************************************************************)
(* Theorems about a router and its calls, for every set of configurations  *)
(* and assessments and whatever the caller writes to them: what a decision *)
(* depends on, who is refused one, and how a plan agrees with its route;   *)
(* and that the shipped rules decide as documented, listed in any order.   *)
(***************************************************************************)
EXTENDS MCRouting, Positions_proofs

\* The property alone is not inductive: it says nothing of a route that a call
\* is still to get, nor that no router is made anew under a route.  The router's
\* configuration is the one it was made of, there is a call only when there is
\* a router, and a call that has not been routed has no route.
ReproducibleInv ==
  /\ config = madeOf
  /\ router # "made" => pc = "idle"
  /\ pc \in {"idle", "validated"} => route = << >>
  /\ DecisionsAreReproducible

\* Before the router is made nothing has been decided.
LEMMA ReproducibleInit == Init => ReproducibleInv
  BY DEF Init, ReproducibleInv, DecisionsAreReproducible

\* What a call that is routed now gets is what the configuration that the router
\* was made of leads to.
LEMMA DecideStep ==
  ASSUME ReproducibleInv, Decide(assessment, preferred'),
         routedOn' = <<assessment>>, UNCHANGED <<config, madeOf>>
  PROVE  DecisionsAreReproducible'
  BY DEF ReproducibleInv, Decide, DecisionsAreReproducible

\* Every step keeps the invariant; the steps that route a call do by the lemma,
\* the others leave the route alone or come before it.
LEMMA ReproducibleStep == ReproducibleInv /\ [Next]_vars => ReproducibleInv'
<1> SUFFICES ASSUME ReproducibleInv, [Next]_vars
             PROVE  ReproducibleInv'
  OBVIOUS
<1>1. CASE CreateRouter
  BY <1>1 DEF CreateRouter, ReproducibleInv, DecisionsAreReproducible, callVars
<1>2. CASE RewriteConfiguration
  BY <1>2 DEF RewriteConfiguration, ReproducibleInv, DecisionsAreReproducible,
              callVars
<1>3. CASE RouteTask
  <2>1. DecisionsAreReproducible'
    <3>1. Decide(assessment, preferred')
      BY <1>3 DEF RouteTask, Decide
    <3> QED
      BY <3>1, <1>3, DecideStep DEF RouteTask, configVars
  <2> QED
    BY <2>1, <1>3 DEF RouteTask, ReproducibleInv, configVars
<1>4. CASE PrepareAgentExecution
  BY <1>4 DEF PrepareAgentExecution, ReproducibleInv, DecisionsAreReproducible,
              configVars
<1>5. CASE RoutePrepared
  <2>1. DecisionsAreReproducible'
    <3>1. Decide(assessment, preferred')
      BY <1>5 DEF RoutePrepared, Decide
    <3> QED
      BY <3>1, <1>5, DecideStep DEF RoutePrepared, configVars
  <2> QED
    BY <2>1, <1>5 DEF RoutePrepared, ReproducibleInv, configVars
<1>6. CASE PlanPrepared
  BY <1>6 DEF PlanPrepared, ReproducibleInv, DecisionsAreReproducible, configVars
<1>7. CASE RewriteAssessment
  BY <1>7 DEF RewriteAssessment, ReproducibleInv, DecisionsAreReproducible,
              configVars
<1>8. CASE UNCHANGED vars
  BY <1>8 DEF ReproducibleInv, DecisionsAreReproducible, vars, configVars, callVars
<1> QED
  BY <1>1, <1>2, <1>3, <1>4, <1>5, <1>6, <1>7, <1>8 DEF Next

\* "Custom configuration is copied and frozen so later caller mutation cannot
\* alter routing decisions" (router.ts): a decision is always the one that the
\* configuration led to when the router was made.
THEOREM DecisionsReproducible == Spec => []DecisionsAreReproducible
<1>1. Init => ReproducibleInv
  BY ReproducibleInit
<1>2. ReproducibleInv => DecisionsAreReproducible
  BY DEF ReproducibleInv
<1> QED
  BY <1>1, <1>2, ReproducibleStep, PTL DEF Spec

-----------------------------------------------------------------------------
\* Types

\* There is a call only when there is a router, which was made of a configuration
\* that is valid.
TypeInv ==
  /\ TypeOK
  /\ router # "made" => pc = "idle"
  /\ router = "made" => ValidCatalog(config[1].catalog)

\* A route is a decision or nothing.
LEMMA RouteOrNothing ==
  ASSUME NEW policy, NEW catalog, NEW a, NEW p
  PROVE  LET decided == routeConfiguredTask(policy, catalog, a, p)
         IN  decided = << >> \/ \E d : decided = <<d>>
  BY DEF routeConfiguredTask

\* Before the router is made there is no call.
LEMMA TypeInvInit == Init => TypeInv
  BY DEF Init, TypeInv, TypeOK

\* A router is made of a valid catalog only, and a call needs a router.
LEMMA TypeInvStep == TypeInv /\ [Next]_vars => TypeInv'
<1> SUFFICES ASSUME TypeInv, [Next]_vars
             PROVE  TypeInv'
  OBVIOUS
<1> USE DEF TypeInv, TypeOK
<1>1. CASE CreateRouter
  BY <1>1 DEF CreateRouter, callVars
<1>2. CASE RewriteConfiguration
  BY <1>2 DEF RewriteConfiguration, callVars
<1>3. CASE RouteTask
  <2>1. /\ preferred' \in MODEL_PROVIDERS \cup {"none"}
        /\ pc' = IF route' = << >> THEN "rejected" ELSE "decided"
    BY <1>3 DEF RouteTask
  <2> QED
    BY <1>3, <2>1 DEF RouteTask, configVars
<1>4. CASE PrepareAgentExecution
  BY <1>4 DEF PrepareAgentExecution, configVars
<1>5. CASE RoutePrepared
  BY <1>5 DEF RoutePrepared, configVars
<1>6. CASE PlanPrepared
  <2>1. plan' # << >>
    BY <1>6 DEF PlanPrepared
  <2> QED
    BY <1>6, <2>1 DEF PlanPrepared, configVars
<1>7. CASE RewriteAssessment
  BY <1>7 DEF RewriteAssessment, configVars
<1>8. CASE UNCHANGED vars
  BY <1>8 DEF vars, configVars, callVars
<1> QED
  BY <1>1, <1>2, <1>3, <1>4, <1>5, <1>6, <1>7, <1>8 DEF Next

\* The types, with what a router is made of.
LEMMA TypeInvariant == Spec => []TypeInv
  BY TypeInvInit, TypeInvStep, PTL DEF Spec

\* A call has a route and a plan exactly when it is where it should have them.
THEOREM TypeCorrect == Spec => []TypeOK
<1>1. TypeInv => TypeOK
  BY DEF TypeInv
<1> QED
  BY <1>1, TypeInvariant, PTL

-----------------------------------------------------------------------------
\* Refusals

\* A rule that is for everything matches everything, so that some rule is found.
LEMMA CatchAllDecides ==
  ASSUME NEW rules, CatchesAll(rules), NEW a, NEW state
  PROVE  findFirstMatchingRule(rules, a, state) # << >>
<1>1. PICK i \in DOMAIN rules :
        rules[i].when = {[key |-> "always", negated |-> FALSE, expected |-> <<"boolean", TRUE>>]}
  BY DEF CatchesAll
<1>2. matchesConditions(rules[i].when, a, state)
  <2> SUFFICES ASSUME NEW c \in rules[i].when
               PROVE  matchesCondition(c, a, state)
    BY DEF matchesConditions
  <2>1. c.key = "always" /\ c.expected = <<"boolean", TRUE>>
    <3>1. c = [key |-> "always", negated |-> FALSE, expected |-> <<"boolean", TRUE>>]
      BY <1>1, Zenon
    <3> QED
      BY <3>1, Zenon
  <2> QED
    BY <2>1, Zenon DEF matchesCondition
<1>3. Matching(rules, a, state) # {}
  BY <1>2 DEF Matching
<1> QED
  BY <1>3 DEF findFirstMatchingRule

\* Rule sets that have a rule for everything, and a provider of the catalog, always
\* give a route.
LEMMA RouteIsTotal ==
  ASSUME NEW policy, NEW catalog, NEW a, NEW p,
         CatchesAll(policy.model_rules), CatchesAll(policy.delegation_rules),
         CatchesAll(policy.review_rules), p \in catalog.providers
  PROVE  routeConfiguredTask(policy, catalog, a, p) # << >>
  BY CatchAllDecides DEF routeConfiguredTask

\* RefusalsAreExplained is about the moment after the refusal; that it stays true
\* needs that nobody writes to the assessment of a call that is over, and that no
\* router is made anew under it.
LEMMA RefusalStep ==
  ASSUME TypeInv, RefusalsAreExplained, [Next]_vars
  PROVE  RefusalsAreExplained'
<1> USE DEF RefusalsAreExplained
<1>made. pc # "idle" => router = "made"
  BY DEF TypeInv
<1>1. ASSUME NEW p, Decide(assessment, p), route' = << >>, router = "made",
             UNCHANGED <<configVars, assessment>>, preferred' = p
      PROVE  RefusalsAreExplained'
  <2>1. \/ ~CatchesAll(config[1].policy.model_rules)
        \/ ~CatchesAll(config[1].policy.delegation_rules)
        \/ ~CatchesAll(config[1].policy.review_rules)
        \/ Provider(config[1], p) \notin config[1].catalog.providers
    BY <1>1, RouteIsTotal DEF Decide
  <2>2. Provider(config[1], p) \notin config[1].catalog.providers =>
          p \notin config[1].catalog.providers \cup {"none"}
    BY <1>1 DEF Provider, TypeInv, ValidCatalog
  <2> QED
    BY <1>1, <2>1, <2>2 DEF configVars
<1>2. CASE CreateRouter
  BY <1>2, <1>made DEF CreateRouter, callVars
<1>3. CASE RewriteConfiguration
  BY <1>3 DEF RewriteConfiguration, callVars
<1>4. CASE RouteTask
  <2>1. Decide(assessment, preferred') /\ router = "made" /\ UNCHANGED <<configVars, assessment>>
        /\ (route' # << >> => pc' # "rejected")
    BY <1>4 DEF RouteTask, Decide
  <2> QED
    BY <1>1, <2>1
<1>5. CASE PrepareAgentExecution
  BY <1>5 DEF PrepareAgentExecution, configVars, validAssessment
<1>6. CASE RoutePrepared
  <2>1. /\ Decide(assessment, preferred') /\ router = "made"
        /\ UNCHANGED <<configVars, assessment>>
        /\ (route' # << >> => pc' # "rejected")
    BY <1>6, <1>made DEF RoutePrepared, Decide
  <2> QED
    BY <1>1, <2>1
<1>7. CASE PlanPrepared
  BY <1>7 DEF PlanPrepared
<1>8. CASE RewriteAssessment
  BY <1>8 DEF RewriteAssessment
<1>9. CASE UNCHANGED vars
  BY <1>9 DEF vars, configVars, callVars, validAssessment
<1> QED
  BY <1>2, <1>3, <1>4, <1>5, <1>6, <1>7, <1>8, <1>9 DEF Next

\* Whatever the policy, the catalog and the assessment, and whatever is written to them
\* meanwhile, a call is refused only for an assessment that is not valid, a rule set
\* without a rule for everything, or a provider that the catalog lacks.
THEOREM RefusalsHaveReasons == Spec => []RefusalsAreExplained
<1>1. Init => RefusalsAreExplained
  BY DEF Init, RefusalsAreExplained
<1>2. TypeInv /\ RefusalsAreExplained /\ [Next]_vars => RefusalsAreExplained'
  BY RefusalStep
<1> QED
  BY <1>1, <1>2, TypeInvariant, PTL DEF Spec

-----------------------------------------------------------------------------
\* Plans

\* The worker briefs of a plan, whatever has become of the subtasks since the route
\* was decided.
LEMMA BriefsAreNumbered ==
  ASSUME NEW a, NEW d, a.suggested_subtasks \in Nat
  PROVE  LET briefs == workerBriefs(a, d)
         IN  /\ briefs # << >>
             /\ \A n \in DOMAIN briefs : briefs[n].id = n
             /\ \A m, n \in DOMAIN briefs : briefs[m].task = briefs[n].task => m = n
<1>1. CASE d.delegate /\ a.suggested_subtasks > 0
  <2>1. PICK k \in Nat \ {0} : k = a.suggested_subtasks
    BY <1>1
  <2>2. workerBriefs(a, d) = [n \in 1..k |-> Brief(n, n)]
    BY <1>1, <2>1 DEF workerBriefs
  <2>3. 1 \in 1..k
    BY <2>1
  <2>4. [n \in 1..k |-> Brief(n, n)] # << >>
    BY <2>3
  <2> QED
    BY <2>2, <2>4 DEF Brief
<1>2. CASE ~(d.delegate /\ a.suggested_subtasks > 0)
  <2>1. workerBriefs(a, d) = <<Brief(1, 0)>>
    BY <1>2 DEF workerBriefs
  <2> QED
    BY <2>1 DEF Brief
<1> QED
  BY <1>1, <1>2

\* Made once, a plan and its route stay.
LEMMA PlanStep ==
  ASSUME TypeInv, PlanFollowsRoute, [Next]_vars
  PROVE  PlanFollowsRoute'
<1>1. CASE PlanPrepared
  <2>1. plan'[1] = createExecutionPlan(assessment, route[1]) /\ route' = route
    BY <1>1 DEF PlanPrepared
  <2>2. assessment.suggested_subtasks \in Nat
    BY RoutingAssumption DEF TypeInv, TypeOK
  <2>3. /\ plan'[1].execution_mode = "delegated" <=> route[1].delegate
        /\ plan'[1].worker_briefs = workerBriefs(assessment, route[1])
        /\ plan'[1].reviewer_brief = route[1].add_reviewer
        /\ plan'[1].model_class = route[1].model_class
        /\ plan'[1].provider = route[1].provider
    BY <2>1 DEF createExecutionPlan
  <2> QED
    BY <2>1, <2>2, <2>3, BriefsAreNumbered DEF PlanFollowsRoute
<1>2. CASE ~PlanPrepared
  <2>1. UNCHANGED plan /\ (plan # << >> => UNCHANGED route)
    BY <1>2 DEF Next, CreateRouter, RewriteConfiguration, RouteTask, PrepareAgentExecution,
       RoutePrepared, RewriteAssessment, vars, callVars, TypeInv, TypeOK
  <2> QED
    BY <2>1 DEF PlanFollowsRoute
<1> QED
  BY <1>1, <1>2

\* A plan agrees with the route of its call and always has a worker, whatever the caller
\* has made of the assessment between the route and the plan.
THEOREM PlansFollowRoutes == Spec => []PlanFollowsRoute
<1>1. Init => PlanFollowsRoute
  BY DEF Init, PlanFollowsRoute
<1>2. TypeInv /\ PlanFollowsRoute /\ [Next]_vars => PlanFollowsRoute'
  BY PlanStep
<1> QED
  BY <1>1, <1>2, TypeInvariant, PTL DEF Spec

-----------------------------------------------------------------------------
\* The shipped rules

\* The rule that decides, wherever it is listed and however often, is the one with the
\* least priority of those that match.
LEMMA LeastPriorityDecides ==
  ASSUME NEW rules, DOMAIN rules \subseteq Nat, NEW a, NEW state,
         NEW r \in ToSet(rules), matchesConditions(r.when, a, state),
         \A q \in ToSet(rules) : q.priority \in Nat,
         \A q \in ToSet(rules) :
           matchesConditions(q.when, a, state) => q = r \/ r.priority < q.priority
  PROVE  findFirstMatchingRule(rules, a, state) = <<r>>
<1> DEFINE M == Matching(rules, a, state)
           R == {i \in M : rules[i] = r}
<1>1. R # {} /\ R \subseteq Nat
  BY DEF Matching, ToSet
<1>2. PICK k \in R : \A i \in R : k <= i
  <2> HIDE DEF R
  <2> QED
    BY <1>1, LeastNumber
<1>3. \A i \in M : i \in DOMAIN rules /\ rules[i] \in ToSet(rules)
                   /\ rules[i].priority \in Nat
                   /\ (rules[i] = r \/ r.priority < rules[i].priority)
  BY DEF Matching, ToSet
<1>4. k \in M /\ rules[k] = r
  BY <1>2
<1>5. \A i \in M : Precedes(rules, k, i)
  BY <1>2, <1>3, <1>4 DEF Precedes
<1>6. \A i \in M : Precedes(rules, i, k) => rules[i] = r
  BY <1>3, <1>4 DEF Precedes
<1> HIDE DEF M
<1>7. rules[CHOOSE i \in M : \A j \in M : Precedes(rules, i, j)] = r
  BY <1>4, <1>5, <1>6
<1>8. findFirstMatchingRule(rules, a, state) =
        <<rules[CHOOSE i \in M : \A j \in M : Precedes(rules, i, j)]>>
  BY <1>4 DEF findFirstMatchingRule, M
<1> QED
  BY <1>7, <1>8

\* The fields of a rule and of its conditions.
LEMMA RuleFields ==
  \A id, priority, when, key, value :
    LET r == Rule(id, priority, when, key, value)
    IN  r.priority = priority /\ r.when = when /\ r.route[2] = value
  BY DEF Rule

\* A condition on a string key compares the assessment with its list.
LEMMA IsMatches ==
  ASSUME NEW key \in StringKeys, NEW S, NEW a, NEW state
  PROVE  /\ matchesCondition(Is(key, S), a, state) <=> a[key] \in S
         /\ matchesCondition(IsNot(key, S), a, state) <=> a[key] \notin S
<1>1. key # "always" /\ key # "confidence_below"
  BY DEF StringKeys
<1>2. readValue(key, a, state) = <<"string", a[key]>>
  BY DEF readValue
<1>3. matchesCondition(Is(key, S), a, state) <=> a[key] \in S
  BY <1>1, <1>2 DEF matchesCondition, Is, Among
<1>4. matchesCondition(IsNot(key, S), a, state) <=> a[key] \notin S
  BY <1>1, <1>2 DEF matchesCondition, IsNot, Among
<1> QED
  BY <1>3, <1>4

\* A condition on a flag compares the flag of the assessment.
LEMMA HoldsMatches ==
  ASSUME NEW key \in BooleanKeys, NEW v, NEW a, NEW state
  PROVE  matchesCondition(Holds(key, v), a, state) <=> a[key] = v
<1>1. key # "always" /\ key # "confidence_below" /\ key \notin StringKeys
  BY DEF StringKeys, BooleanKeys
<1>2. readValue(key, a, state) = <<"boolean", a[key]>>
  BY <1>1 DEF readValue
<1> QED
  BY <1>1, <1>2 DEF matchesCondition, Holds

\* The condition of a default rule holds of every assessment.
LEMMA AlwaysMatches ==
  ASSUME NEW a, NEW state
  PROVE  matchesCondition(Holds("always", TRUE), a, state)
  BY DEF matchesCondition, Holds

\* A condition on the delegation sees what the delegation rule before it gave.
LEMMA DelegationMatches ==
  ASSUME NEW a, NEW m, NEW d, NEW v
  PROVE  matchesCondition(Holds("delegate", v), a, stateAfterDelegation(m, d))
           <=> d.route[2] = v
<1>1. readValue("delegate", a, stateAfterDelegation(m, d)) = <<"boolean", d.route[2]>>
  BY DEF readValue, StringKeys, BooleanKeys, stateAfterDelegation
<1> QED
  BY <1>1 DEF matchesCondition, Holds

\* Nobody has decided on the fallbacks, and nobody has told that a verification failed or
\* that requirements conflict.
LEMMA FallbackMatches ==
  ASSUME NEW a, NEW m, NEW d, NEW r, NEW v
  PROVE  LET state == stateAfterReview(m, d, r)
         IN  /\ matchesCondition(Below("confidence_below", 60), a, state) <=> a.confidence < 60
             /\ ~matchesCondition(Holds("verification_failed", v), a, state)
             /\ ~matchesCondition(Holds("requirements_conflict", v), a, state)
<1> DEFINE state == stateAfterReview(m, d, r)
<1>1. matchesCondition(Below("confidence_below", 60), a, state) <=> a.confidence < 60
  BY DEF matchesCondition, Below
<1>2. ASSUME NEW key \in {"verification_failed", "requirements_conflict"}
      PROVE  ~matchesCondition(Holds(key, v), a, state)
  <2>1. readValue(key, a, state) = Undefined
    BY DEF readValue, StringKeys, BooleanKeys, stateAfterReview
  <2>2. Undefined # <<"boolean", v>>
    BY DEF Undefined
  <2> QED
    BY <2>1, <2>2 DEF matchesCondition, Holds
<1> QED
  BY <1>1, <1>2

\* The shipped rules for the class of model decide as documented, in any order.
LEMMA ModelAsDocumented ==
  ASSUME NEW rules, Rearranges(rules, model_rules), NEW a, NEW state
  PROVE  \E r : /\ findFirstMatchingRule(rules, a, state) = <<r>>
                /\ r.route[2] = DocumentedModel(a)
<1> DEFINE use(id, priority, when, class) == Rule(id, priority, when, "model_class", class)
           R1 == use("high_risk_uses_strong", 10, {Is("risk", {"high"})}, "strong")
           R2 == use("deep_debugging_uses_strong", 20,
                     {Is("task_type", {"debugging"}), Is("complexity", {"medium", "high"})},
                     "strong")
           R3 == use("high_complexity_planning_uses_strong", 30,
                     {Is("task_type", {"planning"}), Is("complexity", {"high"})}, "strong")
           R4 == use("simple_low_risk_uses_small_fast", 40,
                     {Is("complexity", {"low"}), Is("risk", {"low"}),
                      IsNot("context_size", {"large"}), IsNot("tool_need", {"heavy"})},
                     "small_fast")
           R5 == use("default_uses_standard", 1000, {Holds("always", TRUE)}, "standard")
           matches(r) == matchesConditions(r.when, a, state)
<1>1. DOMAIN rules = 1..5 /\ ToSet(rules) = {R1, R2, R3, R4, R5}
  <2>1. model_rules = <<R1, R2, R3, R4, R5>>
    BY DEF model_rules
  <2> HIDE DEF R1, R2, R3, R4, R5
  <2>2. DOMAIN model_rules = 1..5 /\ ToSet(model_rules) = {R1, R2, R3, R4, R5}
    BY <2>1 DEF ToSet
  <2> QED
    BY <2>2 DEF Rearranges
<1>2. /\ matches(R1) <=> a.risk = "high"
      /\ matches(R2) <=> a.task_type = "debugging" /\ a.complexity \in {"medium", "high"}
      /\ matches(R3) <=> a.task_type = "planning" /\ a.complexity = "high"
      /\ matches(R4) <=> /\ a.complexity = "low" /\ a.risk = "low"
                         /\ a.context_size # "large" /\ a.tool_need # "heavy"
      /\ matches(R5)
  <2> DEFINE is(key, S) == matchesCondition(Is(key, S), a, state)
             isNot(key, S) == matchesCondition(IsNot(key, S), a, state)
  <2>1. /\ is("risk", {"high"}) <=> a.risk = "high"
        /\ is("risk", {"low"}) <=> a.risk = "low"
        /\ is("task_type", {"debugging"}) <=> a.task_type = "debugging"
        /\ is("task_type", {"planning"}) <=> a.task_type = "planning"
        /\ is("complexity", {"medium", "high"}) <=> a.complexity \in {"medium", "high"}
        /\ is("complexity", {"high"}) <=> a.complexity = "high"
        /\ is("complexity", {"low"}) <=> a.complexity = "low"
        /\ isNot("context_size", {"large"}) <=> a.context_size # "large"
        /\ isNot("tool_need", {"heavy"}) <=> a.tool_need # "heavy"
    BY IsMatches DEF StringKeys
  <2>2. matches(R1) <=> is("risk", {"high"})
    BY RuleFields DEF matchesConditions
  <2>3. matches(R2) <=> is("task_type", {"debugging"}) /\ is("complexity", {"medium", "high"})
    BY RuleFields DEF matchesConditions
  <2>4. matches(R3) <=> is("task_type", {"planning"}) /\ is("complexity", {"high"})
    BY RuleFields DEF matchesConditions
  <2>5. matches(R4) <=> /\ is("complexity", {"low"}) /\ is("risk", {"low"})
                       /\ isNot("context_size", {"large"}) /\ isNot("tool_need", {"heavy"})
    BY RuleFields DEF matchesConditions
  <2>6. matches(R5)
    <3>1. R5.when = {Holds("always", TRUE)}
      BY DEF Rule
    <3> QED
      BY <3>1, AlwaysMatches DEF matchesConditions
  <2> HIDE DEF is, isNot, matches, R1, R2, R3, R4, R5
  <2> QED
    BY <2>1, <2>2, <2>3, <2>4, <2>5, <2>6
<1>3. /\ R1.priority = 10 /\ R1.route[2] = "strong"
      /\ R2.priority = 20 /\ R2.route[2] = "strong"
      /\ R3.priority = 30 /\ R3.route[2] = "strong"
      /\ R4.priority = 40 /\ R4.route[2] = "small_fast"
      /\ R5.priority = 1000 /\ R5.route[2] = "standard"
  BY RuleFields
<1> HIDE DEF R1, R2, R3, R4, R5
<1>4. ASSUME NEW r \in {R1, R2, R3, R4, R5}, matches(r),
             \A q \in {R1, R2, R3, R4, R5} : matches(q) => q = r \/ r.priority < q.priority
      PROVE  findFirstMatchingRule(rules, a, state) = <<r>>
  <2>1. DOMAIN rules \subseteq Nat /\ \A q \in ToSet(rules) : q.priority \in Nat
    BY <1>1, <1>3
  <2> QED
    BY <1>1, <1>4, <2>1, LeastPriorityDecides
<1>5. CASE matches(R1)
  BY <1>2, <1>3, <1>4, <1>5 DEF DocumentedModel
<1>6. CASE ~matches(R1) /\ matches(R2)
  BY <1>2, <1>3, <1>4, <1>6 DEF DocumentedModel
<1>7. CASE ~matches(R1) /\ ~matches(R2) /\ matches(R3)
  BY <1>2, <1>3, <1>4, <1>7 DEF DocumentedModel
<1>8. CASE ~matches(R1) /\ ~matches(R2) /\ ~matches(R3) /\ matches(R4)
  BY <1>2, <1>3, <1>4, <1>8 DEF DocumentedModel
<1>9. CASE ~matches(R1) /\ ~matches(R2) /\ ~matches(R3) /\ ~matches(R4)
  BY <1>2, <1>3, <1>4, <1>9 DEF DocumentedModel
<1> QED
  BY <1>5, <1>6, <1>7, <1>8, <1>9

\* The value that a rule of the other rule sets gives.
Says(r, b) == (r.route[2] = TRUE /\ b) \/ (r.route[2] = FALSE /\ ~b)

\* So do those for the delegation,
LEMMA DelegationAsDocumented ==
  ASSUME NEW rules, Rearranges(rules, delegation_rules), NEW state,
         NEW a, a.parallelizable \in BOOLEAN, a.requires_subagents \in BOOLEAN
  PROVE  \E r : /\ findFirstMatchingRule(rules, a, state) = <<r>>
                /\ Says(r, DocumentedDelegation(a))
<1> DEFINE rule(id, priority, when, value) == Rule(id, priority, when, "delegate", value)
           R1 == rule("low_complexity_does_not_delegate", 10, {Is("complexity", {"low"})}, FALSE)
           R2 == rule("non_parallel_work_does_not_delegate", 20,
                      {Holds("parallelizable", FALSE)}, FALSE)
           R3 == rule("complex_parallel_work_delegates", 30,
                      {Is("complexity", {"high"}), Holds("parallelizable", TRUE),
                       Holds("requires_subagents", TRUE)}, TRUE)
           R4 == rule("default_no_delegation", 1000, {Holds("always", TRUE)}, FALSE)
           matches(r) == matchesConditions(r.when, a, state)
<1>1. DOMAIN rules = 1..4 /\ ToSet(rules) = {R1, R2, R3, R4}
  <2>1. delegation_rules = <<R1, R2, R3, R4>>
    BY DEF delegation_rules
  <2> HIDE DEF R1, R2, R3, R4
  <2>2. DOMAIN delegation_rules = 1..4 /\ ToSet(delegation_rules) = {R1, R2, R3, R4}
    BY <2>1 DEF ToSet
  <2> QED
    BY <2>2 DEF Rearranges
<1>2. /\ matches(R1) <=> a.complexity = "low"
      /\ matches(R2) <=> ~a.parallelizable
      /\ matches(R3) <=> a.complexity = "high" /\ a.parallelizable /\ a.requires_subagents
      /\ matches(R4)
  <2> DEFINE is(key, S) == matchesCondition(Is(key, S), a, state)
             holds(key, v) == matchesCondition(Holds(key, v), a, state)
  <2>1. /\ is("complexity", {"high"}) <=> a.complexity = "high"
        /\ is("complexity", {"low"}) <=> a.complexity = "low"
    BY IsMatches DEF StringKeys
  <2>2. /\ holds("parallelizable", FALSE) <=> a.parallelizable = FALSE
        /\ holds("parallelizable", TRUE) <=> a.parallelizable = TRUE
        /\ holds("requires_subagents", TRUE) <=> a.requires_subagents = TRUE
    BY HoldsMatches DEF BooleanKeys
  <2>whens. /\ R1.when = {Is("complexity", {"low"})}
            /\ R2.when = {Holds("parallelizable", FALSE)}
            /\ R3.when = {Is("complexity", {"high"}), Holds("parallelizable", TRUE),
                         Holds("requires_subagents", TRUE)}
            /\ R4.when = {Holds("always", TRUE)}
    BY DEF Rule
  <2> HIDE DEF R1, R2, R3, R4
  <2>3. matches(R1) <=> is("complexity", {"low"})
    BY <2>whens DEF matchesConditions
  <2>4. matches(R2) <=> holds("parallelizable", FALSE)
    BY <2>whens DEF matchesConditions
  <2>5. matches(R3) <=> /\ is("complexity", {"high"}) /\ holds("parallelizable", TRUE)
                       /\ holds("requires_subagents", TRUE)
    BY <2>whens DEF matchesConditions
  <2>6. matches(R4)
    BY <2>whens, AlwaysMatches DEF matchesConditions
  <2> HIDE DEF is, holds, matches
  <2> QED
    BY <2>1, <2>2, <2>3, <2>4, <2>5, <2>6
<1>3. /\ R1.priority = 10 /\ R1.route[2] = FALSE
      /\ R2.priority = 20 /\ R2.route[2] = FALSE
      /\ R3.priority = 30 /\ R3.route[2] = TRUE
      /\ R4.priority = 1000 /\ R4.route[2] = FALSE
  BY DEF Rule
<1> HIDE DEF R1, R2, R3, R4
<1>4. ASSUME NEW r \in {R1, R2, R3, R4}, matches(r),
             \A q \in {R1, R2, R3, R4} : matches(q) => q = r \/ r.priority < q.priority
      PROVE  findFirstMatchingRule(rules, a, state) = <<r>>
  <2>1. DOMAIN rules \subseteq Nat /\ \A q \in ToSet(rules) : q.priority \in Nat
    BY <1>1, <1>3
  <2> QED
    BY <1>1, <1>4, <2>1, LeastPriorityDecides
<1>5. CASE matches(R1)
  BY <1>2, <1>3, <1>4, <1>5 DEF DocumentedDelegation, Says
<1>6. CASE ~matches(R1) /\ matches(R2)
  BY <1>2, <1>3, <1>4, <1>6 DEF DocumentedDelegation, Says
<1>7. CASE ~matches(R1) /\ ~matches(R2) /\ matches(R3)
  BY <1>2, <1>3, <1>4, <1>7 DEF DocumentedDelegation, Says
<1>8. CASE ~matches(R1) /\ ~matches(R2) /\ ~matches(R3)
  BY <1>2, <1>3, <1>4, <1>8 DEF DocumentedDelegation, Says
<1> QED
  BY <1>5, <1>6, <1>7, <1>8

\* those for the reviewer, which look at the delegation just decided,
LEMMA ReviewAsDocumented ==
  ASSUME NEW rules, Rearranges(rules, review_rules), NEW a, NEW m, NEW d,
         Says(d, DocumentedDelegation(a))
  PROVE  \E r : /\ findFirstMatchingRule(rules, a, stateAfterDelegation(m, d)) = <<r>>
                /\ Says(r, DocumentedReview(a))
<1> DEFINE rule(id, priority, when, value) == Rule(id, priority, when, "add_reviewer", value)
           R1 == rule("high_risk_adds_reviewer", 10, {Is("risk", {"high"})}, TRUE)
           R2 == rule("delegated_work_adds_reviewer", 20, {Holds("delegate", TRUE)}, TRUE)
           R3 == rule("default_no_reviewer", 1000, {Holds("always", TRUE)}, FALSE)
           state == stateAfterDelegation(m, d)
           matches(r) == matchesConditions(r.when, a, state)
<1>1. DOMAIN rules = 1..3 /\ ToSet(rules) = {R1, R2, R3}
  <2>1. review_rules = <<R1, R2, R3>>
    BY DEF review_rules
  <2> HIDE DEF R1, R2, R3
  <2>2. DOMAIN review_rules = 1..3 /\ ToSet(review_rules) = {R1, R2, R3}
    BY <2>1 DEF ToSet
  <2> QED
    BY <2>2 DEF Rearranges
<1>2. /\ matches(R1) <=> a.risk = "high"
      /\ matches(R2) <=> DocumentedDelegation(a)
      /\ matches(R3)
  <2>1. matchesCondition(Is("risk", {"high"}), a, state) <=> a.risk = "high"
    BY IsMatches DEF StringKeys
  <2>2. matchesCondition(Holds("delegate", TRUE), a, state) <=> d.route[2] = TRUE
    BY DelegationMatches
  <2>whens. /\ R1.when = {Is("risk", {"high"})} /\ R2.when = {Holds("delegate", TRUE)}
            /\ R3.when = {Holds("always", TRUE)}
    BY DEF Rule
  <2> HIDE DEF R1, R2, R3
  <2>3. matches(R1) <=> matchesCondition(Is("risk", {"high"}), a, state)
    BY <2>whens DEF matchesConditions
  <2>4. matches(R2) <=> matchesCondition(Holds("delegate", TRUE), a, state)
    BY <2>whens DEF matchesConditions
  <2>5. matches(R3)
    BY <2>whens, AlwaysMatches DEF matchesConditions
  <2>6. d.route[2] = TRUE <=> DocumentedDelegation(a)
    BY DEF Says
  <2> HIDE DEF state, matches
  <2> QED
    BY <2>1, <2>2, <2>3, <2>4, <2>5, <2>6
<1>3. /\ R1.priority = 10 /\ R1.route[2] = TRUE
      /\ R2.priority = 20 /\ R2.route[2] = TRUE
      /\ R3.priority = 1000 /\ R3.route[2] = FALSE
  BY DEF Rule
<1> HIDE DEF R1, R2, R3, state
<1>4. ASSUME NEW r \in {R1, R2, R3}, matches(r),
             \A q \in {R1, R2, R3} : matches(q) => q = r \/ r.priority < q.priority
      PROVE  findFirstMatchingRule(rules, a, state) = <<r>>
  <2>1. DOMAIN rules \subseteq Nat /\ \A q \in ToSet(rules) : q.priority \in Nat
    BY <1>1, <1>3
  <2> QED
    BY <1>1, <1>4, <2>1, LeastPriorityDecides
<1>5. \E r : /\ findFirstMatchingRule(rules, a, state) = <<r>>
             /\ Says(r, DocumentedReview(a))
  <2>1. CASE matches(R1)
    BY <1>2, <1>3, <1>4, <2>1 DEF DocumentedReview, Says
  <2>2. CASE ~matches(R1) /\ matches(R2)
    BY <1>2, <1>3, <1>4, <2>2 DEF DocumentedReview, Says
  <2>3. CASE ~matches(R1) /\ ~matches(R2)
    BY <1>2, <1>3, <1>4, <2>3 DEF DocumentedReview, Says
  <2> QED
    BY <2>1, <2>2, <2>3
<1> QED
  BY <1>5 DEF state

\* and the fallbacks, which the text gives in the order of the policy.
LEMMA FallbackAsDocumented ==
  ASSUME NEW policy, Rearranges(policy.fallback_rules, fallback_rules),
         NEW a, NEW m, NEW d, NEW r
  PROVE  ToSet(buildFallbackText(policy, a, stateAfterReview(m, d, r))) = DocumentedFallback(a)
<1> DEFINE rules == policy.fallback_rules
           state == stateAfterReview(m, d, r)
           F1 == [id |-> "low_confidence_escalates", when |-> {Below("confidence_below", 60)}]
           F2 == [id |-> "verification_failure_escalates",
                  when |-> {Holds("verification_failed", TRUE)}]
           F3 == [id |-> "conflicting_requirements_ask_user",
                  when |-> {Holds("requirements_conflict", TRUE)}]
           matches(q) == matchesConditions(q.when, a, state)
           M == Matching(rules, a, state)
           text == buildFallbackText(policy, a, state)
<1>1. DOMAIN rules = 1..3 /\ ToSet(rules) = {F1, F2, F3}
  <2>1. fallback_rules = <<F1, F2, F3>>
    BY DEF fallback_rules
  <2> HIDE DEF F1, F2, F3
  <2>2. DOMAIN fallback_rules = 1..3 /\ ToSet(fallback_rules) = {F1, F2, F3}
    BY <2>1 DEF ToSet
  <2> QED
    BY <2>2 DEF Rearranges
<1>2. (matches(F1) <=> a.confidence < 60) /\ ~matches(F2) /\ ~matches(F3)
  <2>1. /\ F1.when = {Below("confidence_below", 60)}
        /\ F2.when = {Holds("verification_failed", TRUE)}
        /\ F3.when = {Holds("requirements_conflict", TRUE)}
    OBVIOUS
  <2>2. /\ matchesCondition(Below("confidence_below", 60), a, state) <=> a.confidence < 60
        /\ ~matchesCondition(Holds("verification_failed", TRUE), a, state)
        /\ ~matchesCondition(Holds("requirements_conflict", TRUE), a, state)
    BY FallbackMatches
  <2> HIDE DEF F1, F2, F3, state
  <2> QED
    BY <2>1, <2>2 DEF matchesConditions
<1>3. F1.id = "low_confidence_escalates"
  OBVIOUS
<1> HIDE DEF F1, F2, F3
<1>4. M \subseteq Nat /\ IsFiniteSet(M)
  <2>1. PICK n \in Int : n = 3
    OBVIOUS
  <2>2. M \subseteq 1..n
    BY <1>1, <2>1 DEF Matching
  <2>3. IsFiniteSet(1..n)
    BY FS_Interval
  <2> QED
    BY <2>2, <2>3, FS_Subset
<1>5. text = [k \in 1..Cardinality(M) |-> rules[Nth(M, k)].id]
  BY DEF buildFallbackText
<1>6. \A i : i \in M <=> i \in DOMAIN rules /\ matches(rules[i])
  BY DEF Matching
<1> HIDE DEF text, M, matches, rules, state
<1>7. ToSet(text) = {rules[i].id : i \in M}
  <2>1. ASSUME NEW k \in 1..Cardinality(M)
        PROVE  text[k] \in {rules[i].id : i \in M}
    BY <1>4, <1>5, NthCounts
  <2>2. ASSUME NEW i \in M
        PROVE  \E k \in 1..Cardinality(M) : text[k] = rules[i].id
    <3>1. Rank(M, i) \in 1..Cardinality(M) /\ Nth(M, Rank(M, i)) = i
      BY <1>4, NthCounts
    <3> QED
      BY <1>5, <3>1
  <2>3. DOMAIN text = 1..Cardinality(M)
    BY <1>5
  <2> QED
    BY <2>1, <2>2, <2>3 DEF ToSet
<1>8. \A q : (\E i \in M : rules[i] = q) <=> q = F1 /\ a.confidence < 60
  <2>1. ASSUME NEW i \in M
        PROVE  rules[i] = F1 /\ a.confidence < 60
    BY <1>1, <1>2, <1>6 DEF ToSet
  <2>2. ASSUME a.confidence < 60
        PROVE  \E i \in M : rules[i] = F1
    BY <1>1, <1>2, <1>6, <2>2 DEF ToSet
  <2> QED
    BY <2>1, <2>2
<1>9. {rules[i].id : i \in M} = DocumentedFallback(a)
  <2>1. CASE a.confidence < 60
    <3>1. \A i \in M : rules[i].id = "low_confidence_escalates"
      BY <1>3, <1>8
    <3>2. \E i \in M : TRUE
      BY <1>8, <2>1
    <3> QED
      BY <2>1, <3>1, <3>2 DEF DocumentedFallback
  <2>2. CASE ~(a.confidence < 60)
    BY <1>8, <2>2 DEF DocumentedFallback
  <2> QED
    BY <2>1, <2>2
<1> QED
  BY <1>7, <1>9 DEF text, state

\* What is passed to a router has the flags that its type asks for.
FlagsAreBoolean ==
  \A a \in Inputs \cup Rewrites :
    a.parallelizable \in BOOLEAN /\ a.requires_subagents \in BOOLEAN

\* A route that the shipped rules decide is the documented one.
LEMMA RouteAsDocumented ==
  ASSUME NEW policy, NEW catalog, NEW p, NEW e,
         NEW a, a.parallelizable \in BOOLEAN, a.requires_subagents \in BOOLEAN,
         Rearranges(policy.model_rules, model_rules),
         Rearranges(policy.delegation_rules, delegation_rules),
         Rearranges(policy.review_rules, review_rules),
         Rearranges(policy.fallback_rules, fallback_rules),
         routeConfiguredTask(policy, catalog, a, p) = <<e>>
  PROVE  /\ e.model_class = DocumentedModel(a)
         /\ e.delegate = DocumentedDelegation(a)
         /\ e.add_reviewer = DocumentedReview(a)
         /\ ToSet(e.fallback) = DocumentedFallback(a)
<1>1. PICK m : /\ findFirstMatchingRule(policy.model_rules, a, << >>) = <<m>>
               /\ m.route[2] = DocumentedModel(a)
  BY ModelAsDocumented
<1>2. PICK d : /\ findFirstMatchingRule(policy.delegation_rules, a, stateAfterModel(m)) = <<d>>
               /\ Says(d, DocumentedDelegation(a))
  BY DelegationAsDocumented
<1>3. PICK r : /\ findFirstMatchingRule(policy.review_rules, a, stateAfterDelegation(m, d)) = <<r>>
               /\ Says(r, DocumentedReview(a))
  BY <1>2, ReviewAsDocumented
<1>4. e = Decision(policy, a, p, m, d, r)
  <2>1. routeConfiguredTask(policy, catalog, a, p) =
          IF p \notin catalog.providers THEN << >> ELSE <<Decision(policy, a, p, m, d, r)>>
    BY <1>1, <1>2, <1>3 DEF routeConfiguredTask
  <2> QED
    BY <2>1
<1>5. /\ e.model_class = m.route[2] /\ e.delegate = d.route[2] /\ e.add_reviewer = r.route[2]
      /\ e.fallback = buildFallbackText(policy, a, stateAfterReview(m, d, r))
  BY <1>4 DEF Decision
<1>6. e.delegate = DocumentedDelegation(a)
  <2>1. DocumentedDelegation(a) \in BOOLEAN
    BY DEF DocumentedDelegation
  <2>2. \/ d.route[2] = TRUE /\ DocumentedDelegation(a)
        \/ d.route[2] = FALSE /\ ~DocumentedDelegation(a)
    BY <1>2 DEF Says
  <2> QED
    BY <1>5, <2>1, <2>2
<1>7. e.add_reviewer = DocumentedReview(a)
  <2>1. DocumentedReview(a) \in BOOLEAN
    BY DEF DocumentedReview
  <2>2. \/ r.route[2] = TRUE /\ DocumentedReview(a)
        \/ r.route[2] = FALSE /\ ~DocumentedReview(a)
    BY <1>3 DEF Says
  <2> QED
    BY <1>5, <2>1, <2>2
<1>8. ToSet(e.fallback) = DocumentedFallback(a)
  BY <1>5, FallbackAsDocumented
<1> QED
  BY <1>1, <1>5, <1>6, <1>7, <1>8

\* A route has been decided on an assessment that was passed, or written since.
RoutedOnInv == route # << >> => routedOn[1] \in Inputs \cup Rewrites

\* The assessment that a route was decided on is one that was passed or written.
LEMMA RoutedOnInvariant == Spec => []RoutedOnInv
<1>1. Init => RoutedOnInv
  BY DEF Init, RoutedOnInv
<1>2. ASSUME TypeInv, RoutedOnInv, [Next]_vars
      PROVE  RoutedOnInv'
  <2>1. CASE RouteTask \/ RoutePrepared
    <3>1. routedOn' = <<assessment>> /\ assessment \in Inputs \cup Rewrites
      BY <1>2, <2>1 DEF RouteTask, RoutePrepared, TypeInv, TypeOK
    <3> QED
      BY <3>1 DEF RoutedOnInv
  <2>2. CASE ~(RouteTask \/ RoutePrepared)
    <3>1. UNCHANGED <<route, routedOn>>
      BY <1>2, <2>2 DEF Next, CreateRouter, RewriteConfiguration, PrepareAgentExecution,
                        PlanPrepared, RewriteAssessment, vars, callVars
    <3> QED
      BY <1>2, <3>1 DEF RoutedOnInv
  <2> QED
    BY <2>1, <2>2
<1> QED
  BY <1>1, <1>2, TypeInvariant, PTL DEF Spec

\* "Apply rules from top to bottom": in whatever order, and with whatever catalog, a
\* policy lists the shipped rules, each route has the class, the delegation and the
\* reviewer that the documentation gives for its assessment, and the fallbacks.
THEOREM ShippedRulesAreDocumented ==
  ASSUME FlagsAreBoolean
  PROVE  Spec => []DecisionsAreDocumented
<1>1. ASSUME ReproducibleInv, RoutedOnInv
      PROVE  DecisionsAreDocumented
  <2> SUFFICES ASSUME ShippedRules, route # << >>
               PROVE  /\ route[1].model_class = DocumentedModel(routedOn[1])
                      /\ route[1].delegate = DocumentedDelegation(routedOn[1])
                      /\ route[1].add_reviewer = DocumentedReview(routedOn[1])
                      /\ ToSet(route[1].fallback) = DocumentedFallback(routedOn[1])
    BY DEF DecisionsAreDocumented
  <2> DEFINE policy == madeOf[1].policy
             catalog == madeOf[1].catalog
             p == Provider(madeOf[1], preferred)
             a == routedOn[1]
  <2>1. route = routeConfiguredTask(policy, catalog, a, p)
    BY <1>1 DEF ReproducibleInv, DecisionsAreReproducible
  <2>2. a.parallelizable \in BOOLEAN /\ a.requires_subagents \in BOOLEAN
    BY <1>1 DEF RoutedOnInv, FlagsAreBoolean
  <2>3. /\ Rearranges(policy.model_rules, model_rules)
        /\ Rearranges(policy.delegation_rules, delegation_rules)
        /\ Rearranges(policy.review_rules, review_rules)
        /\ Rearranges(policy.fallback_rules, fallback_rules)
    BY DEF ShippedRules
  <2> HIDE DEF policy, catalog, p, a
  <2>4. PICK e : routeConfiguredTask(policy, catalog, a, p) = <<e>>
    BY <2>1, RouteOrNothing
  <2>5. route[1] = e
    BY <2>1, <2>4
  <2>6. /\ e.model_class = DocumentedModel(a)
        /\ e.delegate = DocumentedDelegation(a)
        /\ e.add_reviewer = DocumentedReview(a)
        /\ ToSet(e.fallback) = DocumentedFallback(a)
    BY <2>2, <2>3, <2>4, RouteAsDocumented
  <2> QED
    BY <2>5, <2>6 DEF a
<1>2. Spec => []ReproducibleInv
  BY ReproducibleInit, ReproducibleStep, PTL DEF Spec
<1> QED
  BY <1>1, <1>2, RoutedOnInvariant, PTL
==============================================================================
