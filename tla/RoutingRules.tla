----------------------------- MODULE RoutingRules -----------------------------
(***************************************************************************)
(* The deterministic part of router-core: how a rule's conditions are      *)
(* matched, which rule of a rule set decides, what a routing policy and a  *)
(* model catalog must be like, and the three decisions of a route.         *)
(*                                                                         *)
(* A value that the code tells apart by its type is a pair <<type, value>>.*)
(* A condition is an entry of a rule's "when": the key, whether it ends in *)
(* "_not", and the expected value.  A rule's route keeps the one key its   *)
(* rule set reads.  A confidence is in percent.  The reason of a rule is   *)
(* its id, and a model id is the pair of its provider and class.           *)
(***************************************************************************)
EXTENDS Integers, Sequences, Positions

CONSTANTS
  TaskTypes,    \* the task types the rules tell apart, with one for the rest
  Confidences   \* the confidences a classifier may give

MODEL_CLASSES == {"small_fast", "standard", "strong"}
MODEL_PROVIDERS == {"openai_codex", "anthropic_claude"}
Levels == {"low", "medium", "high"}

\* The task assessments that validateTaskAssessment takes.  Rules do not look
\* at the reasoning, and of the subtasks only their number counts.
TaskAssessments(numSubtasks) ==
  [task_type : TaskTypes,
   complexity : Levels,
   risk : Levels,
   context_size : {"small", "medium", "large"},
   tool_need : {"none", "light", "heavy"},
   parallelizable : BOOLEAN,
   requires_subagents : BOOLEAN,
   confidence : Confidences \cap 0..100,
   suggested_subtasks : numSubtasks]

-----------------------------------------------------------------------------
\* rule-evaluator

StringKeys == {"task_type", "complexity", "risk", "context_size", "tool_need"}
BooleanKeys == {"parallelizable", "requires_subagents"}

Undefined == <<"undefined">>

\* The value of a key in the assessment or, for the keys of RouteState, in what
\* has been decided so far; other keys are undefined.
readValue(key, assessment, state) ==
  IF key \in StringKeys THEN <<"string", assessment[key]>>
  ELSE IF key \in BooleanKeys THEN <<"boolean", assessment[key]>>
  ELSE IF key = "confidence" THEN <<"number", assessment.confidence>>
  ELSE IF key \in DOMAIN state THEN state[key]
  ELSE Undefined

Among(actual, strings) == actual[1] = "string" /\ actual[2] \in strings

\* Mutant of matchesCondition: the "_not" of a key is not seen.
matchesUnnegated(c, assessment, state) ==
  LET actual == readValue(c.key, assessment, state)
  IN  IF c.key = "always" THEN c.expected = <<"boolean", TRUE>>
      ELSE IF c.key = "confidence_below"
      THEN c.expected[1] = "number" /\ assessment.confidence < c.expected[2]
      ELSE IF c.expected[1] = "strings" THEN Among(actual, c.expected[2])
      ELSE actual = c.expected

matchesCondition(c, assessment, state) ==
  LET actual == readValue(c.key, assessment, state)
  IN  IF c.key = "always" THEN c.expected = <<"boolean", TRUE>>
      ELSE IF c.key = "confidence_below"
      THEN c.expected[1] = "number" /\ assessment.confidence < c.expected[2]
      ELSE IF c.negated
      THEN /\ c.expected[1] = "strings" /\ actual[1] = "string"
           /\ actual[2] \notin c.expected[2]
      ELSE IF c.expected[1] = "strings" THEN Among(actual, c.expected[2])
      ELSE actual = c.expected

matchesConditions(when, assessment, state) ==
  \A c \in when : matchesCondition(c, assessment, state)

-----------------------------------------------------------------------------
\* The rules of a policy

Matching(rules, assessment, state) ==
  {i \in DOMAIN rules : matchesConditions(rules[i].when, assessment, state)}

\* Mutant of Precedes: rules are taken in the order the policy lists them.
PrecedesAsListed(rules, i, j) == i <= j

\* The order in which a stable sort by priority puts rules i and j.
Precedes(rules, i, j) ==
  \/ rules[i].priority < rules[j].priority
  \/ rules[i].priority = rules[j].priority /\ i <= j

\* Mutant of findFirstMatchingRule: only the rule that comes first is tried.
firstRuleIfItMatches(rules, assessment, state) ==
  LET first == CHOOSE i \in DOMAIN rules : \A j \in DOMAIN rules : Precedes(rules, i, j)
  IN  IF first \in Matching(rules, assessment, state) THEN <<rules[first]>> ELSE << >>

\* The rule that decides, as a sequence: empty when the router throws
\* RoutingPolicyError.
findFirstMatchingRule(rules, assessment, state) ==
  LET M == Matching(rules, assessment, state)
  IN  IF M = {} THEN << >>
      ELSE <<rules[CHOOSE i \in M : \A j \in M : Precedes(rules, i, j)]>>

\* The ids of the fallback rules that match, in the policy's order; none of
\* them is the text "Escalate to strong if ...".
buildFallbackText(policy, assessment, state) ==
  LET rules == policy.fallback_rules
      matching == Matching(rules, assessment, state)
  IN  [k \in 1..Cardinality(matching) |-> rules[Nth(matching, k)].id]

RouteValues(key) ==
  IF key = "model_class" THEN MODEL_CLASSES ELSE BOOLEAN

ValidRuleSet(rules, key) ==
  /\ rules # << >>
  /\ \A i, j \in DOMAIN rules : rules[i].id = rules[j].id => i = j
  /\ \A i \in DOMAIN rules :
       /\ rules[i].route[1] = key
       /\ rules[i].route[2] \in RouteValues(key)

ValidPolicy(policy) ==
  /\ ValidRuleSet(policy.model_rules, "model_class")
  /\ ValidRuleSet(policy.delegation_rules, "delegate")
  /\ ValidRuleSet(policy.review_rules, "add_reviewer")

\* Every provider of a valid catalog offers every model class.
ValidCatalog(catalog) ==
  /\ catalog.default_provider \in MODEL_PROVIDERS
  /\ catalog.default_provider \in catalog.providers
  /\ catalog.providers \subseteq MODEL_PROVIDERS

-----------------------------------------------------------------------------
\* One route

\* The RouteState after each of the three searches.
stateAfterModel(modelRule) == [model_class |-> <<"string", modelRule.route[2]>>]

\* Mutant of stateAfterDelegation: the review rules do not see the delegation.
stateWithoutDelegation(modelRule, delegationRule) == stateAfterModel(modelRule)

stateAfterDelegation(modelRule, delegationRule) ==
  [model_class |-> <<"string", modelRule.route[2]>>,
   delegate |-> <<"boolean", delegationRule.route[2]>>]

stateAfterReview(modelRule, delegationRule, reviewRule) ==
  [model_class |-> <<"string", modelRule.route[2]>>,
   delegate |-> <<"boolean", delegationRule.route[2]>>,
   add_reviewer |-> <<"boolean", reviewRule.route[2]>>]

\* A RouteDecision when the provider offers models.
Decision(policy, assessment, provider, m, d, r) ==
  [model_class |-> m.route[2],
   provider |-> provider,
   delegate |-> d.route[2],
   add_reviewer |-> r.route[2],
   matched_rules |-> <<m.id, d.id, r.id>>,
   fallback |-> buildFallbackText(policy, assessment, stateAfterReview(m, d, r))]

\* routeConfiguredTask, as a sequence: << >> when it throws.  A provider that
\* the catalog does not have throws after the rules have been searched.
routeConfiguredTask(policy, catalog, assessment, provider) ==
  LET m == findFirstMatchingRule(policy.model_rules, assessment, << >>)
      d == findFirstMatchingRule(policy.delegation_rules, assessment,
                                 stateAfterModel(m[1]))
      r == findFirstMatchingRule(policy.review_rules, assessment,
                                 stateAfterDelegation(m[1], d[1]))
  IN  IF m = << >> THEN << >>
      ELSE IF d = << >> THEN << >>
      ELSE IF r = << >> THEN << >>
      ELSE IF provider \notin catalog.providers THEN << >>
      ELSE <<Decision(policy, assessment, provider, m[1], d[1], r[1])>>
===============================================================================
