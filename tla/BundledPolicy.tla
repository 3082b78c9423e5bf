---------------------------- MODULE BundledPolicy ----------------------------
(***************************************************************************)
(* DEFAULT_ROUTING_POLICY and DEFAULT_MODEL_CATALOG, the configuration     *)
(* that router-core is shipped with, and the decisions that its            *)
(* documentation (routing/base-routing-policy.md) promises of it.          *)
(***************************************************************************)
EXTENDS RoutingRules

Is(key, strings) ==
  [key |-> key, negated |-> FALSE, expected |-> <<"strings", strings>>]
IsNot(key, strings) ==
  [key |-> key, negated |-> TRUE, expected |-> <<"strings", strings>>]
Holds(key, value) ==
  [key |-> key, negated |-> FALSE, expected |-> <<"boolean", value>>]
Below(key, value) ==
  [key |-> key, negated |-> FALSE, expected |-> <<"number", value>>]

Rule(id, priority, when, key, value) ==
  [id |-> id, priority |-> priority, when |-> when, route |-> <<key, value>>]

model_rules ==
  LET use(id, priority, when, class) ==
        Rule(id, priority, when, "model_class", class)
  IN  <<use("high_risk_uses_strong", 10, {Is("risk", {"high"})}, "strong"),
        use("deep_debugging_uses_strong", 20,
            {Is("task_type", {"debugging"}), Is("complexity", {"medium", "high"})},
            "strong"),
        use("high_complexity_planning_uses_strong", 30,
            {Is("task_type", {"planning"}), Is("complexity", {"high"})}, "strong"),
        use("simple_low_risk_uses_small_fast", 40,
            {Is("complexity", {"low"}), Is("risk", {"low"}),
             IsNot("context_size", {"large"}), IsNot("tool_need", {"heavy"})},
            "small_fast"),
        use("default_uses_standard", 1000, {Holds("always", TRUE)}, "standard")>>

delegation_rules ==
  LET rule(id, priority, when, value) == Rule(id, priority, when, "delegate", value)
  IN  <<rule("low_complexity_does_not_delegate", 10, {Is("complexity", {"low"})}, FALSE),
        rule("non_parallel_work_does_not_delegate", 20,
             {Holds("parallelizable", FALSE)}, FALSE),
        rule("complex_parallel_work_delegates", 30,
             {Is("complexity", {"high"}), Holds("parallelizable", TRUE),
              Holds("requires_subagents", TRUE)}, TRUE),
        rule("default_no_delegation", 1000, {Holds("always", TRUE)}, FALSE)>>

review_rules ==
  LET rule(id, priority, when, value) == Rule(id, priority, when, "add_reviewer", value)
  IN  <<rule("high_risk_adds_reviewer", 10, {Is("risk", {"high"})}, TRUE),
        rule("delegated_work_adds_reviewer", 20, {Holds("delegate", TRUE)}, TRUE),
        rule("default_no_reviewer", 1000, {Holds("always", TRUE)}, FALSE)>>

\* No assessment and no RouteState has the keys of the last two.
fallback_rules ==
  <<[id |-> "low_confidence_escalates", when |-> {Below("confidence_below", 60)}],
    [id |-> "verification_failure_escalates",
     when |-> {Holds("verification_failed", TRUE)}],
    [id |-> "conflicting_requirements_ask_user",
     when |-> {Holds("requirements_conflict", TRUE)}]>>

DEFAULT_ROUTING_POLICY ==
  [model_rules |-> model_rules,
   delegation_rules |-> delegation_rules,
   review_rules |-> review_rules,
   fallback_rules |-> fallback_rules]

DEFAULT_MODEL_CATALOG ==
  [default_provider |-> "openai_codex", providers |-> MODEL_PROVIDERS]

-----------------------------------------------------------------------------
\* The documentation's rules 1 to 5 and A to D, "apply rules from top to bottom".

DocumentedModel(a) ==
  IF a.risk = "high" THEN "strong"
  ELSE IF a.task_type = "debugging" /\ a.complexity \in {"medium", "high"}
  THEN "strong"
  ELSE IF a.task_type = "planning" /\ a.complexity = "high" THEN "strong"
  ELSE IF /\ a.complexity = "low" /\ a.risk = "low"
          /\ a.context_size # "large" /\ a.tool_need # "heavy"
  THEN "small_fast"
  ELSE "standard"

DocumentedDelegation(a) ==
  IF a.complexity = "low" THEN FALSE
  ELSE a.complexity = "high" /\ a.parallelizable /\ a.requires_subagents

\* Rule D, and what example 2 adds: delegated work is reviewed.
DocumentedReview(a) == a.risk = "high" \/ DocumentedDelegation(a)

\* What is known of the fallbacks when the route is decided: "classifier
\* confidence is below 0.6".
DocumentedFallback(a) ==
  IF a.confidence < 60 THEN {"low_confidence_escalates"} ELSE {}
==============================================================================
