------------------------------ MODULE MCRouting ------------------------------
EXTENDS Routing, BundledPolicy, SequencesExt

\* The shipped configuration.
Bundled == [policy |-> DEFAULT_ROUTING_POLICY, catalog |-> DEFAULT_MODEL_CATALOG]

\* The shipped rules, listed the other way round, with one provider.
Rearranged ==
  [policy |-> [model_rules |-> Reverse(model_rules),
               delegation_rules |-> Reverse(delegation_rules),
               review_rules |-> Reverse(review_rules),
               fallback_rules |-> Reverse(fallback_rules)],
   catalog |-> [default_provider |-> "anthropic_claude",
                providers |-> {"anthropic_claude"}]]

\* A policy that passes the validation and has no delegation rule for all.
Partial ==
  [Bundled EXCEPT !.policy.delegation_rules = SubSeq(delegation_rules, 1, 3)]

\* One that does not: two rules with the same id.
Ambiguous ==
  [Bundled EXCEPT !.policy.review_rules = review_rules \o review_rules]

AllConfigurations == {Bundled, Rearranged, Partial, Ambiguous}

\* Every combination of what the shipped rules look at, and one assessment
\* that the schema refuses.
SchemaInputs ==
  {a \in TaskAssessments(SubtaskCounts) :
     a.context_size # "medium" /\ a.tool_need # "light"}
Malformed(a) == [a EXCEPT !.complexity = "extreme"]
Sample ==
  [task_type |-> "planning", complexity |-> "high", risk |-> "low",
   context_size |-> "large", tool_need |-> "none", parallelizable |-> TRUE,
   requires_subagents |-> TRUE, confidence |-> 60, suggested_subtasks |-> 2]
AllInputs == SchemaInputs \cup {Malformed(Sample)}
SomeRewrites ==
  {[Sample EXCEPT !.suggested_subtasks = 0], [Sample EXCEPT !.risk = "high"],
   Malformed(Sample)}
-----------------------------------------------------------------------------
\* The rules are the shipped ones, in some order.
Rearranges(rules, shipped) ==
  DOMAIN rules = DOMAIN shipped /\ ToSet(rules) = ToSet(shipped)

ShippedRules ==
  /\ madeOf # << >>
  /\ LET policy == madeOf[1].policy
     IN  /\ Rearranges(policy.model_rules, model_rules)
         /\ Rearranges(policy.delegation_rules, delegation_rules)
         /\ Rearranges(policy.review_rules, review_rules)
         /\ Rearranges(policy.fallback_rules, fallback_rules)

\* With the shipped rules, in whatever order the policy lists them, the route
\* has the class, the delegation and the reviewer that the documentation gives
\* for the assessment, and warns of a confidence below 0.6.
DecisionsAreDocumented ==
  ShippedRules /\ route # << >> =>
    LET a == routedOn[1]
        d == route[1]
    IN  /\ d.model_class = DocumentedModel(a)
        /\ d.delegate = DocumentedDelegation(a)
        /\ d.add_reviewer = DocumentedReview(a)
        /\ ToSet(d.fallback) = DocumentedFallback(a)
==============================================================================
