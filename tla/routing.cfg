SPECIFICATION Spec
CONSTANTS
  TaskTypes = {"debugging", "planning", "writing"}
  Confidences = {50, 60}
  SubtaskCounts = {0, 2}
  Configurations <- AllConfigurations
  Inputs <- AllInputs
  Rewrites <- SomeRewrites
INVARIANTS TypeOK DecisionsAreReproducible RefusalsAreExplained PlanFollowsRoute DecisionsAreDocumented
