SPECIFICATION Spec
CONSTANTS
  NaN = NaN
  NumWorkers = 2
  Independent = {}
  HasReviewer = FALSE
  MaxAttempts = 1
  MaxConcurrency = 4
  RetryDelays = {"none"}
  FatalErrors = {}
  WorkerTimeout = TRUE
  ReviewerTimeout = FALSE
  OperationOutcomes <- FinalOutcomes
  HooksMayThrow = FALSE
  HasStore = FALSE
INVARIANTS DependentOperationsAlone
