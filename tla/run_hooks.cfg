SPECIFICATION Spec
CONSTANTS
  NaN = NaN
  NumWorkers = 2
  Independent = {1, 2}
  HasReviewer = TRUE
  MaxAttempts = 2
  MaxConcurrency = 2
  RetryDelays = {"timer"}
  FatalErrors = {}
  WorkerTimeout = FALSE
  ReviewerTimeout = FALSE
  OperationOutcomes <- HookOutcomes
  HooksMayThrow = TRUE
  HasStore = TRUE
INVARIANTS TypeOK EventsEndWithResults
PROPERTIES KeepsContract
