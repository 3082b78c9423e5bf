SPECIFICATION Spec
CONSTANTS
  NaN = NaN
  NumWorkers = 1
  Independent = {}
  HasReviewer = FALSE
  MaxAttempts = NaN
  MaxConcurrency = 4
  RetryDelays = {"none"}
  FatalErrors = {}
  WorkerTimeout = FALSE
  ReviewerTimeout = FALSE
  OperationOutcomes <- BasicOutcomes
  HooksMayThrow = FALSE
  HasStore = FALSE
INVARIANTS RetryLoopReturns
