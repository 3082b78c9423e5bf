SPECIFICATION Spec
CONSTANTS
  NaN = NaN
  NumWorkers = 1
  Independent = {}
  HasReviewer = FALSE
  MaxAttempts = 2
  MaxConcurrency = 4
  RetryDelays = {"none"}
  FatalErrors = {}
  WorkerTimeout = FALSE
  ReviewerTimeout = FALSE
  OperationOutcomes <- BasicOutcomes
  HooksMayThrow = TRUE
  HasStore = FALSE
PROPERTIES FatalFailuresDoNotRetry
