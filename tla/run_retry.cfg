SPECIFICATION FairSpec
CONSTANTS
  NaN = NaN
  NumWorkers = 1
  Independent = {}
  HasReviewer = TRUE
  MaxAttempts = 2
  MaxConcurrency = 1
  RetryDelays = {"timer", "none"}
  FatalErrors = {"permanent"}
  WorkerTimeout = TRUE
  ReviewerTimeout = TRUE
  OperationOutcomes <- AllOutcomes
  HooksMayThrow = FALSE
  HasStore = FALSE
INVARIANTS EventsTellResults RetryLoopReturns OnlyDeadlinesAbandon
PROPERTIES RetriesAreJustified RunSettles AbortCancels
