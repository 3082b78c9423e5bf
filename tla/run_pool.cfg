SPECIFICATION FairSpec
CONSTANTS
  NaN = NaN
  NumWorkers = 4
  Independent = {2, 3, 4}
  HasReviewer = TRUE
  MaxAttempts = 2
  MaxConcurrency = 2
  RetryDelays = {"none"}
  FatalErrors = {}
  WorkerTimeout = FALSE
  ReviewerTimeout = FALSE
  OperationOutcomes <- RetryOutcomes
  HooksMayThrow = FALSE
  HasStore = FALSE
INVARIANTS PoolInv PlanOrder ConcurrencyCap AnsweredRunIsQuiet
PROPERTIES NoLaunchAfterAbort AbortSettles
