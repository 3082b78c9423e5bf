SPECIFICATION FairRunSpec
CONSTANTS
  NaN = NaN
  NumWorkers = 1
  Independent = {}
  HasReviewer = FALSE
  MaxAttempts = 2
  MaxConcurrency = 1
  RetryDelays = {"none"}
  FatalErrors = {}
  WorkerTimeout = TRUE
  ReviewerTimeout = FALSE
  OperationOutcomes <- ExecutorOutcomes
  HooksMayThrow = FALSE
  HasStore = FALSE
  Setups <- SmallSetups
  Widths = {1, 3}
  MaxChunks = 2
  Responses = {200, 400, 429}
INVARIANTS CallTypes SuccessIsWhole LimitIsExact NobodyWorksUnaware
PROPERTIES RepeatsAreWorthwhile IsARun AbortSettlesCalls
