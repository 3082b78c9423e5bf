SPECIFICATION FairSpec
CHECK_DEADLOCK FALSE
CONSTANTS
  TaskTypes = {"planning"}
  Confidences = {60}
  SubtaskCounts = {0, 2}
  Configurations <- BothConfigurations
  Requests <- SomeRequests
  BodyLimits = {1, 4, 7}
  Timeout = 2
INVARIANTS HttpTypes AnswersAreExplained BodyIsBounded AnsweredInTime FrontEndsAgree
PROPERTIES LateAnswersChangeNothing EveryRequestIsAnswered
