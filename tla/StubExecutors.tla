---------------------------- MODULE StubExecutors ----------------------------
(***************************************************************************)
(* executor-mock, executor-devin and executor-claude-code: a call answers  *)
(* at once, with the status the mock was made with or, of the other two,   *)
(* a failure that says that the executor is not supported yet.             *)
(*                                                                         *)
(* setup.status is options.worker_status, "succeeded" when it is not given *)
(* and for a review that passed.                                           *)
(***************************************************************************)
EXTENDS ExecutorCalls

\* createWorkerResult and createReviewResult, or the unsupported results.
stubStatus == IF setup.executor = "mock" THEN setup.status ELSE "failed"

Start(c) ==
  /\ calls[c].peer = "none"
  /\ calls' = [calls EXCEPT ![c].peer = "closed", ![c].ended = TRUE,
                            ![c].code = IF stubStatus = "succeeded" THEN 0 ELSE 1,
                            ![c].answer = "resolved"]

\* No stub classifies a failure.
outcome(r) == executorResult(stubStatus, FALSE)
==============================================================================
