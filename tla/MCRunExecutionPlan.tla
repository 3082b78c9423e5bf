-------------------------- MODULE MCRunExecutionPlan --------------------------
(***************************************************************************)
(* Small instances of RunExecutionPlan for TLC.                            *)
(***************************************************************************)
EXTENDS RunExecutionPlan

\* One success and one failure of each kind the policies tell apart.
BasicOutcomes ==
  {Returned("succeeded", FALSE), Returned("failed", TRUE), Returned("failed", FALSE),
   Thrown("transient"), Thrown("permanent")}

\* An operation that only ever succeeds, or fails for good.
FinalOutcomes == {Returned("succeeded", FALSE), Returned("failed", FALSE)}

\* An operation that succeeds or is worth another attempt.
RetryOutcomes == {Returned("succeeded", FALSE), Thrown("transient")}

\* One end of each kind that a hook may throw on: a success, a result that is
\* retried as long as it may be, and a result that is final.
HookOutcomes ==
  {Returned("succeeded", FALSE), Returned("failed", TRUE), Returned("timed_out", FALSE)}

\* Everything an operation may do, results that call themselves cancelled or
\* timed out and errors of the runner's own classes included.
AllOutcomes == Outcomes \ {Thrown("hook")}
===============================================================================
