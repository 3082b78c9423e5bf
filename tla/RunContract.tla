----------------------------- MODULE RunContract -----------------------------
(***************************************************************************)
(* What runExecutionPlan promises its caller, with everything between the  *)
(* call and the answer hidden: no attempts, races, timers, retries, pool   *)
(* or events.                                                              *)
(*                                                                         *)
(* The run is refused or starts; each brief is reported once, after every  *)
(* brief of the earlier groups; when all are reported the overall status   *)
(* is fixed; the log entry, when there is a store, is written once and     *)
(* before the caller is answered.  A run may also be abandoned, and then   *)
(* its promise is rejected and no entry is ever written.                   *)
(***************************************************************************)
EXTENDS RunBriefs, Sequences

CONSTANT HasStore   \* is there an execution_log_store?

VARIABLES
  phase,    \* how far the run is, as its caller sees it
  status,   \* the status of the ExecutionRunResult, "none" before it is built
  log,      \* the statuses of the entries this run appended
  result    \* the status each brief was reported with, "none" before

vars == <<phase, status, log, result>>

Statuses == {"succeeded", "failed", "cancelled", "timed_out"}
RunStatuses == {"completed", "failed", "cancelled", "timed_out"}

Reported(b) == result[b] # "none"
Some(s) == \E b \in Briefs : result[b] = s

\* One cancelled brief makes the run cancelled; failing that one that timed
\* out makes it timed_out; a run is completed only when every brief succeeded.
Fits(s) ==
  /\ s = "cancelled" <=> Some("cancelled")
  /\ s = "timed_out" <=> Some("timed_out") /\ ~Some("cancelled")
  /\ s = "completed" <=> \A b \in Briefs : result[b] = "succeeded"

Init ==
  /\ phase = "start"
  /\ status = "none"
  /\ log = << >>
  /\ result = [b \in Briefs |-> "none"]

Open ==
  /\ phase = "start"
  /\ phase' \in {"running", "rejected"}
  /\ UNCHANGED <<status, log, result>>

Report(b) ==
  /\ phase \in {"running", "rejected"}
  /\ ~Reported(b)
  /\ \A c \in Briefs : c < b => SameGroup(c, b) \/ Reported(c)
  /\ \E s \in Statuses : result' = [result EXCEPT ![b] = s]
  /\ UNCHANGED <<phase, status, log>>

Conclude ==
  /\ phase = "running"
  /\ \A b \in Briefs : Reported(b)
  /\ status' \in {s \in RunStatuses : Fits(s)}
  /\ phase' = IF HasStore THEN "appending" ELSE "resolved"
  /\ UNCHANGED <<log, result>>

Store ==
  /\ phase = "appending"
  /\ log' = Append(log, status)
  /\ phase' = "resolved"
  /\ UNCHANGED <<status, result>>

Abandon ==
  /\ phase \in {"running", "appending"}
  /\ phase' = "rejected"
  /\ UNCHANGED <<status, log, result>>

Next ==
  \/ Open
  \/ \E b \in Briefs : Report(b)
  \/ Conclude
  \/ Store
  \/ Abandon

Spec == Init /\ [][Next]_vars
==============================================================================
