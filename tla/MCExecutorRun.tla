---------------------------- MODULE MCExecutorRun ----------------------------
(***************************************************************************)
(* A small instance of ExecutorRun for TLC.                                *)
(***************************************************************************)
EXTENDS ExecutorRun

\* Limits of half a byte, which is none, of one and a half, which is one, and of two.
SmallSetups ==
  {[executor |-> "codex", limit |-> 1], [executor |-> "codex", limit |-> 3],
   [executor |-> "codex", limit |-> 4],
   [executor |-> "api", limit |-> 3], [executor |-> "dry_run", limit |-> 0],
   [executor |-> "api_without_key", limit |-> 0],
   [executor |-> "devin", limit |-> 0], [executor |-> "claude_code", limit |-> 0]}
  \cup {[executor |-> "mock", limit |-> 0, status |-> s] : s \in Statuses}
==============================================================================
