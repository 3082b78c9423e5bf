----------------------------- MODULE ExecutorRun -----------------------------
(***************************************************************************)
(* A run of RunExecutionPlan with an executor of this repository in it: an *)
(* attempt that is launched is a call of the executor, the signal that the *)
(* runner aborts is the one the call listens to, and what the promise of   *)
(* the call settles with is what the operation settles with.               *)
(***************************************************************************)
EXTENDS RunExecutionPlan

CONSTANTS Setups, Widths, MaxChunks, Responses

VARIABLES setup, calls

\* An attempt of a brief.
Calls == Briefs \X (1..AtLeastOne(MaxAttempts))

Codex == INSTANCE CodexExecutor
Api == INSTANCE ApiExecutor
Stub == INSTANCE StubExecutors

runVariables == <<setup, calls, vars>>
UsesCodex == setup.executor \in {"codex", "dry_run"}
UsesApi == setup.executor \in {"api", "api_without_key"}

\* What these executors may hand to the runner.
ExecutorOutcomes ==
  {Returned(s, FALSE) : s \in Statuses}
    \cup {Returned("failed", TRUE), Thrown("transient"), Thrown("limit")}

ASSUME ExecutorAssumption ==
  /\ MaxAttempts # NaN
  /\ ExecutorOutcomes \subseteq OperationOutcomes
  /\ \A s \in Setups : s.limit \in Int /\ (s.executor = "mock" => s.status \in Statuses)
  /\ Widths \subseteq Nat \ {0}
  /\ MaxChunks \in Nat
  /\ Responses \subseteq Nat
  /\ ~HooksMayThrow

outcome(c) ==
  IF UsesCodex THEN Codex!outcome(calls[c])
  ELSE IF UsesApi THEN Api!outcome(calls[c])
  ELSE Stub!outcome(calls[c])

Answered(c) == calls[c].answer # "pending"

-----------------------------------------------------------------------------
RunInit ==
  /\ Init
  /\ setup \in Setups
  /\ calls = [c \in Calls |-> Codex!NewCall]

StartCall(c) ==
  IF UsesCodex THEN Codex!Start(c) ELSE IF UsesApi THEN Api!Start(c) ELSE Stub!Start(c)

\* The calls in S hear that their signal is aborted.
AbortCalls(S) ==
  calls' = [c \in Calls |->
              IF c \notin S THEN calls[c]
              ELSE IF UsesCodex THEN Codex!afterAbort(calls[c])
              ELSE IF UsesApi THEN Api!afterAbort(calls[c])
              ELSE calls[c]]

\* The calls that a step of the runner launches, and the ones whose signal it
\* aborts: AbortSignal.any of the caller's and the attempt's.
Launched == {c \in Calls : c[2] \in live'[c[1]] \ live[c[1]]}
Signalled ==
  {c \in Calls :
     /\ c[2] \in live[c[1]]
     /\ \/ aborted' /\ ~aborted
        \/ c[2] \in timedOut'[c[1]] \ timedOut[c[1]]}

CallsFollow ==
  IF Launched # {} THEN \E c \in Launched : StartCall(c)
  ELSE AbortCalls(Signalled)

\* An operation that settles in its abort listener settles with its answer.
SettledByAbort ==
  \A c \in Signalled :
    c[2] \notin live'[c[1]] => Answered(c)' /\ race'[c[1]] = outcome(c)'

\* Node runs the continuation of a call that has settled before its next event.
Drained == \A c \in Calls : Answered(c) => c[2] \notin live[c[1]]

RunnerStep ==
  /\ Drained
  /\ Runtime
  /\ UNCHANGED setup
  /\ CallsFollow
  /\ SettledByAbort

AbortStep ==
  /\ Drained
  /\ Abort
  /\ CallsFollow
  /\ UNCHANGED setup

\* Mutant of Deliver: an answer that nobody waits for any more counts.
DeliverEarly ==
  \E c \in Calls :
    /\ Answered(c)
    /\ race' = [race EXCEPT ![c[1]] = outcome(c)]
    /\ UNCHANGED <<runVars, aborted, poolVars, pc, attempt, live, timedOut, error,
                   events, result>>
    /\ UNCHANGED <<setup, calls>>

\* The continuation of a call that has settled.
Deliver ==
  \E c \in Calls :
    /\ Answered(c)
    /\ OperationSettles(c[1], c[2], outcome(c))
    /\ UNCHANGED <<setup, calls>>

NodeStep ==
  /\ Drained
  /\ \E c \in Calls :
       \/ UsesCodex /\ Codex!NodeEvents(c)
       \/ UsesApi /\ Api!NodeEvents(c)
  /\ UNCHANGED <<setup, vars>>

PeerStep ==
  /\ \E c \in Calls :
       \/ UsesCodex /\ Codex!PeerEvents(c)
       \/ UsesApi /\ Api!PeerEvents(c)
  /\ UNCHANGED <<setup, vars>>

RunNext ==
  \/ RunnerStep
  \/ AbortStep
  \/ Deliver
  \/ NodeStep
  \/ PeerStep
  \/ Terminated /\ UNCHANGED <<setup, calls>>

RunSpec == RunInit /\ [][RunNext]_runVariables

\* As FairSpec, and Node delivers what has happened.  Nothing is assumed of
\* processes and servers.
FairRunSpec ==
  RunSpec /\ WF_runVariables(RunnerStep) /\ WF_runVariables(Deliver)
          /\ WF_runVariables(NodeStep)
-----------------------------------------------------------------------------
\* Properties

\* Every call has its type, and is made exactly for the attempts launched.
CallTypes ==
  \A c \in Calls :
    /\ calls[c].peer \in {"none", "running", "failed", "exited", "asked",
                          "responding", "complete", "broken", "closed"}
    /\ calls[c].code \in {-1, 0, 1, 401} \cup Responses
    /\ calls[c].bytes + Len(calls[c].unread) <= calls[c].written
    /\ calls[c].answer \in Codex!Answers
    /\ calls[c].peer = "none" => c[2] \notin live[c[1]]
    /\ c[2] \in live[c[1]] => c[2] <= attempt[c[1]]

\* The run with an executor in it is a run of RunExecutionPlan: whatever is
\* true of every run there is true with this executor.
IsARun == Spec

\* A brief succeeds only with the whole output of a peer that did its work: the
\* process exited with 0 and everything it wrote was read, or the server gave a
\* complete 2xx response; however the attempt raced its timer and the abort,
\* and whatever earlier attempts left behind.
SuccessIsWhole ==
  \A b \in Briefs :
    result[b] = "succeeded" =>
      LET r == calls[<<b, attempt[b]>>]
      IN  /\ r.answer = "resolved" /\ r.ended
          /\ r.code \in {0} \cup 200..299
          /\ r.bytes = r.written

\* What a brief is answered with is within the configured number of bytes, for
\* a process counted as the text it has become, and only what is beyond it is
\* refused for its size.
Size(r) == IF UsesCodex THEN r.width ELSE r.bytes
Allowed == IF setup.limit <= 0 THEN 2 * 1048576 ELSE setup.limit
LimitIsExact ==
  /\ \A b \in Briefs :
       result[b] # "none" /\ Returned(result[b], FALSE) = race[b] =>
         2 * Size(calls[<<b, attempt[b]>>]) <= Allowed
  /\ \A c \in Calls :
       calls[c].answer = "limit" =>
         2 * (Size(calls[c]) + calls[c].written - calls[c].bytes) > Allowed

\* "timeout terminates subprocesses/requests": a process or a request that is
\* still at work, and that no attempt is waiting for, has been told to stop.
\* What a retry, a later brief or the caller meets is never at work unaware.
Attended(c) == pc[c[1]] = "racing" /\ c[2] = attempt[c[1]]
NobodyWorksUnaware ==
  \A c \in Calls :
    calls[c].peer \in {"running", "asked", "responding"} /\ ~Attended(c) =>
      calls[c].told

\* Work is done again only when the attempt before timed out or may go well
\* another time: not after a process that failed, a request that was refused, or
\* an output that was too long.
WorthRepeating(r) ==
  \/ r.answer = "error"
  \/ r.answer = "resolved" /\ r.code \in {408, 409, 429} \cup 500..599
RepeatsAreWorthwhile ==
  [][\A c \in Calls :
       c[2] > 1 /\ calls[c].peer = "none" /\ calls'[c].peer # "none" =>
         c[2] - 1 \in timedOut[c[1]] \/ WorthRepeating(calls[<<c[1], c[2] - 1>>])]_runVariables

\* After the caller's abort every call settles, whatever process and server do,
\* but one whose process has exited and left its pipes to somebody else.
AbortSettlesCalls ==
  aborted ~> \A c \in Calls : c[2] \in live[c[1]] => calls[c].peer = "exited"
==============================================================================
