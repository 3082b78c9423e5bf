--------------------------- MODULE RunExecutionPlan ---------------------------
(***************************************************************************)
(* One call of runExecutionPlan (executor-core): the groups of briefs, the *)
(* pool that runs a group, the attempts of each brief with their timeouts, *)
(* cancellation, retries and delays, the reviewer, the overall status and  *)
(* the append to the execution log.                                        *)
(*                                                                         *)
(* Node runs one piece of code at a time, and an await is where another    *)
(* piece may run.  Each action here is the code between two awaits.  The   *)
(* executor's operation, the caller's abort and the timers are what the    *)
(* pieces interleave with.  An operation that lost its race is not stopped *)
(* by the runner, it is only told: `live` keeps it until it settles.       *)
(*                                                                         *)
(* Abstracted: what prompts, outputs and messages say, how long a delay    *)
(* is (a delay is a timer, or none when it rounds to zero), the clock, the *)
(* run id and the redaction of the entry.  A reviewer's "passed" is        *)
(* "succeeded".  NaN is kept, because Math.max(1, Math.floor(NaN)) is NaN. *)
(***************************************************************************)
EXTENDS RunBriefs, FiniteSets, Sequences

CONSTANTS
  NaN,
  MaxAttempts,        \* retry_policy.max_attempts, rounded down
  MaxConcurrency,     \* concurrency_policy.max_concurrency, rounded down
  RetryDelays,        \* what a retry delay may be: "timer", "none" or both
  FatalErrors,        \* the errors that retry_policy.classify_error calls fatal
  WorkerTimeout,      \* is timeout_policy.worker_timeout_ms set?
  ReviewerTimeout,    \* is timeout_policy.reviewer_timeout_ms set?
  OperationOutcomes,  \* how an operation of the executor may settle
  HooksMayThrow,      \* may the caller's logger, redact, classify_error or random throw?
  HasStore            \* is there an execution_log_store?

Statuses == {"succeeded", "failed", "cancelled", "timed_out"}
RunStatuses == {"completed", "failed", "cancelled", "timed_out"}

\* ExecutorCancelledError; ExecutorOutputLimitError and UnsupportedExecutorError;
\* ExecutorTimeoutError; two errors of the provider; an error of a hook.
ErrorKinds == {"cancelled", "limit", "timeout", "transient", "permanent", "hook"}

\* What is not for classify_error to say.  "delay" is the error of a hook in the
\* retry delay of the catch block, which is not classified and ends the brief.
AlwaysFatal == {"cancelled", "limit", "delay"}

Returned(s, r) == [threw |-> FALSE, what |-> s, retryable |-> r]
Thrown(e) == [threw |-> TRUE, what |-> e, retryable |-> FALSE]
Unsettled == Returned("none", FALSE)

Outcomes ==
  {Returned(s, r) : s \in Statuses, r \in BOOLEAN}
    \cup {Thrown(e) : e \in ErrorKinds}

ASSUME PolicyAssumption ==
  /\ NaN \notin Int
  /\ MaxAttempts \in Int \cup {NaN}
  /\ MaxConcurrency \in Int \cup {NaN}
  /\ RetryDelays \subseteq {"timer", "none"} /\ RetryDelays # {}
  /\ FatalErrors \subseteq {"timeout", "transient", "permanent", "hook"}
  /\ WorkerTimeout \in BOOLEAN
  /\ ReviewerTimeout \in BOOLEAN
  /\ OperationOutcomes \subseteq Outcomes
  /\ HooksMayThrow \in BOOLEAN
  /\ HasStore \in BOOLEAN

VARIABLES
  phase,     \* "start", "running", "appending", then "resolved" or "rejected"
  status,    \* the status of the ExecutionRunResult, "none" before it is built
  log,       \* the statuses of the entries this run appended
  aborted,   \* input.signal.aborted
  first,     \* the group that runs is first..last
  last,
  next,      \* nextIndex of mapWithConcurrency
  ready,     \* workers of the pool that are about to look for a next brief
  pc,        \* where runWithPolicies is for each brief
  attempt,   \* its loop variable, 0 before the loop
  live,      \* the attempts whose operation has not settled
  race,      \* how the race of the latest attempt ended
  timedOut,  \* the attempts whose timeoutController has aborted
  error,     \* the error the catch block of runWithPolicies is handling
  events,    \* the events the logger got
  result     \* the status of the brief's result, "none" before

runVars == <<phase, status, log>>
poolVars == <<first, last, next, ready>>
briefVars == <<pc, attempt, live, race, timedOut, error, events, result>>
vars == <<runVars, aborted, poolVars, briefVars>>

-----------------------------------------------------------------------------
\* The policies

AtLeastOne(x) == IF x = NaN THEN NaN ELSE IF x < 1 THEN 1 ELSE x

\* The loop condition attempt <= maxAttempts, false for NaN.
WithinBudget(a) == MaxAttempts # NaN /\ a <= AtLeastOne(MaxAttempts)

\* How many workers mapWithConcurrency makes for the group i..j; a dependent
\* brief and the reviewer are awaited, which is a pool of one.
PoolSize(i, j) ==
  IF i \notin Independent THEN 1
  ELSE IF MaxConcurrency = NaN THEN 0
  ELSE IF AtLeastOne(MaxConcurrency) < j - i + 1 THEN AtLeastOne(MaxConcurrency)
  ELSE j - i + 1

HasTimeout(b) == IF IsReviewer(b) THEN ReviewerTimeout ELSE WorkerTimeout

Fatal(e) == e \in AlwaysFatal \cup FatalErrors

FailureStatus(e) ==
  IF e = "cancelled" THEN "cancelled"
  ELSE IF e = "timeout" THEN "timed_out"
  ELSE "failed"

Event(t, a) == [type |-> t, attempt |-> a]

\* runWithPolicies is between its first and its last step for brief b.
BusyPcs == {"racing", "settled", "caught", "delay", "restart"}
Busy == {b \in Briefs : pc[b] \in BusyPcs}

-----------------------------------------------------------------------------
Init ==
  /\ phase = "start"
  /\ status = "none"
  /\ log = << >>
  /\ aborted = FALSE
  /\ first = 1 /\ last = 0 /\ next = 1 /\ ready = 0
  /\ pc = [b \in Briefs |-> "idle"]
  /\ attempt = [b \in Briefs |-> 0]
  /\ live = [b \in Briefs |-> {}]
  /\ race = [b \in Briefs |-> Unsettled]
  /\ timedOut = [b \in Briefs |-> {}]
  /\ error = [b \in Briefs |-> "none"]
  /\ events = [b \in Briefs |-> << >>]
  /\ result = [b \in Briefs |-> "none"]

\* The two checks before the run starts: the executor supports the route, and
\* it can review if the plan has a reviewer.
Begin(supportsRoute, canReview) ==
  /\ phase = "start"
  /\ phase' = IF supportsRoute /\ (HasReviewer => canReview)
              THEN "running" ELSE "rejected"
  /\ UNCHANGED <<status, log, aborted, poolVars, briefVars>>

-----------------------------------------------------------------------------
\* Groups and the pool

\* Mutant of GroupDone: a group counts as done when its last brief has started.
GroupStarted == next > last

GroupDone == Busy = {} /\ (ready = 0 \/ next > last)

NextGroup ==
  /\ phase = "running"
  /\ GroupDone
  /\ \E j \in last + 1..NumBriefs :
       /\ EndsGroup(last + 1, j)
       /\ first' = last + 1
       /\ last' = j
       /\ next' = last + 1
       /\ ready' = PoolSize(last + 1, j)
  /\ UNCHANGED <<runVars, aborted, briefVars>>

\* Mutant of EnterAttempt: the signal is not looked at before the operation.
EnterAttemptUnchecked(b, a) ==
  /\ pc' = [pc EXCEPT ![b] = IF WithinBudget(a) THEN "racing" ELSE "unreachable"]
  /\ phase' = IF WithinBudget(a) THEN phase ELSE "rejected"
  /\ attempt' = [attempt EXCEPT ![b] = a]
  /\ live' = [live EXCEPT ![b] = IF WithinBudget(a) THEN @ \cup {a} ELSE @]
  /\ UNCHANGED <<timedOut, error>>

\* The head of the loop of runWithPolicies and the first lines of runAttempt:
\* out of budget the loop is left, an aborted signal throws before the
\* operation is called, and otherwise attempt a is launched, with a timeout
\* controller of its own.
EnterAttempt(b, a) ==
  LET launches == WithinBudget(a) /\ ~aborted
  IN  /\ pc' = [pc EXCEPT ![b] = IF ~WithinBudget(a) THEN "unreachable"
                                 ELSE IF aborted THEN "caught" ELSE "racing"]
      /\ phase' = IF WithinBudget(a) THEN phase ELSE "rejected"
      /\ attempt' = [attempt EXCEPT ![b] = a]
      /\ error' = [error EXCEPT ![b] = IF aborted THEN "cancelled" ELSE @]
      /\ live' = [live EXCEPT ![b] = IF launches THEN @ \cup {a} ELSE @]
      /\ UNCHANGED timedOut

\* Mutant of TakeBrief: the worker does not await the brief and goes on.
TakeBriefUnawaited ==
  /\ ready > 0
  /\ next <= last
  /\ next' = next + 1
  /\ EnterAttempt(next, 1)
  /\ events' = [events EXCEPT ![next] = <<Event("started", 1)>>]
  /\ UNCHANGED <<status, log, aborted, first, last, ready, race, result>>

\* A worker of the pool takes the next brief and starts it.  It goes on doing
\* so when another brief of the group has rejected the run.
TakeBrief ==
  /\ ready > 0
  /\ next <= last
  /\ next' = next + 1
  /\ ready' = ready - 1
  /\ EnterAttempt(next, 1)
  /\ events' = [events EXCEPT ![next] = <<Event("started", 1)>>]
  /\ UNCHANGED <<status, log, aborted, first, last, race, result>>

\* A hook throws while an event is emitted: redact and classify_error before the
\* logger is called, the logger when it has been given the event.
HeardOrNot(b, e) ==
  \/ UNCHANGED events
  \/ events' = [events EXCEPT ![b] = Append(@, e)]

\* The same, with a hook that throws on the started event.
StartThrows ==
  /\ HooksMayThrow
  /\ ready > 0
  /\ next <= last
  /\ next' = next + 1
  /\ ready' = ready - 1
  /\ pc' = [pc EXCEPT ![next] = "threw"]
  /\ phase' = "rejected"
  /\ HeardOrNot(next, Event("started", 1))
  /\ UNCHANGED <<status, log, aborted, first, last, attempt, live, race,
                 timedOut, error, result>>

-----------------------------------------------------------------------------
\* The race of an attempt

\* An operation settles.  Only the operation of the attempt that is racing
\* has anybody waiting for it.
OperationSettles(b, a, o) ==
  /\ a \in live[b]
  /\ live' = [live EXCEPT ![b] = @ \ {a}]
  /\ IF pc[b] = "racing" /\ a = attempt[b]
     THEN /\ pc' = [pc EXCEPT ![b] = "settled"]
          /\ race' = [race EXCEPT ![b] = o]
     ELSE UNCHANGED <<pc, race>>
  /\ UNCHANGED <<runVars, aborted, poolVars, attempt, timedOut, error, events,
                 result>>

\* Mutant of TimerFires: the timer aborts the signal and rejects nothing.
TimerOnlyAborts(b) ==
  /\ pc[b] = "racing"
  /\ HasTimeout(b)
  /\ timedOut' = [timedOut EXCEPT ![b] = @ \cup {attempt[b]}]
  /\ UNCHANGED <<runVars, aborted, poolVars, pc, attempt, live, race, error,
                 events, result>>

\* Mutant of TimerFires: the timer rejects and does not abort the signal.
TimerOnlyRejects(b) ==
  /\ pc[b] = "racing"
  /\ HasTimeout(b)
  /\ pc' = [pc EXCEPT ![b] = "settled"]
  /\ race' = [race EXCEPT ![b] = Thrown("timeout")]
  /\ UNCHANGED <<runVars, aborted, poolVars, attempt, live, timedOut, error, events,
                 result>>

\* The timer aborts the operation's signal and then rejects.  An operation may
\* settle in its abort listener, before the rejection, and win the race.
TimerFires(b) ==
  /\ pc[b] = "racing"
  /\ HasTimeout(b)
  /\ pc' = [pc EXCEPT ![b] = "settled"]
  /\ timedOut' = [timedOut EXCEPT ![b] = @ \cup {attempt[b]}]
  /\ \/ /\ race' = [race EXCEPT ![b] = Thrown("timeout")]
        /\ UNCHANGED live
     \/ /\ \E o \in OperationOutcomes : race' = [race EXCEPT ![b] = o]
        /\ live' = [live EXCEPT ![b] = @ \ {attempt[b]}]
  /\ UNCHANGED <<runVars, aborted, poolVars, attempt, error, events, result>>

\* Mutant of Abort: nobody listens to the signal.
AbortUnheard ==
  /\ ~aborted
  /\ aborted' = TRUE
  /\ UNCHANGED <<runVars, poolVars, briefVars>>

\* The caller aborts: the listeners of the racing attempts and of the retry
\* delays reject at once.
Abort ==
  /\ ~aborted
  /\ aborted' = TRUE
  /\ pc' = [b \in Briefs |-> IF pc[b] = "racing" THEN "settled"
                             ELSE IF pc[b] = "delay" THEN "caught"
                             ELSE pc[b]]
  /\ race' = [b \in Briefs |-> IF pc[b] = "racing" THEN Thrown("cancelled")
                               ELSE race[b]]
  /\ error' = [b \in Briefs |-> IF pc[b] = "delay" THEN "cancelled" ELSE error[b]]
  /\ UNCHANGED <<runVars, poolVars, attempt, live, timedOut, events, result>>

\* Mutant of AttemptThrows: the timeout is looked at before the caller's signal.
TimeoutBeforeAbort(b) ==
  /\ pc[b] = "settled"
  /\ race[b].threw
  /\ pc' = [pc EXCEPT ![b] = "caught"]
  /\ error' = [error EXCEPT ![b] = IF attempt[b] \in timedOut[b] THEN "timeout"
                                   ELSE IF aborted THEN "cancelled"
                                   ELSE race[b].what]
  /\ UNCHANGED <<runVars, aborted, poolVars, attempt, live, race, timedOut,
                 events, result>>

\* The catch block of runAttempt: it reads the caller's signal first, then the
\* timeout's, whatever lost or won the race.
AttemptThrows(b) ==
  /\ pc[b] = "settled"
  /\ race[b].threw
  /\ pc' = [pc EXCEPT ![b] = "caught"]
  /\ error' = [error EXCEPT ![b] = IF aborted THEN "cancelled"
                                   ELSE IF attempt[b] \in timedOut[b] THEN "timeout"
                                   ELSE race[b].what]
  /\ UNCHANGED <<runVars, aborted, poolVars, attempt, live, race, timedOut,
                 events, result>>

-----------------------------------------------------------------------------
\* The loop of runWithPolicies

\* The attempt has returned a result to runWithPolicies.
AttemptReturned(b) == pc[b] = "settled" /\ ~race[b].threw

\* Mutant of MayRetry: one attempt too many.
MayRetryOnceMore(b) ==
  /\ WithinBudget(attempt[b])
  /\ \/ AttemptReturned(b) /\ race[b].what # "succeeded" /\ race[b].retryable
     \/ pc[b] = "caught" /\ ~Fatal(error[b])

\* Mutant of MayRetry: every unsuccessful result is retried.
MayRetryAnyFailure(b) ==
  /\ WithinBudget(attempt[b] + 1)
  /\ \/ AttemptReturned(b) /\ race[b].what # "succeeded"
     \/ pc[b] = "caught" /\ ~Fatal(error[b])

\* The attempt is not the last and its end may be retried.
MayRetry(b) ==
  /\ WithinBudget(attempt[b] + 1)
  /\ \/ AttemptReturned(b) /\ race[b].what # "succeeded" /\ race[b].retryable
     \/ pc[b] = "caught" /\ ~Fatal(error[b])

\* The retry event, then retryDelay: without a wait it does not look at the
\* signal, with one it throws at once if the signal is aborted.  Its random hook
\* may throw, which in the try block is an error of the attempt.
Retry(b) ==
  /\ MayRetry(b)
  /\ events' = [events EXCEPT ![b] = Append(@, Event("retry", attempt[b]))]
  /\ \/ /\ "none" \in RetryDelays
        /\ pc' = [pc EXCEPT ![b] = "restart"]
        /\ UNCHANGED error
     \/ /\ "timer" \in RetryDelays
        /\ ~aborted
        /\ pc' = [pc EXCEPT ![b] = "delay"]
        /\ UNCHANGED error
     \/ /\ "timer" \in RetryDelays
        /\ aborted
        /\ pc' = [pc EXCEPT ![b] = "caught"]
        /\ error' = [error EXCEPT ![b] = "cancelled"]
     \/ /\ HooksMayThrow
        /\ pc' = [pc EXCEPT ![b] = "caught"]
        /\ error' = [error EXCEPT ![b] = IF pc[b] = "caught" THEN "delay" ELSE "hook"]
  /\ UNCHANGED <<runVars, aborted, poolVars, attempt, live, race, timedOut,
                 result>>

DelayEnds(b) ==
  /\ pc[b] = "delay"
  /\ pc' = [pc EXCEPT ![b] = "restart"]
  /\ UNCHANGED <<runVars, aborted, poolVars, attempt, live, race, timedOut,
                 error, events, result>>

NextAttempt(b) ==
  /\ pc[b] = "restart"
  /\ EnterAttempt(b, attempt[b] + 1)
  /\ UNCHANGED <<status, log, aborted, poolVars, race, events, result>>

\* Mutant of Finish: the result is returned without its event.
FinishUnheard(b, s) ==
  /\ result' = [result EXCEPT ![b] = s]
  /\ pc' = [pc EXCEPT ![b] = "done"]
  /\ ready' = ready + 1
  /\ UNCHANGED <<runVars, aborted, first, last, next, attempt, live, race,
                 timedOut, error, events>>

\* runWithPolicies emits its last event and returns; the worker of the pool
\* that awaited it goes on.
Finish(b, s) ==
  /\ events' = [events EXCEPT ![b] = Append(@, Event(s, attempt[b]))]
  /\ result' = [result EXCEPT ![b] = s]
  /\ pc' = [pc EXCEPT ![b] = "done"]
  /\ ready' = ready + 1
  /\ UNCHANGED <<runVars, aborted, first, last, next, attempt, live, race,
                 timedOut, error>>

\* A success, or a result that is not to be retried, is handed on as it is.
FinishReturned(b) ==
  /\ AttemptReturned(b)
  /\ ~MayRetry(b)
  /\ Finish(b, race[b].what)

\* The last error becomes a failure result.
FinishCaught(b) ==
  /\ pc[b] = "caught"
  /\ ~MayRetry(b)
  /\ Finish(b, FailureStatus(error[b]))

\* What is emitted of the end of the attempt.
EndEvent(b) ==
  Event(IF MayRetry(b) THEN "retry"
        ELSE IF pc[b] = "caught" THEN FailureStatus(error[b])
        ELSE race[b].what,
        attempt[b])

\* A hook that throws in the try block is handled as an error of the attempt.
HookThrowsInTry(b) ==
  /\ HooksMayThrow
  /\ AttemptReturned(b)
  /\ pc' = [pc EXCEPT ![b] = "caught"]
  /\ error' = [error EXCEPT ![b] = "hook"]
  /\ HeardOrNot(b, EndEvent(b))
  /\ UNCHANGED <<runVars, aborted, poolVars, attempt, live, race, timedOut,
                 result>>

\* One that throws in the catch block leaves runWithPolicies and rejects the
\* run; the worker of the pool that awaited the brief is gone.
HookThrowsInCatch(b) ==
  /\ HooksMayThrow
  /\ pc[b] = "caught"
  /\ pc' = [pc EXCEPT ![b] = "threw"]
  /\ phase' = "rejected"
  /\ HeardOrNot(b, EndEvent(b))
  /\ UNCHANGED <<status, log, aborted, poolVars, attempt, live, race, timedOut,
                 error, result>>

-----------------------------------------------------------------------------
\* The end of the run

\* Mutant of executionStatus: a timeout hides a cancellation.
TimeoutBeforeCancelled ==
  LET statuses == {result[b] : b \in Briefs}
  IN  IF "timed_out" \in statuses THEN "timed_out"
      ELSE IF "cancelled" \in statuses THEN "cancelled"
      ELSE IF "failed" \in statuses THEN "failed"
      ELSE "completed"

\* Mutant of executionStatus: a run takes over the status of its briefs.
BriefStatus ==
  IF \E b \in Briefs : result[b] # "succeeded" THEN "failed" ELSE "succeeded"

\* The status of the run, over all workers and the reviewer.
executionStatus ==
  LET statuses == {result[b] : b \in Briefs}
  IN  IF "cancelled" \in statuses THEN "cancelled"
      ELSE IF "timed_out" \in statuses THEN "timed_out"
      ELSE IF "failed" \in statuses THEN "failed"
      ELSE "completed"

AllGroupsDone == phase = "running" /\ GroupDone /\ last = NumBriefs

\* The results are put together.  With a concurrency cap of NaN a group leaves
\* holes, and reading the status of a hole throws.
Conclude ==
  /\ AllGroupsDone
  /\ IF \E b \in Briefs : result[b] = "none"
     THEN phase' = "rejected" /\ UNCHANGED status
     ELSE /\ phase' = IF HasStore THEN "appending" ELSE "resolved"
          /\ status' = executionStatus
  /\ UNCHANGED <<log, aborted, poolVars, briefVars>>

\* The redact hook throws while the entry is built.
ConcludeThrows ==
  /\ HooksMayThrow
  /\ HasStore
  /\ AllGroupsDone
  /\ phase' = "rejected"
  /\ UNCHANGED <<status, log, aborted, poolVars, briefVars>>

AppendEntry ==
  /\ phase = "appending"
  /\ log' = Append(log, status)
  /\ phase' = "resolved"
  /\ UNCHANGED <<status, aborted, poolVars, briefVars>>

\* The store fails: the run rejects although every brief has its result.
AppendFails ==
  /\ phase = "appending"
  /\ phase' = "rejected"
  /\ UNCHANGED <<status, log, aborted, poolVars, briefVars>>

-----------------------------------------------------------------------------
\* What Node's event loop runs sooner or later.
Runtime ==
  \/ \E supportsRoute, canReview \in BOOLEAN : Begin(supportsRoute, canReview)
  \/ NextGroup
  \/ TakeBrief
  \/ StartThrows
  \/ \E b \in Briefs :
       \/ TimerFires(b)
       \/ AttemptThrows(b)
       \/ Retry(b)
       \/ DelayEnds(b)
       \/ NextAttempt(b)
       \/ FinishReturned(b)
       \/ FinishCaught(b)
       \/ HookThrowsInTry(b)
       \/ HookThrowsInCatch(b)
  \/ Conclude
  \/ ConcludeThrows
  \/ AppendEntry
  \/ AppendFails

\* What is up to the executor and to the caller.
Environment ==
  \/ \E b \in Briefs : \E a \in live[b] : \E o \in OperationOutcomes :
       OperationSettles(b, a, o)
  \/ Abort

\* The run has been answered and nothing of it is left.
Terminated ==
  /\ phase \in {"resolved", "rejected"}
  /\ Busy = {}
  /\ UNCHANGED vars

Next == Runtime \/ Environment \/ Terminated

Spec == Init /\ [][Next]_vars

\* Timers fire, continuations run and the store answers.  Nothing is assumed
\* of the executor's operations or of the caller.
FairSpec == Spec /\ WF_vars(Runtime)
-----------------------------------------------------------------------------
\* Properties

\* Every variable has its type.
Events == [type : {"started", "retry"} \cup Statuses, attempt : Nat]

RunTypes ==
  /\ phase \in {"start", "running", "appending", "resolved", "rejected"}
  /\ status \in RunStatuses \cup {"none"}
  /\ log \in Seq(RunStatuses)
  /\ aborted \in BOOLEAN
PoolTypes == first \in Nat /\ last \in Nat /\ next \in Nat /\ ready \in Nat
LoopTypes ==
  /\ pc \in [Briefs -> BusyPcs \cup {"idle", "done", "threw", "unreachable"}]
  /\ attempt \in [Briefs -> Nat]
  /\ live \in [Briefs -> SUBSET Nat]
  /\ timedOut \in [Briefs -> SUBSET Nat]
  /\ error \in [Briefs -> ErrorKinds \cup {"none", "delay"}]
RaceTypes == race \in [Briefs -> Outcomes \cup {Unsettled}]
ResultTypes == result \in [Briefs -> Statuses \cup {"none"}]
EventTypes == events \in [Briefs -> Seq(Events)]

TypeOK ==
  RunTypes /\ PoolTypes /\ LoopTypes /\ RaceTypes /\ ResultTypes /\ EventTypes

\* A brief starts only when every brief of the earlier groups has its result:
\* dependent workers run one after the other, in the order of the plan, and the
\* reviewer after all workers, whatever was retried, timed out or cancelled.
PlanOrder ==
  \A b, c \in Briefs :
    b < c /\ pc[c] # "idle" => SameGroup(b, c) \/ result[b] # "none"

\* Never more briefs under way than max_concurrency, and one at a time when it
\* is not a number: a worker of the pool that finishes a brief hands its place
\* to one other.
Cap == IF MaxConcurrency = NaN THEN 1 ELSE AtLeastOne(MaxConcurrency)
ConcurrencyCap == Cardinality(Busy) <= Cap

\* Why both hold: the briefs split at first, next and last into those of the
\* earlier groups, those the group has started, those it has not, and the later
\* ones; and every worker of the pool is either ready or busy with one brief,
\* unless a hook that throws has taken it away and rejected the run.
Groups ==
  /\ 1 <= first /\ first <= next /\ next <= last + 1 /\ last <= NumBriefs
  /\ phase = "start" => last = 0
  /\ IF last = 0 THEN ready = 0 ELSE first <= last /\ EndsGroup(first, last)
Positions ==
  \A b \in Briefs :
    /\ pc[b] = "idle" => b < first \/ next <= b
    /\ next <= b => pc[b] = "idle"
    /\ b < first => pc[b] = "done" \/ (MaxConcurrency = NaN /\ b \notin Busy)
    /\ pc[b] = "done" <=> result[b] # "none"
    /\ pc[b] \in {"threw", "unreachable"} => phase = "rejected"
PoolCount ==
  /\ Cardinality(Busy) + ready <= IF last = 0 THEN 0 ELSE PoolSize(first, last)
  /\ phase = "running" /\ last > 0 => Cardinality(Busy) + ready = PoolSize(first, last)
PoolInv == Groups /\ Positions /\ PoolCount

\* Without hooks that throw, what the logger hears of a brief is one started
\* event, one retry event for each attempt that is followed by another (or by an
\* abandoned delay), and, exactly when the brief has a result, one last event of
\* the result's status.
EventStream(b) ==
  LET e == events[b]
      n == Len(events[b])
  IN  /\ pc[b] \in BusyPcs => n > 0
      /\ \A i \in 1..n :
           /\ e[i].type = "started" <=> i = 1
           /\ i = 1 => e[i].attempt = 1
           /\ e[i].type = "retry" => e[i].attempt = i - 1
           /\ e[i].type \in Statuses =>
                i = n /\ e[i].attempt \in {n - 2, n - 1} /\ result[b] = e[i].type
      /\ result[b] # "none" => n > 1 /\ e[n].type = result[b]
EventsTellResults == \A b \in Briefs : EventStream(b)

\* With hooks that throw the logger may hear an end and then a retry of the same
\* attempt, or an end of a brief that has no result.  It can still rely on this:
\* the one started event is the first, the attempts come in their order, no attempt
\* but the last is without its retry event, and the result of a brief is the last
\* thing it hears of it.
HeardInOrder(b) ==
  LET e == events[b]
      n == Len(events[b])
  IN  /\ pc[b] \in BusyPcs => n > 0
      /\ \A i \in 1..n : e[i].type = "started" <=> i = 1
      /\ \A i \in 1..n : e[i].attempt = 1 \/ e[i].attempt <= attempt[b]
      /\ \A i, j \in 1..n : i <= j => e[i].attempt <= e[j].attempt
      /\ \A a \in 1..attempt[b] - 1 : \E i \in 1..n : e[i] = Event("retry", a)
      /\ result[b] # "none" => n > 1 /\ e[n] = Event(result[b], attempt[b])
EventsEndWithResults == \A b \in Briefs : HeardInOrder(b)

\* A brief is tried again only after an attempt that may be retried: a success,
\* a fatal result and a fatal error are final, through timeouts, delays and
\* cancellations.
LastAttemptRetryable(b) ==
  IF ~race[b].threw
  THEN race[b].what # "succeeded" /\ race[b].retryable
  ELSE ~Fatal(IF attempt[b] \in timedOut[b] THEN "timeout" ELSE race[b].what)
RetriesAreJustified ==
  [][\A b \in Briefs :
       attempt[b] > 0 /\ attempt'[b] # attempt[b] => LastAttemptRetryable(b)]_vars

\* From the abort on no operation is launched: not by a later brief, not by a
\* retry, not by the reviewer.
NoLaunchAfterAbort ==
  [][aborted => \A b \in Briefs : live'[b] \subseteq live[b]]_vars

\* The loop of runWithPolicies is never left at its end ("Unreachable retry
\* state."): the attempt that uses up the budget always returns.
RetryLoopReturns == \A b \in Briefs : pc[b] # "unreachable"

\* An operation runs without anybody waiting for it only if it has been told to
\* stop: by the caller's abort or by the timer of its own attempt, whatever became
\* of the attempts after it.  Whoever waits does so for a running operation.
Abandoned(b) == live[b] \ (IF pc[b] = "racing" THEN {attempt[b]} ELSE {})
OnlyDeadlinesAbandon ==
  \A b \in Briefs :
    /\ pc[b] = "racing" => attempt[b] \in live[b]
    /\ aborted \/ Abandoned(b) \subseteq timedOut[b]

\* When the caller has its answer no brief is under way any more.
AnsweredRunIsQuiet == phase \in {"resolved", "rejected"} => Busy = {}

\* The run keeps its contract with the caller: results in group order and never
\* revised, the overall status decided by all of them, one log entry with that
\* status before the answer, none for a run that rejects.
Contract == INSTANCE RunContract
KeepsContract == Contract!Spec

\* With timeouts set every run is answered, even if no operation ever settles.
Settled == phase \in {"resolved", "rejected"}
RunSettles == <>Settled

\* Without them the caller can still end the run: an abort is followed by an
\* answer, whatever the executor does.
AbortSettles == aborted ~> Settled

\* A brief that the abort finds before its first attempt, in its race, between
\* two attempts or in a delay is reported cancelled.
Interrupted(b) ==
  /\ aborted
  /\ \/ pc[b] \in {"idle", "restart"}
     \/ pc[b] = "settled" /\ race[b].threw
     \/ pc[b] = "caught" /\ error[b] = "cancelled"
AbortCancels ==
  \A b \in Briefs :
    Interrupted(b) ~> (result[b] = "cancelled" \/ phase = "rejected")

\* What the test "keeps dependent workers sequential even when the concurrency
\* cap is higher" counts: executing operations, not briefs under way.
DependentOperationsAlone ==
  \A b, c \in Briefs :
    b < c /\ live[b] # {} /\ live[c] # {} => SameGroup(b, c)

\* "fatal failures do not retry": a result classified as fatal, or not
\* classified, is the last of its brief.
FatalFailuresDoNotRetry ==
  [][\A b \in Briefs :
       attempt[b] > 0 /\ attempt'[b] # attempt[b] =>
         race[b].threw \/ race[b].what = "succeeded" \/ race[b].retryable]_vars
===============================================================================
