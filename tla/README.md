# Garida: models, checks and proofs

Garida decides which model should do a task and runs the resulting plan. A task
is described by an assessment; `router-core` turns it into a route (model class,
delegation, reviewer) and a plan (worker briefs, maybe a reviewer brief);
`executor-core` runs the plan with an executor (codex, openai, anthropic, mock)
under retry, timeout and concurrency policies and appends an entry to an
execution log. This directory holds TLA+ models of that logic, the instances TLC
checks, and the theorems TLAPS proves. Paths below are relative to the
repository; line numbers of every definition are in `PROJECT.json` (`map`).

## 1. The system

| Component | State | Operations | What it shares | What makes it hard | What makes it correct |
|---|---|---|---|---|---|
| Plan runner, `packages/executor-core/src/run-execution-plan.ts`, `errors.ts` | per run: results; per pool: `nextIndex`; per brief: attempt, timer, abort listener, operation | `runExecutionPlan`, `mapWithConcurrency`, `runWithPolicies`, `runAttempt`, `retryDelay` | calls the executor, the logger, hooks, the store; shares the caller's signal | operations, timers and aborts interleave at every await; a lost operation goes on; hooks throw | order of briefs, cap, bounded and justified retries, one result and one last event for each brief, an answer, one entry before it, what an abort stops |
| Execution log, `execution-log.ts` | an array, or a JSONL file | `append`, `list`, `get` | the file, with other runs and processes | appends in pieces, torn lines, readers during writes | answers only grow, nothing made up, nothing acknowledged left out |
| Redaction, cost, report, `log-redaction.ts`, `cost.ts`, `eval-report.ts` | none | string and number functions | read the log | rounding | sums |
| Router, `packages/router-core/src/router.ts`, `rule-evaluator.ts`, `routing/*.json` | a frozen copy of policy and catalog | `createRouter`, `routeTask`, `prepareAgentExecution` | the caller's configuration and assessment objects | writes by the caller before and between awaits; rule order; partial policies | decisions reproducible and as documented; refusals have a reason |
| Assessments and plans, `validate-assessment.ts`, `execution-plan.ts` | none | `validateTaskAssessment`, `createExecutionPlan` | the assessment, the route | an assessment that changes between route and plan | a plan follows its route and always has a worker |
| CLI and loading, `cli.ts`, `load-json.ts`, `agent-runtime.ts` | none | argument parsing, file input | the default router | positions of arguments | agrees with the other front ends |
| Executors, `packages/executor-codex`, `-openai`, `-anthropic`, `-mock`, `-devin`, `-claude-code` | per call: bytes, chunks, `settled` | spawn a process, send a request, answer at once | the signal of the attempt | close, error, abort and output limit race; a process that ignores its signal; a connection that is cut | a success is whole and within the limit; nothing works on unaware; only what may go well is repeated |
| HTTP server, `packages/router-http` | per request: a timer, a body reader | `/v1/route`, `/v1/plan` | a router | a timeout for each stage; a reader and a router that outlive it; clients that stall or break off | one response, of the right class, in time; a bounded body |
| MCP server, `packages/router-mcp` | none | `route_task`, `prepare_execution` | a router | an input schema in front of the tools, and two orders of validation | errors mapped; agrees with the other front ends |
| Plugins, scripts, evaluations, examples | none | hand a prepared plan on | | | |

The parts meet in four places: a question goes from a front end (HTTP, MCP,
command line) to the router, a route and a plan go from the router to the
runner (the plugin and `routed-codex-runner.ts` only pass them on), an operation
goes from the runner to an executor, and an entry goes from the runner to the
store, whose `list()` feeds the report. `HttpServer`, `ExecutorRun` and the
refinements of the runner and the log are about these places.

## 2. The modules

| Module | Models | Kind |
|---|---|---|
| `RunBriefs` | the briefs of a plan and how they are cut into groups | constants and operators |
| `RunContract` | what a run promises its caller | abstract specification |
| `RunExecutionPlan` | one call of `runExecutionPlan` | specification |
| `RunExecutionPlan_proofs` | types, groups and pool of it, for all constants | theorems |
| `RunLoop_proofs` | attempts, retries and events of it, for all constants | theorems |
| `RunContract_proofs` | that it implements `RunContract` | theorem |
| `ExecutorCalls` | what calls of an executor have in common: chunks, limits, the first answer | operators |
| `CodexExecutor` | a call that runs a child process | actions on `ExecutorCalls` |
| `ApiExecutor` | a call that sends an HTTP request, of openai and of anthropic | actions on `ExecutorCalls` |
| `StubExecutors` | mock, devin and claude-code, which answer at once | actions on `ExecutorCalls` |
| `ExecutorRun` | a run of `RunExecutionPlan` with one of these executors in it | composition |
| `ExecutorRun_proofs` | that it is a run of `RunExecutionPlan`; what its calls answer and leave at work | theorems |
| `RoutingRules` | rule evaluation, choice, validation and the three decisions | operators |
| `BundledPolicy` | the shipped policy, and the decisions the documentation gives | data |
| `RouterCalls` | what a router answers, as functions | operators |
| `Routing` | a router, its calls, and a caller that writes to its objects | specification |
| `Routing_proofs` | types, reproducibility, refusals and plans, for all configurations; the shipped rules in any order | theorems |
| `Positions`, `Positions_proofs` | which elements `filter` keeps, and that it keeps their order | operator, lemmas |
| `FrontEnds` | the MCP tools and the command line, as functions | operators |
| `HttpServer` | a request of the HTTP adapter | specification |
| `HttpServer_proofs` | its bounds, its one answer and the answer's reasons, and that HTTP, MCP and the command line agree | theorems |
| `ExecutionLogStore` | the store in memory | abstract specification |
| `JsonlExecutionLog` | the store in a file | specification |
| `JsonlExecutionLog_proofs` | what it answers, and that it implements `ExecutionLogStore` | theorems |
| `MC...` | small instances for TLC | |

No module declares a RECURSIVE operator.

### The plan runner

JavaScript runs one piece of code at a time, from one `await` to the next; each
action of `RunExecutionPlan` is such a piece. A brief's `pc` says where its
`runWithPolicies` waits: `racing` (in `Promise.race`), `settled` (the race is
over and its continuation is queued), `caught` (in the catch block), `delay`,
`restart` (after the delay). `race` is how the race ended; `AttemptThrows` is the
catch block of `runAttempt`, which reads the caller's signal and the timeout's
only then. `live` is the set of attempts whose operation has not settled: an
operation that lost its race stays there, because nothing stops it or waits for it; `timedOut`
is the set of attempts whose timeout controller has aborted their signal.

`emit` redacts a message and hands it to the logger, so a hook that throws there may
do so before the logger has the event or, being the logger, when it has it: the
events of a step whose hook throws (`StartThrows`, `HookThrowsInTry`,
`HookThrowsInCatch`) are heard or not (`HeardOrNot`). A brief may therefore be told
to have failed and be tried again, or be told an ending and have no result. A
`random` hook that throws in a delay is an error of the attempt in the try block and,
in the catch block, the end of the brief (`Retry`).

The workers of `mapWithConcurrency` are interchangeable, so the pool is a number:
`ready` workers are about to read `nextIndex`, the others each await one busy
brief. A dependent brief and the reviewer are awaited, a pool of one. When a hook
throws out of `runWithPolicies`, `Promise.all` rejects and the caller is answered
(`phase = "rejected"`), but the other workers go on, as in the code.

`MaxAttempts` and `MaxConcurrency` are any integers, or `NaN`, a value of its own,
since `Math.max(1, Math.floor(NaN))` is `NaN` and every comparison with it false.
`Infinity` is not among them: as a cap it equals any cap above the number of briefs,
as a retry budget it has no last attempt.

Not modelled of the runner: the texts of results and messages; how long a timer
takes (each length is some interleaving; `Infinity` and lengths over 2^31 - 1 ms
are therefore included as "soon"); a clock that throws; changes the caller makes to
its input while the run is under way.

### The executors

`ExecutorRun` extends `RunExecutionPlan` and replaces its nondeterministic
operations by calls: an attempt that becomes `live` starts the call
`<<brief, attempt>>` (`StartCall`), the steps that abort the attempt's signal
(`TimerFires`, `Abort`) reach the calls that listen to it (`AbortCalls`), and an
operation settles (`Deliver`) only with what its call answered. A call stays a
call after its attempt has lost its race, so the process of a timed-out attempt
runs beside the retry, as it does in the program.

A call is a record: what the peer is doing, how many chunks it has sent and Node
has delivered, and the answer of the promise. A chunk is one byte; its width is
what the byte takes after decoding and encoding again, 3 where it becomes U+FFFD,
because `runCodexCommand` measures the text once more. Limits are in half bytes,
since `normalizeByteLimit` rounds 0.5 to 0. `settleOnce` also drops what has yet to
come: `appendChunk` and the `data` listener return at once after `settled`.

Three facts about Node are taken as they are. An aborted signal makes `spawn` send
SIGTERM and emit an error at once if the process is still there; after it has
exited, nothing. `close` follows `exit` when both pipes have ended, and they may be
held by a grandchild (`Close` is therefore the peer's step, without fairness). An
HTTP response that is cut emits `error` and never `end`, while one that was
received completely may still emit `end` when an abort has discarded its unread
part; the brief is then cancelled or timed out, which `SuccessIsWhole` checks.
`Drained` says that the continuation of a settled promise runs before the next
event. An abort is the runner's step and the call's at the same time, because the
listeners of the signal run in one go (`SettledByAbort`).

The two API executors have the same code between the request and its response,
each its own copy; `ApiExecutor` is one model of both, its definitions mapped to
either copy. Their differences (URL, headers, prompt, and how output and usage are
read from a body) are not modelled: a 2xx response whose body has another shape is
a success with an apology as its output.

### The front ends

`HttpServer` is one request. `ReadHead` is `readInput` up to its `await`;
`ReadChunk`, `CancelDone`, `BodyBreaks` and `BodyEnds` are the turns of
`readBodyText`, enabled whatever has become of the request, since `withTimeout`
stops waiting for its promise and nothing stops the reader; what they do for the
request is done only while it is in the stage `body`. `HandleBody` is everything
from there to the call of the router, which awaits nothing that takes time.
`RouterAnswers` answers with what `RouterCalls` gives for the configuration,
`RouterFails` is a router passed in `options.router` that throws something else.
A tick is a share of the timeout; the timer fires when it is due, though events
that are due with it may come first.

`FrontEnds` holds the tools of the MCP server with the schema they are registered
with and their two orders of validation, and the command line with its positions of
arguments: `filePath` skips the position behind a flag that is not there, which is
the first one, as the code does with its index of -1. Without `--` or a flag in front, a file name is therefore not seen and
the usage is printed; the usage itself says `--`, and `FrontEndsAgree` is about that
form only, so no property covers the skipped position.

`registeredTool` refuses an assessment that is no object (`NoObject` stands for every
such value) and a provider that is no string, as the SDK does with `toolInputSchema`
before the handler runs: the client hears of invalid parameters and none of Garida's
codes. HTTP takes any assessment (`z.unknown()`) and answers 422 to such a one. An
assessment that is missing altogether is not among the questions.

### The router

`RoutingRules` follows `matchesCondition` case by case, with values that carry
their type, because the code's answers depend on `typeof`. The order of rules is
that of a stable sort by priority. `routeConfiguredTask` is a sequence, empty when
the code throws. `Routing` has one action for each stretch between two awaits of
`prepareAgentExecution`, and two actions of the caller: it rewrites the
configuration object at any time, and the assessment between the stretches.
`createRouter` copies and freezes, `routeTask` takes the assessment unvalidated.

Not modelled: prices, texts, the version and description of a policy, and the
validator's checks of shapes that no configuration here has.

### The execution log

A line has three pieces, two of JSON and the line feed: enough for a line torn
before, inside and after its JSON. `Write` puts any positive number of remaining
pieces into the file, so lines of other appends may come between; `WholeWrites`
restricts it to one write a line. `AppendFails` and `ProcessDies` leave what was
written. Reading is by line, as `split("\n")` and `JSON.parse` do it: a line that
lacks only its line feed is still an entry; one that mixes two lines is not.
An append whose clock is not finite (`NotFinite`) writes `null` for its times and
is dropped by `isExecutionLogEntry`. Lines are the positions they start at, so the
answer of `list()` is the function that takes k to the entry at the k-th of them
(`Nth` of `Positions`, which the fallbacks of a route are filtered with too), without
recursion over the file.

Not modelled: what the entry says, and a directory that is removed meanwhile.

## 3. The runs

| Run | Instance | Properties | States |
|---|---|---|---|
| `run_retry` | 1 worker, reviewer, 2 attempts, timeouts, every outcome, delays with and without wait | `EventsTellResults`, `RetryLoopReturns`, `OnlyDeadlinesAbandon`, `RetriesAreJustified`, `RunSettles`, `AbortCancels` | 185,102 |
| `run_pool` | 1 dependent and 3 independent workers, cap 2, reviewer, 2 attempts, no timeouts | `PoolInv`, `PlanOrder`, `ConcurrencyCap`, `AnsweredRunIsQuiet`, `NoLaunchAfterAbort`, `AbortSettles` | 29,288 |
| `run_hooks` | 2 concurrent workers, reviewer, three outcomes, throwing hooks, failing store | `TypeOK`, `EventsEndWithResults`, `KeepsContract` | 1,807,971 |
| `routing` | shipped policy, the same rearranged, a partial and an ambiguous one; all assessments its rules tell apart | `TypeOK`, `DecisionsAreReproducible`, `RefusalsAreExplained`, `PlanFollowsRoute`, `DecisionsAreDocumented` | 559,992 |
| `log_faults` | 3 appends, 2 of one run id, 1 not finite; cut writes, failures, deaths | `TypeOK`, `NothingLeftOut`, `NothingMadeUp`, `AnswersGrow`, `GetIsStable` | 810,252 |
| `log_whole` | the same, one write a line | `ImplementsStore` | 10,816 |
| `executors` | 1 worker, 2 attempts, a timer; each executor; limits below one byte, of one and of two bytes; 2 chunks of width 1 or 3; statuses 200, 400, 429 | `CallTypes`, `SuccessIsWhole`, `LimitIsExact`, `NobodyWorksUnaware`, `RepeatsAreWorthwhile`, `IsARun`, `AbortSettlesCalls` | 1,143,666 |
| `http` | both paths, three media types, declared and undeclared bodies of 0 to 3 bytes, limits of 0, 2 and 3, a timeout of 2 ticks, 20 questions, the shipped and a partial configuration | `HttpTypes`, `AnswersAreExplained`, `BodyIsBounded`, `AnsweredInTime`, `FrontEndsAgree`, `LateAnswersChangeNothing`, `EveryRequestIsAnswered` | 60,590 |
| `run_abandoned` | 2 dependent workers, a timeout | `DependentOperationsAlone` | violated |
| `run_fatal` | 1 worker, a logger that throws | `FatalFailuresDoNotRetry` | violated |
| `run_nan` | `max_attempts` is NaN | `RetryLoopReturns` | violated |
| `log_torn` | 3 appends with faults | `AcknowledgedIsListed` | violated |

### What they show

*The runner.* Whatever settles, times out, retries or is aborted in whatever
order: the logger hears one start, one event for each retry, and a last event that
is the brief's result (`EventsTellResults`, without throwing hooks). With them it
may hear more, an ending that another attempt follows, or the ending of a brief that
never gets a result; but a brief with a result still has one start, a retry for each
earlier attempt, attempts in order, and that result as its last event
(`EventsEndWithResults`). A brief is tried again only after an
attempt that may be retried (`RetriesAreJustified`, without throwing hooks);
nothing is launched after the abort, although a delay of zero does not look at the
signal, because the next attempt does (`NoLaunchAfterAbort`); a brief the abort
finds before its first attempt, in a race, in a delay or between attempts is
reported cancelled (`AbortCancels`); an operation that is left behind has been told
to stop, by the abort or by the timer of its own attempt, though a later attempt is
under way (`OnlyDeadlinesAbandon`), and an answered run has nothing under
way when no hook throws (`AnsweredRunIsQuiet`).

*The contract.* `KeepsContract` says that the runner implements `RunContract`
under the mapping that keeps `phase`, `status`, `log` and `result` and hides the
rest: every brief is reported once and after the earlier groups, the status is
fixed by all results (cancelled before timed out before failed), the entry is
written once and before the answer, and a rejected run writes none. It holds with
hooks that throw anywhere and a store that fails, and while workers of the pool
outlive a rejection.

*The router.* The decision is the one of the configuration as it was passed to
`createRouter`, whatever the caller has written since; a call is refused only for
an invalid assessment, a rule set without a catch-all, or a provider the catalog
lacks; a plan agrees with its route even if the assessment changed in between, and
a delegated plan whose subtasks vanished still has a worker. With the shipped
rules, in either order of listing, class, delegation, reviewer and the confidence
warning are those of `routing/base-routing-policy.md`.

*The executors.* However a process or a server races the timer, the abort and the
limit: a brief succeeds only with everything its peer wrote, from a process that
exited with 0 or a complete 2xx response (`SuccessIsWhole`); the byte limit is
exact (`LimitIsExact`: what is refused is too long and what is taken is not, also
for a limit of half a byte, which `spawnCodexProcess` takes for the default, so
that only the second check refuses); work nobody waits for any more has been told
to stop (`NobodyWorksUnaware`), which is what "timeout terminates
subprocesses/requests" can mean for a process that may ignore SIGTERM; a second
attempt follows only a timeout or a failure that may pass (`RepeatsAreWorthwhile`:
a process that was killed, or exited with 1, is never run again, nor is an output
over the limit). `IsARun` is the refinement: the composition is a run of
`RunExecutionPlan`, so what is checked and proved there holds with these executors.
After the abort every call settles, but that of a process which has exited and
whose pipes somebody else holds (`AbortSettlesCalls`).

*The front ends.* Every status is true of its request (`AnswersAreExplained`), and
no chunk, end, failure or router that comes after the answer answers again or puts
the router to work (`LateAnswersChangeNothing`), though the reader goes on reading
and keeps what it reads, up to the limit (`BodyIsBounded`). A request is answered,
also if the client stalls and the router never settles (`EveryRequestIsAnswered`),
within twice the timeout and not within the timeout (`AnsweredInTime`):
`packages/router-http/README.md:22` says "Requests are limited to 64 KiB and 5
seconds by default", and each of the two stages has 5 seconds of its own. A
question that one front end answers, the others answer with the same output; one that is refused is refused by
all (HTTP, MCP and, for a route with the shipped configuration, the command line),
and where HTTP answers 422 or 500 for the question's sake, the MCP tool has the
corresponding code, except that it never sees an assessment that is no object
(`FrontEndsAgree`). They validate in different orders, so which of two faults is
named may differ: for an unknown provider with an invalid assessment HTTP answers 400
and `route_task` `INVALID_TASK_ASSESSMENT`.

*The log.* With cut writes and dying processes: an answer of `list()` extends all
earlier answers, `get()` never changes its answer, no answer omits an acknowledged
entry or holds one that is incomplete. The price is that one torn line makes
every answer an exception, which is the finding below. If every line is one write,
processes may die and writes fail at will, and the file implements the store in
memory and can always be read.

### Bounds, and why they are enough

Two attempts have a first that is followed by a retry and a last that is not;
a third repeats the first. Four workers behind a cap of two, the first dependent,
have a group boundary, a full pool, a waiting brief and a hand-over; two workers
are enough for a sibling that outlives a rejection. Outcomes of an operation are
all of them in `run_retry`; elsewhere one for each class the policies tell apart
(in `run_hooks` a success, a failure that may be retried, and a timeout the executor
reports, which may not).
Three log entries are the least with two of the same run and a neighbour to tear.
Assessments take every value the shipped conditions mention; `medium` context and
`light` tools are left out, as no rule mentions them, and one task type stands for
the rest. Two confidences lie on either side of the one threshold (60 is the
boundary itself). Rewrites cover fewer subtasks, a different route, and an invalid
assessment. Two chunks against a limit of one byte have a first that is kept and a second that
is refused, and against two bytes both are kept, and refused if they grow; one worker with two
attempts has a call that was left behind and its successor. Three bytes against a
limit of two have a chunk that passes and one that does not, in one read or in
several; a timeout of two ticks lets the stages be told apart from their sum.

There are no state constraints; every run but the violations explores
its instance completely, with deadlock checked but for `http`, where a request comes to its end.

### Fairness

`FairSpec` assumes weak fairness of `Runtime`, the pieces Node's event loop has
queued: timers fire, continuations run, the store answers. Nothing is assumed of
the executor's operations, which may never settle, or of the caller's abort. That
is why `RunSettles` is checked with timeouts, and `AbortSettles` without. Both
come from a run without throwing hooks; termination with them is a matter of
safety (`KeepsContract`). `FairRunSpec` adds that Node delivers what a process or a
server has sent (`NodeStep`) and the answer of a call (`Deliver`), and assumes
nothing of processes and servers: `AbortSettlesCalls` is about peers that hang.
`FairSpec` of `HttpServer` assumes that Node reads what has come and that its timers
fire, and nothing of the client and the router. The routing and log specifications have safety
properties only: their operations have no waiting of their own.

### Mutants

Each property of each passing run has a mutant in `PROJECT.json`: a definition of
the model changed the way a bug would change the code (a check dropped, a worker
that does not await, an event not emitted, torn lines skipped, the caller's object
not copied, priorities ignored). Under the run's own configuration TLC finds the
property violated by it.

### Findings

1. `run_abandoned`: a worker that timed out is not awaited, so the next dependent
   worker runs beside it, although the tests call dependent workers sequential
   (`packages/executor-core/tests/run-execution-plan.test.ts:293`).
2. `run_fatal`: a logger that throws on the terminal event of a fatal result turns
   it into a retryable error, and the worker is executed again
   (`docs/public-release-plan.md:113`: "fatal failures do not retry").
3. `run_nan`: `max_attempts` of NaN reaches "Unreachable retry state."
4. `log_torn`: one write that was cut makes `list()`, `get()` and the report throw
   for the whole file from the next append on, acknowledged entries included.

## 4. The theorems

`tlapm RunExecutionPlan_proofs.tla` (593 obligations) proves, from
`BriefsAssumption` and `PolicyAssumption` alone, hence for every plan, number of
briefs, policy, cap, retry budget and set of outcomes, throwing hooks and failing
store included:

- `TypeInvariant`, `TypeCorrect`: `Spec => []TypeOK`. `TypeOK` is not inductive: a
  result is taken over from the race, and an entry from the status. `TypeInv` adds
  that a settled race has an outcome (`RaceInv`) and that the status is there when
  it is appended (`EntryInv`).
- `PoolInvariant`: `Spec => []PoolInv`. `PoolInv` is the inductive invariant of
  groups and pool: the briefs split at `first`, `next` and `last` into the finished
  groups, the started and the waiting part of the current one, and the later ones
  (`Groups`, `Positions`); busy briefs and ready workers together are the size of
  the pool (`PoolCount`), at most so once a hook has thrown. It is needed because
  neither the order nor the cap mentions the pool. Three lemmas carry the step:
  `QuietStep` (moves among busy locations), `LeaveStep` (a place is lost with the
  run) and `<1>started` (a brief is taken).
- `PlanOrderHolds`: `Spec => []PlanOrder`, for `MaxConcurrency # NaN`. With NaN the
  pool has no workers, the group is skipped with holes, and the reviewer does run.
- `ConcurrencyCapHolds`: `Spec => []ConcurrencyCap`.

`tlapm RunLoop_proofs.tla` (841 obligations) goes on from there. `StepKinds` and
`BriefStepTouchesItsBrief` split a step once for all of its theorems: into the
steps of the run, which touch no brief, and the steps of one brief, which touch no other.

- `OnlyDeadlinesAbandonHolds`: `Spec => []OnlyDeadlinesAbandon`. It is inductive
  for one brief at a time (`Awaited`: a racing brief waits for the latest of its
  live operations, and any other live one was left by the abort or the timer of its
  attempt).
- `NothingIsLaunchedAfterAbort`: `Spec => NoLaunchAfterAbort`.
- `RetryLoopReturnsHolds`, for `MaxAttempts # NaN`, through `BudgetInv`: a brief
  that waits for a further attempt has one left. `run_nan` is the violation without
  the hypothesis.
- `RetriesAreJustifiedHolds`, for `~HooksMayThrow`, through `JustifiedInv`: what a
  brief in a delay, or caught with an error that is not fatal, ended its last
  attempt with. The property compares two attempts, and between them lie the delay
  and the catch block, which have forgotten the outcome. `run_fatal` is the
  violation without the hypothesis.
- `RunsEndWithTheirGroups`: `Spec => []EndInv`: before the first group, while the entry is
  written and in an answer that is no rejection, no brief is under way.
  `AnsweredRunIsQuietHolds`, for `~HooksMayThrow` and `MaxAttempts # NaN`, adds
  that there is no other answer. Both hypotheses are needed: a rejection leaves the
  other workers of the pool at work.
- `EventsTellResultsHolds`: `Spec => []EventsTellResults`, for `~HooksMayThrow`.
  That a brief starts once and is told every retry once is a statement on whole
  sequences; it becomes inductive with `HeardInv`, which ties the length of the
  stream to `pc` and `attempt`. The case that needed thought is the catch block:
  an abort in the delay comes there one event later than an error of the attempt,
  and only its being fatal keeps a second retry event from following.
- `EventsEndWithResultsHolds`: `Spec => []EventsEndWithResults`, with hooks that throw.
  A logger that throws adds events, so nothing ties the length of the stream to the
  attempts any more; what is left is inductive: the order of the attempts, the retry of
  each earlier one, and that the last step of a brief appends its result.

`tlapm RunContract_proofs.tla` (129 obligations) proves the refinement:

- `RunKeepsContract`: `Spec => KeepsContract`, for `MaxConcurrency # NaN`. Initial
  states map to initial states, and `ContractStep` takes each action to the step of
  the contract it is, or shows that it changes none of the four visible variables
  (`Hidden`). It needs `ContractInv`: that a brief reports after the earlier groups
  (`PlanOrder`), that the status is fixed when nobody is busy (`EndInv`), and that
  the groups are those of the contract (`PoolInv`). With a cap of NaN a group is
  skipped and the contract is broken; that case is a hazard without a run.

`tlapm ExecutorRun_proofs.tla` (1913 obligations) proves, from `ExecutorAssumption`:

- `ExecutorsAreOperations`: `RunSpec => IsARun`. A step of a call leaves the
  variables of the run alone; the step that delivers an answer is an
  `OperationSettles` with one of the outcomes the runner expects
  (`OutcomesExpected`, by cases over the executors); the steps of the runner are
  its own. So every theorem above holds of a run with any of these executors.

It also proves what the calls of a run with an executor answer, for any plan, any
retry budget, any limit, any number of chunks, any widths of at least one byte. The
invariant has three layers, each proved with the ones before it:

- `CallsInv`, about a call record alone. `Counted`: what is kept and what is yet to
  be read is all the peer wrote, until an answer or a signal discards the rest.
  `Ended`: what each answer says of the peer, an answered call's output being within
  the limit, and a refused one's over it. `Stubbed`: a stub has answered.
  `CallSteps` says how a step may move the calls: one begins, one moves, or the
  signals of some are aborted, in the runner's own step.
- `CallInv`, about a call and its attempt: it was made for an attempt of its brief, and it
  has been told to stop when the attempt is over (`Signal`).
- `AnswerInv`, about a brief: a race that was not lost to the timer or the abort was
  won by the answer of the latest call (`Raced`), and that stays so through the
  delay and the result, although `outcome` is computed from a record that goes on
  changing. `RunnerInv` carries over what is proved of the runner.

The theorems are `CallTypesHolds`, `LimitIsExactHolds`, `NobodyWorksUnawareHolds`,
`SuccessIsWholeHolds`, and, for `Responses \subseteq 100..599`,
`RepeatsAreWorthwhileHolds`: the executors tell a server's failure by
`status >= 500`, and HTTP has no status codes beyond 599. TLC checked each layer
on the instance of `executors` before it was proved.

`tlapm Routing_proofs.tla` (600 obligations) proves, from `RoutingAssumption`
(numbers are numbers, and there are as many suggested subtasks as a list can have:
`assessment.suggested_subtasks ?? []`), for all sets of configurations and assessments:

- `DecisionsReproducible`: `Spec => []DecisionsAreReproducible`, through
  `ReproducibleInv`, which adds that the router's copy is what it was made of, that
  there is no call before the router, and no route before the call is routed.
- `TypeCorrect`: `Spec => []TypeOK`, with `TypeInv`: a router is made of a catalog
  that passed its validation.
- `RefusalsHaveReasons`: `Spec => []RefusalsAreExplained`. `CatchAllDecides` is the
  lemma on the algorithm: with a rule without conditions among them, the stable
  sort and the first match find a rule for every assessment. `RouteIsTotal` follows:
  a route is undefined only for want of such a rule or for a provider the catalog lacks.
- `PlansFollowRoutes`: `Spec => []PlanFollowsRoute`; `BriefsAreNumbered` says that the
  numbers of the briefs of a plan are the places it gives them.
- `ShippedRulesAreDocumented`: `Spec => []DecisionsAreDocumented`, for every order in
  which a policy may list the shipped rules, every catalog and every assessment whose
  two flags are booleans (`FlagsAreBoolean`, which their type says; `routeTask` does not
  check it). TLC has two of the 17,280 orders of the rules that decide. The lemma on the
  algorithm is `LeastPriorityDecides`: a rule that matches, and comes before every
  other that does, is the one found, wherever it is listed. Each rule set is then
  compared with the documentation's cases, and the reviewer's with the delegation just
  decided. The route is that of the policy and the assessment of the time
  by `ReproducibleInv` and `RoutedOnInv`.

`tlapm HttpServer_proofs.tla` (747 obligations) proves, from `HttpAssumption`
(the timeout is a positive number of ticks, limits and sizes are numbers, and a
body that holds a question is not empty, since the empty text is no JSON):

- `BodiesAreBounded`: `Spec => []BodyIsBounded`. The bound alone is not
  inductive: that `chunks` stays below the limit needs `chunks = totalBytes`
  while the reader reads, that it is counted before it is kept, and that a
  reader that has stopped never reads again; that the router sees whole bodies
  needs that a call has been made only by a reader that ended. `BodyInv` says so
  of every stage, `"answered"` included, where the reader goes on unheard.
- `RequestsTakeTwoTimeouts`: `Spec => []AnsweredInTime`. The clock starts again
  between the stages, so `TimeInv` ties it to the time of the request: they are
  equal in the first stage and at most one timeout apart in the second.
- `AnswersAreFinal`: `Spec => LateAnswersChangeNothing`, from the guards of each
  action alone.
- `TypeCorrect`: `Spec => []HttpTypes`, through `StageInv`, which stage of the request
  goes with which state of the reader and the call.
- `AnswersHaveReasons`: `Spec => []AnswersAreExplained`. An answer is explained by the
  state it is given in, which goes on changing: the reader reads, the router settles.
  `AnsweredStaysExplained` shows that no reason is lost by that, and `FoundInv`
  keeps what `HandleBody` found about the question while the router is at work.
- `FrontEndsAlwaysAgree`: `Spec => []FrontEndsAgree`. `ToldInv` says what
  `Explained` leaves open: the output is the router's, and an assessment is refused
  when the provider has been accepted. `ValidIsObject` shows that the input schema lets
  every valid assessment through. `UsageIsRead` shows that `optionValue` and
  `filePath` find the arguments of the usage where they are meant, and
  `CommandLine` what `main` then answers; the three validation orders are compared
  case by case.

`tlapm Positions_proofs.tla` (86 obligations) has the lemmas on places that the log and
the fallbacks need: `LeastNumber`, which stands in for induction, and `NthCounts`.

`tlapm JsonlExecutionLog_proofs.tla` (1066 obligations) proves, for any appends, run ids
and entries that are not finite:

- `TypeCorrect`, `NothingMadeUpHolds`, `NothingLeftOutHolds`: `Spec` implies always
  `TypeOK`, `NothingMadeUp`, `NothingLeftOut`. They rest on `WrittenInv`: every piece
  that has been written is in the file, once. The other half of `NothingLeftOut` is
  `LinesParse`: in a file that is read without an error every piece that is not the
  end of a line is the first or the second of a line that parses. Going up the
  file that is an induction; it is proved by the least position where it fails.
- `AnswersGrowHolds`: `Spec => AnswersGrow`, and `GetIsStableHolds`: `Spec =>
  GetIsStable`. `ReadInv` says that each answer was that of a readable beginning of
  the file; `EntriesGrow`, that the entries of a readable beginning are a beginning
  of the entries. `Rank` is the inverse of `Nth` (`NthCounts`), and the rank
  of a line does not depend on what comes after it.
- `LogImplementsStore`: with `WholeWrites` and all times finite, `Spec =>
  ImplementsStore`. `WholeInv` adds that appends have written nothing or all, and
  that the file is made of whole lines; a write is then `Push`
  (`WriteIsAPush`), `Resolve` is `Acknowledge`, and `ReadThrows` cannot happen. The
  two hypotheses are those of `log_whole`. Without the first the promise is broken
  (`log_torn`), and so it is for an entry that is not finite, which a listing leaves out.

TLC checked `WrittenInv` and `ReadInv` on the instance of `log_faults`, and
`WholeInv` on that of `log_whole`.

Only model-checked is liveness (`RunSettles`, `AbortSettles`, `AbortCancels`,
`AbortSettlesCalls`, `EveryRequestIsAnswered`): the prover has no fairness. Every
safety property of the passing runs, and the three refinements, have their theorem.

## 5. What is next

The safety part of the liveness properties: that every step of a run, but for those
of a clock or of work that has been given up, brings its end nearer by a measure on
attempts, briefs and groups, so that only waiting is left to fairness.

## 6. Not modelled

- Redaction, cost and report (`log-redaction.ts`, `cost.ts`, `eval-report.ts`):
  regular expressions and floating-point sums over what `list()` returns, without
  state; TLC has neither strings nor rounding to say something about them.
- What outputs, prompts, reasons and messages say; usage and cost in a response.
- An injected `process_runner` or `transport`: code of the caller. A
  `process_runner` is still subject to the second check of the limit.
- The command line of the MCP server and the loading of its configuration, which
  happen once before the first call; the protocol of its SDK.
- `plugins/codex-router`, which compares the routed model with the current one and
  hands the rest on field by field; scripts, evaluations and examples.
- Two front ends or two requests at once: they share the router, which keeps no
  state after `createRouter` (`DecisionsAreReproducible`).

## 7. Running

```bash
tlc -config run_pool.cfg MCRunExecutionPlan     # likewise run_*
tlc -config routing.cfg MCRouting
tlc -config executors.cfg MCExecutorRun
tlc -config http.cfg MCHttpServer
tlc -config log_faults.cfg MCJsonlExecutionLog  # likewise log_*
tlapm RunExecutionPlan_proofs.tla               # likewise the other *_proofs.tla
```
