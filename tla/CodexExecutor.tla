---------------------------- MODULE CodexExecutor ----------------------------
(***************************************************************************)
(* executor-codex: a call runs the command line tool in a child process    *)
(* and settles on the first of its 'error' event, its 'close' event and    *)
(* the byte limit; an aborted signal sends the process SIGTERM.  The       *)
(* process may finish its work on SIGTERM, ignore it, or have exited while *)
(* a process of its own holds the output pipes open.                       *)
(*                                                                         *)
(* A peer is "running", "exited" (the pipes may hold output still),        *)
(* "failed" (it could not be spawned) and then "closed".  The mode         *)
(* "execute" is the executor "codex"; an injected process_runner is not    *)
(* modelled.                                                               *)
(***************************************************************************)
EXTENDS ExecutorCalls

maxOutputBytes == normalizeByteLimit(setup.limit)

\* spawnCodexProcess normalizes the limit it is given once more, and a limit of
\* 0 is the default then.
outputLimit == normalizeByteLimit(2 * maxOutputBytes)

\* executeWorker and executeReview: a dry run answers at once.
Start(c) ==
  /\ calls[c].peer = "none"
  /\ IF setup.executor = "dry_run"
     THEN calls' = [calls EXCEPT ![c].peer = "closed", ![c].code = 0,
                                 ![c].ended = TRUE, ![c].answer = "resolved"]
     ELSE \E peer \in {"running", "failed"} : calls' = [calls EXCEPT ![c].peer = peer]

\* The process could not be spawned: an 'error' event.
SpawnError(c) ==
  /\ calls[c].peer = "failed"
  /\ calls' = [calls EXCEPT ![c] = [settleOnce(@, "error") EXCEPT !.peer = "closed"]]

\* The process writes to its standard output or its standard error.
Write(c) == calls[c].peer = "running" /\ \E w \in Widths : SendChunk(c, w)

\* A process that is killed has no exit code, which is read as 1.
Exit(c) ==
  /\ calls[c].peer = "running"
  /\ \E code \in {0, 1} :
       calls' = [calls EXCEPT ![c].peer = "exited", ![c].code = code,
                                   ![c].ended = TRUE]

\* Mutant of appendChunk: the process is left running when it wrote too much.
appendUnstopped(r) ==
  IF r.bytes + 1 > outputLimit THEN settleOnce(r, "limit")
  ELSE keepChunk(r)

\* Beyond the limit the process is killed and both pipes are destroyed.
appendChunk(r) ==
  IF r.bytes + 1 > outputLimit
  THEN [settleOnce(r, "limit") EXCEPT !.told = r.peer = "running"]
  ELSE keepChunk(r)

Data(c) ==
  /\ calls[c].peer \in {"running", "exited"}
  /\ calls[c].unread # << >>
  /\ calls' = [calls EXCEPT ![c] = appendChunk(@)]

\* Mutant of recheck: what was within the limit as it came is taken.
takeUnchecked(r) == "resolved"

\* runCodexCommand measures the decoded output again.
recheck(r) == IF r.width > maxOutputBytes THEN "limit" ELSE "resolved"

\* Mutant of Close: the promise resolves when the process exits.
CloseOnExit(c) ==
  /\ calls[c].peer = "exited"
  /\ calls' = [calls EXCEPT ![c] =
                 [settleOnce(@, recheck(@)) EXCEPT !.peer = "closed"]]

\* 'close': the process has exited and both pipes have ended or are destroyed.
Close(c) ==
  /\ calls[c].peer = "exited"
  /\ calls[c].unread = << >>
  /\ calls' = [calls EXCEPT ![c] =
                 [settleOnce(@, recheck(@)) EXCEPT !.peer = "closed"]]

\* Mutant of afterAbort: the call is given up and the process goes on.
abandonProcess(r) == IF r.peer = "running" THEN settleOnce(r, "error") ELSE r

\* The signal of the call is aborted: if the process is there to be killed it
\* is, and an AbortError is emitted at once.
afterAbort(r) ==
  IF r.peer = "running" THEN [settleOnce(r, "error") EXCEPT !.told = TRUE] ELSE r

\* Mutant of outcome: a process that failed may be run again.
retriedOutcome(r) ==
  IF r.answer # "resolved" THEN rejection(r)
  ELSE IF r.code = 0 THEN executorResult("succeeded", FALSE)
  ELSE executorResult("failed", TRUE)

\* codexProcessToWorkerResult and codexProcessToReviewResult: a failure is not
\* classified.
outcome(r) ==
  IF r.answer # "resolved" THEN rejection(r)
  ELSE IF r.code = 0 THEN executorResult("succeeded", FALSE)
  ELSE executorResult("failed", FALSE)

\* What Node runs sooner or later, and what is up to the process.  'close' may
\* never come: a child of the process may hold the pipes.
NodeEvents(c) == SpawnError(c) \/ Data(c)
PeerEvents(c) == Write(c) \/ Exit(c) \/ Close(c)
==============================================================================
