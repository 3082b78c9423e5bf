---------------------------- MODULE ExecutorCalls ----------------------------
(***************************************************************************)
(* What the executors that run a model have in common.  A call is one      *)
(* executeWorker or executeReview: a peer (a child process, or an HTTP     *)
(* server) sends output in chunks, Node delivers them, a byte limit may    *)
(* refuse them, the signal of the call may be aborted, and the promise     *)
(* behind the call settles when the first of all this says so.             *)
(*                                                                         *)
(* Abstracted: what prompts and outputs say.  A chunk is one byte long and *)
(* has a width, the bytes it takes once decoded and encoded again: 1, or 3 *)
(* for a byte that is not UTF-8 and becomes U+FFFD.                        *)
(***************************************************************************)
EXTENDS Integers, Sequences

CONSTANTS
  Calls,     \* the calls that may be made
  Setups,    \* the executors and byte limits to choose from
  Widths,    \* the widths of chunks
  MaxChunks  \* how many chunks a peer sends in one call

VARIABLES
  setup,     \* the executor, and its byte limit in half bytes
  calls      \* what is going on in each call

Answers == {"pending", "resolved", "error", "limit"}

\* peer: what the other side is doing, "none" before the call
\* code: the exit code, or the status of the response
\* written, unread: chunks the peer has sent, and those Node has yet to deliver
\* bytes, width: of the chunks kept
\* ended: the process exited, or the server sent the whole response
\* told: the process was sent SIGTERM, or the request destroyed
NewCall ==
  [peer |-> "none", code |-> -1, written |-> 0, unread |-> << >>,
   bytes |-> 0, width |-> 0, ended |-> FALSE, told |-> FALSE, answer |-> "pending"]

\* Math.floor of a positive number of bytes, the default for anything else.
normalizeByteLimit(halfBytes) ==
  IF halfBytes <= 0 THEN 1048576 ELSE halfBytes \div 2

Pending(c) == calls[c].answer = "pending"

\* rejectOnce, or the resolve of a promise that may have settled.  What is yet
\* to come is dropped from then on.
settleOnce(r, answer) ==
  IF r.answer = "pending" THEN [r EXCEPT !.answer = answer, !.unread = << >>] ELSE r

\* The peer sends a chunk; what it sends after the answer nobody looks at.
SendChunk(c, w) ==
  /\ Pending(c)
  /\ calls[c].written < MaxChunks
  /\ calls' = [calls EXCEPT ![c].written = @ + 1, ![c].unread = Append(@, w)]

\* Mutant of keepChunk: the chunk that was read is there to be read again.
keepUnread(r) == [r EXCEPT !.bytes = @ + 1, !.width = @ + Head(r.unread)]

\* A chunk that is within the limit is kept.
keepChunk(r) ==
  [r EXCEPT !.unread = Tail(@), !.bytes = @ + 1, !.width = @ + Head(r.unread)]

\* What an executor hands to the runner.
executorResult(status, retryable) ==
  [threw |-> FALSE, what |-> status, retryable |-> retryable]
executorError(kind) == [threw |-> TRUE, what |-> kind, retryable |-> FALSE]

\* A rejection is an ExecutorOutputLimitError or an error of Node.
rejection(r) == executorError(IF r.answer = "limit" THEN "limit" ELSE "transient")
==============================================================================
