----------------------------- MODULE ApiExecutor -----------------------------
(***************************************************************************)
(* executor-openai and executor-anthropic: a call sends one request and    *)
(* settles on the first of the response's 'end', an 'error' of either, and *)
(* the byte limit; an aborted signal destroys the request.  Both have the  *)
(* same code between building the request and reading the response, each   *)
(* a copy of its own.                                                      *)
(*                                                                         *)
(* A peer is "asked", "responding" (the head has come), "complete" (the    *)
(* server has sent everything), "broken" (the connection is gone and Node  *)
(* has yet to say so) and then "closed".  An injected transport, and       *)
(* reading the output, the usage and the cost from a body, are not         *)
(* modelled: a body that has another shape than expected is a success too. *)
(***************************************************************************)
EXTENDS ExecutorCalls

CONSTANT Responses   \* the status codes a server may answer with

maxResponseBytes == normalizeByteLimit(setup.limit)

\* Mutant of retryable: whatever went wrong may go well the next time.
RetryableFrom400(status) == status >= 400

\* classifyOpenAIResponseStatus and classifyAnthropicResponseStatus
retryable(status) == status \in {408, 409, 429} \/ status >= 500

\* sendOpenAIRequest and sendAnthropicRequest: without an API key the answer is
\* a 401 of their own.
Start(c) ==
  /\ calls[c].peer = "none"
  /\ calls' = IF setup.executor = "api_without_key"
              THEN [calls EXCEPT ![c].peer = "closed", ![c].code = 401,
                                 ![c].answer = "resolved"]
              ELSE [calls EXCEPT ![c].peer = "asked"]

\* The head of a response arrives.
Respond(c) ==
  /\ calls[c].peer = "asked"
  /\ \E status \in Responses :
       calls' = [calls EXCEPT ![c].peer = "responding", ![c].code = status]

\* The width of a body is not looked at.
Write(c) == calls[c].peer = "responding" /\ SendChunk(c, 1)

Complete(c) ==
  /\ calls[c].peer = "responding"
  /\ calls' = [calls EXCEPT ![c].peer = "complete", ![c].ended = TRUE]

\* No connection, or one that is closed before the response is complete.
Break(c) ==
  /\ calls[c].peer \in {"asked", "responding"}
  /\ calls' = [calls EXCEPT ![c].peer = "broken"]

\* Beyond the limit the response and the request are destroyed.
receiveChunk(r) ==
  IF r.bytes + 1 > maxResponseBytes
  THEN [settleOnce(r, "limit") EXCEPT !.told = TRUE, !.peer = "closed"]
  ELSE keepChunk(r)

Data(c) ==
  /\ calls[c].peer \in {"responding", "complete", "broken"}
  /\ calls[c].unread # << >>
  /\ calls' = [calls EXCEPT ![c] = receiveChunk(@)]

\* Mutant of End: the response is taken as it is when it is closed.
EndOnClose(c) ==
  /\ calls[c].peer \in {"complete", "broken"}
  /\ calls[c].unread = << >>
  /\ calls' = [calls EXCEPT ![c] = [settleOnce(@, "resolved") EXCEPT !.peer = "closed"]]

\* 'end': the response is complete and has been read.
End(c) ==
  /\ calls[c].peer = "complete"
  /\ calls[c].unread = << >>
  /\ calls' = [calls EXCEPT ![c] = [settleOnce(@, "resolved") EXCEPT !.peer = "closed"]]

\* 'error' of the request or of the response.
Error(c) ==
  /\ calls[c].peer = "broken"
  /\ calls' = [calls EXCEPT ![c] = [settleOnce(@, "error") EXCEPT !.peer = "closed"]]

\* Mutant of afterAbort: the request is not given the signal.
ignoreAbort(r) == r

\* The signal is aborted: the request is destroyed, which discards what has not
\* been read, and an 'error' follows unless the response was complete.
afterAbort(r) ==
  IF r.peer \in {"asked", "responding"}
  THEN [r EXCEPT !.peer = "broken", !.unread = << >>, !.told = TRUE]
  ELSE IF r.peer = "complete" THEN [r EXCEPT !.unread = << >>, !.told = TRUE]
  ELSE r

\* executeReview and responseToWorkerResult
outcome(r) ==
  IF r.answer # "resolved" THEN rejection(r)
  ELSE IF r.code \in 200..299 THEN executorResult("succeeded", FALSE)
  ELSE executorResult("failed", retryable(r.code))

NodeEvents(c) == Data(c) \/ End(c) \/ Error(c)
PeerEvents(c) == Respond(c) \/ Write(c) \/ Complete(c) \/ Break(c)
==============================================================================
