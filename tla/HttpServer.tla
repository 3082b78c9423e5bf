----------------------------- MODULE HttpServer -----------------------------
(***************************************************************************)
(* One request of the HTTP adapter: the head is checked, the body is read  *)
(* against a limit and a timer, its question goes to the router against a  *)
(* second timer, and the first outcome is the answer.  The reader of the   *)
(* body and the router's promise are not stopped by a timer: they go on    *)
(* behind the answer.  Requests share nothing but the router, which keeps  *)
(* no state, so one stands for all; /route and /plan are the same handlers *)
(* as /v1/route and /v1/plan.                                              *)
(*                                                                         *)
(* Abstracted: what bytes say.  A body is its size and what JSON.parse and *)
(* the schema of the request make of the whole of it.                      *)
(***************************************************************************)
EXTENDS FrontEnds

CONSTANTS
  Configurations, \* what the router may be made of
  Requests,       \* the requests that may come
  BodyLimits,     \* options.max_body_bytes, in half bytes
  Timeout         \* request_timeout_ms, in ticks

ASSUME HttpAssumption ==
  /\ Timeout \in Nat \ {0}
  /\ BodyLimits \subseteq Int
  /\ \A r \in Requests : r.size \in Nat /\ (r.body[1] = "question" => r.size > 0)

VARIABLES
  config,     \* the configuration of the router
  limit,      \* options.max_body_bytes in half bytes, at most 0 for none
  request,    \* the request: path, media, declared, size and body
  stage,      \* "head", "body", "route" or "answered"
  sent,       \* how much of the body the client has sent
  broken,     \* whether the client's connection broke
  reader,     \* what readBodyText is doing
  totalBytes, \* how much of the body it has been given
  chunks,     \* and how much it keeps
  clock,      \* the ticks since the timer was set
  elapsed,    \* the ticks since the request came
  call,       \* the router's promise
  response    \* the answer, << >> before

bodyVars == <<reader, totalBytes, chunks>>
client == <<sent, broken>>
given == <<config, limit, request>>
vars == <<given, client, bodyVars, stage, clock, elapsed, call, response>>

-----------------------------------------------------------------------------
normalizePositiveInteger(halves, fallback) ==
  IF halves > 0 THEN halves \div 2 ELSE fallback

maxBodyBytes == normalizePositiveInteger(limit, 65536)

\* toHttpErrorResponse
Status(error) ==
  IF error = "UNSUPPORTED_MEDIA_TYPE" THEN 415
  ELSE IF error = "REQUEST_BODY_TOO_LARGE" THEN 413
  ELSE IF error = "REQUEST_TIMEOUT" THEN 408
  ELSE IF error \in {"INVALID_JSON", "INVALID_REQUEST"} THEN 400
  ELSE IF error = "TaskAssessmentValidationError" THEN 422
  ELSE 500

Answer(status, output) ==
  /\ stage' = "answered"
  /\ response' = <<[status |-> status, output |-> output]>>

Refuse(error) == Answer(Status(error), << >>)

Init ==
  /\ config \in Configurations
  /\ limit \in BodyLimits
  /\ request \in Requests
  /\ stage = "head"
  /\ sent = 0 /\ broken = FALSE
  /\ reader = "none" /\ totalBytes = 0 /\ chunks = 0
  /\ clock = 0 /\ elapsed = 0
  /\ call = "none"
  /\ response = << >>

\* The client.  A body that has a declared length has that length or breaks off.
ClientSends ==
  /\ ~broken
  /\ sent < request.size
  /\ sent' = sent + 1
  /\ UNCHANGED <<given, broken, bodyVars, stage, clock, elapsed, call, response>>

ClientBreaks ==
  /\ ~broken
  /\ sent < request.size
  /\ broken' = TRUE
  /\ UNCHANGED <<given, sent, bodyVars, stage, clock, elapsed, call, response>>

\* readInput up to its await.
ReadHead ==
  /\ stage = "head"
  /\ IF request.media = "text" THEN Refuse("UNSUPPORTED_MEDIA_TYPE") /\ UNCHANGED reader
     ELSE IF request.declared /\ request.size > maxBodyBytes
     THEN Refuse("REQUEST_BODY_TOO_LARGE") /\ UNCHANGED reader
     ELSE stage' = "body" /\ reader' = "reading" /\ UNCHANGED response
  /\ UNCHANGED <<given, client, totalBytes, chunks, clock, elapsed, call>>

\* Mutant of ReadChunk: the length is believed, and never counted.
ReadUncounted ==
  /\ reader = "reading"
  /\ \E n \in 1..(sent - totalBytes) :
       totalBytes' = totalBytes + n /\ chunks' = chunks + n
  /\ UNCHANGED <<given, client, reader, stage, clock, elapsed, call, response>>

\* Mutant of ReadChunk: the timer is one of idleness.
ReadRestartsClock ==
  /\ reader = "reading"
  /\ \E n \in 1..(sent - totalBytes) :
       /\ totalBytes' = totalBytes + n
       /\ IF totalBytes' > maxBodyBytes
          THEN reader' = "cancelling" /\ UNCHANGED chunks
          ELSE chunks' = chunks + n /\ UNCHANGED reader
  /\ clock' = 0
  /\ UNCHANGED <<given, client, stage, elapsed, call, response>>

\* One turn of the loop of readBodyText, also behind the answer.
ReadChunk ==
  /\ reader = "reading"
  /\ \E n \in 1..(sent - totalBytes) :
       /\ totalBytes' = totalBytes + n
       /\ IF totalBytes' > maxBodyBytes
          THEN reader' = "cancelling" /\ UNCHANGED chunks
          ELSE chunks' = chunks + n /\ UNCHANGED reader
  /\ UNCHANGED <<given, client, stage, clock, elapsed, call, response>>

\* Nobody listens to a reader whose stage has timed out.
Unheard == stage # "body" /\ UNCHANGED <<stage, clock, call, response>>

\* reader.cancel() resolves.
CancelDone ==
  /\ reader = "cancelling"
  /\ reader' = "refused"
  /\ \/ stage = "body" /\ Refuse("REQUEST_BODY_TOO_LARGE") /\ UNCHANGED <<clock, call>>
     \/ Unheard
  /\ UNCHANGED <<given, client, totalBytes, chunks, elapsed>>

BodyBreaks ==
  /\ reader = "reading"
  /\ broken
  /\ reader' = "failed"
  /\ \/ stage = "body" /\ Refuse("TypeError") /\ UNCHANGED <<clock, call>>
     \/ Unheard
  /\ UNCHANGED <<given, client, totalBytes, chunks, elapsed>>

\* readInput from its await on.
Question == request.body[2]
parsed ==
  IF request.size = 0 \/ request.body[1] = "malformed" THEN Rejected("INVALID_JSON")
  ELSE IF request.body[1] = "shapeless" \/ ~Supported(Question.preferred)
  THEN Rejected("INVALID_REQUEST")
  ELSE Fulfilled(Question)

\* Mutant of Handled: the handler of /v1/route asks of the assessment no more than
\* that it is an object.
HandledUnvalidated ==
  IF parsed[1] = "fulfilled" /\ request.path = "route" /\ ~isObject(Question.assessment)
  THEN Rejected("TaskAssessmentValidationError")
  ELSE parsed

\* The rest of a handler up to the router: only routeHandler validates.
Handled ==
  IF parsed[1] = "fulfilled" /\ request.path = "route" /\ ~validAssessment(Question.assessment)
  THEN Rejected("TaskAssessmentValidationError")
  ELSE parsed

HandleBody ==
  IF Handled[1] = "rejected" THEN Refuse(Handled[2]) /\ UNCHANGED <<clock, call>>
  ELSE stage' = "route" /\ clock' = 0 /\ call' = "pending" /\ UNCHANGED response

\* Mutant of BodyEnds: the handler goes on although its stage has timed out.
BodyEndsAnyway ==
  /\ reader = "reading"
  /\ totalBytes = request.size
  /\ reader' = "ended"
  /\ HandleBody
  /\ UNCHANGED <<given, client, totalBytes, chunks, elapsed>>

\* The reader is done: the handler parses the text and calls the router.
BodyEnds ==
  /\ reader = "reading"
  /\ totalBytes = request.size
  /\ reader' = "ended"
  /\ \/ stage = "body" /\ HandleBody
     \/ Unheard
  /\ UNCHANGED <<given, client, totalBytes, chunks, elapsed>>

\* What the router that createRouter makes of config answers.
routed ==
  IF request.path = "route" THEN routeTask(config, Question.assessment, Question.preferred)
  ELSE prepareAgentExecution(config, Question.assessment, Question.preferred)

RouterAnswers ==
  /\ call = "pending"
  /\ call' = "settled"
  /\ IF stage # "route" THEN UNCHANGED <<stage, response>>
     ELSE \E promise \in {routed} :
            IF promise[1] = "rejected" THEN Refuse(promise[2])
            ELSE Answer(200, <<promise[2]>>)
  /\ UNCHANGED <<given, client, bodyVars, clock, elapsed>>

\* A router that was passed in options.router may fail in ways of its own.
RouterFails ==
  /\ call = "pending"
  /\ call' = "failed"
  /\ IF stage = "route" THEN Refuse("Error") ELSE UNCHANGED <<stage, response>>
  /\ UNCHANGED <<given, client, bodyVars, clock, elapsed>>

\* withTimeout
TimerRuns == stage \in {"body", "route"}

Tick ==
  /\ TimerRuns
  /\ clock < Timeout
  /\ clock' = clock + 1
  /\ elapsed' = elapsed + 1
  /\ UNCHANGED <<given, client, bodyVars, stage, call, response>>

\* Mutant of TimerFires: only the reading of the body is timed.
BodyTimerFires ==
  /\ stage = "body"
  /\ clock = Timeout
  /\ Refuse("REQUEST_TIMEOUT")
  /\ UNCHANGED <<given, client, bodyVars, clock, elapsed, call>>

TimerFires ==
  /\ TimerRuns
  /\ clock = Timeout
  /\ Refuse("REQUEST_TIMEOUT")
  /\ UNCHANGED <<given, client, bodyVars, clock, elapsed, call>>

Node == ReadHead \/ ReadChunk \/ CancelDone \/ BodyBreaks \/ BodyEnds \/ Tick \/ TimerFires

Next == Node \/ ClientSends \/ ClientBreaks \/ RouterAnswers \/ RouterFails

Spec == Init /\ [][Next]_vars

\* Node works, and its timers run.  Nothing is assumed of the client and of the
\* router.
FairSpec == Spec /\ WF_vars(Node)
-----------------------------------------------------------------------------
\* Properties

\* Every variable has its type, and a request has an answer when it is answered,
\* a timer within its time before, and a call of the router in its last stage.
HttpTypes ==
  /\ stage \in {"head", "body", "route", "answered"}
  /\ sent \in 0..request.size /\ totalBytes \in 0..sent /\ chunks \in 0..totalBytes
  /\ reader \in {"none", "reading", "cancelling", "refused", "failed", "ended"}
  /\ call \in {"none", "pending", "settled", "failed"}
  /\ clock \in 0..Timeout /\ clock <= elapsed
  /\ stage = "answered" <=> response # << >>
  /\ stage = "route" => call = "pending"
  /\ stage = "head" <=> reader = "none" /\ response = << >>

\* Each status is true of the request: its head, the size of its body, the time
\* it took, its question, the router's answer.  A client is never told of a
\* fault it has not made.
Whole == reader = "ended" /\ totalBytes = request.size
Explained(r) ==
  \/ r.status = 200 /\ Whole /\ validAssessment(Question.assessment) /\ Supported(Question.preferred)
       /\ call = "settled" /\ routed = Fulfilled(r.output[1])
  \/ r.status = 400 /\ Whole
       /\ \/ request.size = 0
          \/ request.body[1] # "question"
          \/ ~Supported(Question.preferred)
  \/ r.status = 408 /\ clock = Timeout
  \/ r.status = 413 /\ request.size > maxBodyBytes /\ call = "none"
  \/ r.status = 415 /\ request.media = "text" /\ reader = "none"
  \/ r.status = 422 /\ Whole /\ ~validAssessment(Question.assessment)
       /\ (request.path = "route" => call = "none")
  \/ r.status = 500
       /\ \/ broken /\ reader = "failed"
          \/ call = "failed"
          \/ call = "settled" /\ routed[1] = "rejected"
AnswersAreExplained == response # << >> => Explained(response[1])

\* However long the client goes on sending, whatever it declared, and also when
\* its request has been answered and nobody reads for it any more, no more than
\* the limit is kept of a body; and the router sees whole bodies within it.
BodyIsBounded ==
  /\ chunks <= maxBodyBytes
  /\ call # "none" => chunks = request.size

\* What comes in behind an answer - the rest of the body, its end, a broken
\* connection, the router's promise - neither answers again nor sets the router
\* to work.
LateAnswersChangeNothing ==
  [][stage = "answered" =>
       /\ UNCHANGED <<stage, response>>
       /\ (call' = "pending" => call = "pending")]_vars

\* A request waits for each of its two timers once, however its body comes in:
\* it is answered within twice the timeout, which time ends at the answer.
AnsweredInTime == elapsed <= 2 * Timeout

\* Every request is answered, also of a client that stops sending and of a
\* router that never settles.
EveryRequestIsAnswered == <>(stage = "answered")
==============================================================================
