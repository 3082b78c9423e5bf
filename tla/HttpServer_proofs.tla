-------------------------- MODULE HttpServer_proofs --------------------------
(***************************************************************************)
(* Theorems about HttpServer, for every configuration, set of requests,    *)
(* body limit and timeout: its bounds, its answers and their reasons, and  *)
(* that HTTP, the MCP tools and the command line give a question the same  *)
(* answer, although each validates in an order of its own.                 *)
(***************************************************************************)
EXTENDS MCHttpServer, TLAPS

\* The body as far as it has come.
BodyInv ==
  /\ request \in Requests /\ limit \in BodyLimits
  /\ stage \in {"head", "body", "route", "answered"}
  /\ reader \in {"none", "reading", "cancelling", "refused", "failed", "ended"}
  /\ sent \in Nat /\ sent <= request.size
  /\ totalBytes \in Nat /\ totalBytes <= sent
  /\ chunks \in Nat
  /\ stage = "head" => reader = "none" /\ call = "none"
  /\ reader = "none" => totalBytes = 0 /\ chunks = 0
  /\ reader = "reading" => chunks = totalBytes
  /\ chunks <= maxBodyBytes
  /\ call # "none" => reader = "ended" /\ chunks = request.size

\* The clock of a stage and the time of the request: a stage has its own timeout.
TimeInv ==
  /\ stage \in {"head", "body", "route", "answered"}
  /\ clock \in Nat /\ clock <= Timeout
  /\ elapsed \in Nat
  /\ stage = "head" => elapsed = 0 /\ clock = 0
  /\ stage = "body" => elapsed = clock
  /\ stage = "route" => elapsed <= Timeout + clock
  /\ elapsed <= 2 * Timeout

-----------------------------------------------------------------------------
\* The limit on a body is a number.
LEMMA LimitType ==
  ASSUME limit \in BodyLimits
  PROVE  maxBodyBytes \in Nat
  BY HttpAssumption DEF maxBodyBytes, normalizePositiveInteger

\* Before the head is read nothing is kept.
LEMMA BodyInvInit == Init => BodyInv
<1> SUFFICES ASSUME Init PROVE BodyInv
  OBVIOUS
<1>1. maxBodyBytes \in Nat
  BY LimitType DEF Init
<1> QED
  BY <1>1, HttpAssumption DEF Init, BodyInv

\* An answer changes nothing that BodyInv looks at but the stage.
LEMMA RefuseStage == \A e : Refuse(e) => stage' = "answered"
  BY DEF Refuse, Answer

\* Every step keeps the count of what is kept of the body.
LEMMA BodyInvStep ==
  ASSUME BodyInv, [Next]_vars
  PROVE  BodyInv'
<1> USE DEF BodyInv
<1>0. maxBodyBytes \in Nat
  BY LimitType
<1>1. CASE ReadHead
  <2>1. \/ stage' = "answered" /\ UNCHANGED reader
        \/ stage' = "body" /\ reader' = "reading"
    BY <1>1, RefuseStage DEF ReadHead
  <2> QED
    BY <1>1, <2>1 DEF ReadHead, given, client, maxBodyBytes
<1>2. CASE ReadChunk
  <2>1. PICK n \in 1..(sent - totalBytes) :
          /\ totalBytes' = totalBytes + n
          /\ IF totalBytes' > maxBodyBytes
             THEN reader' = "cancelling" /\ UNCHANGED chunks
             ELSE chunks' = chunks + n /\ UNCHANGED reader
    BY <1>2 DEF ReadChunk
  <2>2. /\ UNCHANGED <<given, client, stage, call>>
        /\ reader = "reading"
    BY <1>2 DEF ReadChunk
  <2>3. maxBodyBytes' = maxBodyBytes
    BY <2>2 DEF maxBodyBytes, given
  <2> QED
    BY <1>0, <2>1, <2>2, <2>3 DEF given, client
<1>3. CASE CancelDone \/ BodyBreaks
  <2>1. /\ UNCHANGED <<given, client, totalBytes, chunks, call>>
        /\ reader' \in {"refused", "failed"}
        /\ reader \in {"cancelling", "reading"}
        /\ (stage' = "answered" \/ UNCHANGED stage)
    BY <1>3, RefuseStage DEF CancelDone, BodyBreaks, Unheard
  <2> QED
    BY <2>1 DEF given, client, maxBodyBytes
<1>4. CASE BodyEnds
  <2>1. /\ UNCHANGED <<given, client, totalBytes, chunks>>
        /\ reader = "reading" /\ reader' = "ended"
        /\ totalBytes = request.size
    BY <1>4 DEF BodyEnds
  <2>2. stage' \in {"answered", "route"} \/ UNCHANGED stage
    BY <1>4, RefuseStage DEF BodyEnds, HandleBody, Unheard
  <2> QED
    BY <2>1, <2>2 DEF given, client, maxBodyBytes
<1>5. CASE Tick \/ TimerFires
  <2>1. /\ UNCHANGED <<given, client, bodyVars, call>>
        /\ (stage' = "answered" \/ UNCHANGED stage)
    BY <1>5, RefuseStage DEF Tick, TimerFires
  <2>2. stage # "head"
    BY <1>5 DEF Tick, TimerFires, TimerRuns
  <2> QED
    BY <2>1, <2>2 DEF given, client, bodyVars, maxBodyBytes
<1>6. CASE ClientSends \/ ClientBreaks
  <2>1. /\ UNCHANGED <<given, bodyVars, stage, call>>
        /\ sent < request.size
        /\ sent' \in {sent, sent + 1}
    BY <1>6 DEF ClientSends, ClientBreaks
  <2> QED
    BY <2>1, HttpAssumption DEF given, bodyVars, maxBodyBytes
<1>7. CASE RouterAnswers \/ RouterFails
  <2>1. /\ UNCHANGED <<given, client, bodyVars>>
        /\ call = "pending"
    BY <1>7 DEF RouterAnswers, RouterFails
  <2>2. stage' = "answered" \/ UNCHANGED stage
    BY <1>7, RefuseStage DEF RouterAnswers, RouterFails, Answer
  <2> QED
    BY <2>1, <2>2 DEF given, client, bodyVars, maxBodyBytes
<1>8. CASE UNCHANGED vars
  BY <1>8 DEF vars, given, client, bodyVars, maxBodyBytes
<1> QED
  BY <1>1, <1>2, <1>3, <1>4, <1>5, <1>6, <1>7, <1>8 DEF Next, Node

\* No more than the limit is kept of any body, declared or not, heard or not, and
\* the router is only ever given a whole one.
THEOREM BodiesAreBounded == Spec => []BodyIsBounded
<1>1. BodyInv => BodyIsBounded
  BY DEF BodyInv, BodyIsBounded
<1>2. Init => BodyInv
  BY BodyInvInit
<1>3. BodyInv /\ [Next]_vars => BodyInv'
  BY BodyInvStep
<1> QED
  BY <1>1, <1>2, <1>3, PTL DEF Spec

-----------------------------------------------------------------------------
\* Every step keeps the clock tied to the time of the request.
LEMMA TimeInvStep ==
  ASSUME TimeInv, [Next]_vars
  PROVE  TimeInv'
<1> USE HttpAssumption DEF TimeInv
<1>1. CASE ReadHead
  BY <1>1, RefuseStage DEF ReadHead
<1>2. CASE ReadChunk \/ ClientSends \/ ClientBreaks
  BY <1>2 DEF ReadChunk, ClientSends, ClientBreaks
<1>3. CASE CancelDone \/ BodyBreaks
  <2>1. UNCHANGED <<clock, elapsed>> /\ (stage' = "answered" \/ UNCHANGED stage)
    BY <1>3, RefuseStage DEF CancelDone, BodyBreaks, Unheard
  <2> QED
    BY <2>1
<1>4. CASE BodyEnds
  <2>1. /\ UNCHANGED elapsed
        /\ \/ UNCHANGED <<clock, stage>>
           \/ UNCHANGED clock /\ stage' = "answered"
           \/ stage = "body" /\ clock' = 0 /\ stage' = "route"
    BY <1>4, RefuseStage DEF BodyEnds, HandleBody, Unheard
  <2> QED
    BY <2>1
<1>5. CASE Tick
  BY <1>5 DEF Tick, TimerRuns
<1>6. CASE TimerFires
  BY <1>6, RefuseStage DEF TimerFires
<1>7. CASE RouterAnswers \/ RouterFails
  <2>1. UNCHANGED <<clock, elapsed>> /\ (stage' = "answered" \/ UNCHANGED stage)
    BY <1>7, RefuseStage DEF RouterAnswers, RouterFails, Answer
  <2> QED
    BY <2>1
<1>8. CASE UNCHANGED vars
  BY <1>8 DEF vars
<1> QED
  BY <1>1, <1>2, <1>3, <1>4, <1>5, <1>6, <1>7, <1>8 DEF Next, Node

\* A request takes at most one timeout for its body and one for the router,
\* whatever its client and the router do.
THEOREM RequestsTakeTwoTimeouts == Spec => []AnsweredInTime
<1>1. Init => TimeInv
  BY HttpAssumption DEF Init, TimeInv
<1>2. TimeInv /\ [Next]_vars => TimeInv'
  BY TimeInvStep
<1>3. TimeInv => AnsweredInTime
  BY DEF TimeInv, AnsweredInTime
<1> QED
  BY <1>1, <1>2, <1>3, PTL DEF Spec

-----------------------------------------------------------------------------
\* Behind an answer the request stays as it is.
LEMMA AnswersAreFinalStep ==
  ASSUME [Next]_vars, stage = "answered"
  PROVE  /\ UNCHANGED <<stage, response>>
         /\ call' = "pending" => call = "pending"
<1>1. CASE ReadHead \/ Tick \/ TimerFires
  BY <1>1 DEF ReadHead, Tick, TimerFires, TimerRuns
<1>2. CASE ReadChunk \/ ClientSends \/ ClientBreaks
  BY <1>2 DEF ReadChunk, ClientSends, ClientBreaks
<1>3. CASE CancelDone \/ BodyBreaks \/ BodyEnds
  BY <1>3 DEF CancelDone, BodyBreaks, BodyEnds, Unheard
<1>4. CASE RouterAnswers \/ RouterFails
  BY <1>4 DEF RouterAnswers, RouterFails
<1>5. CASE UNCHANGED vars
  BY <1>5 DEF vars
<1> QED
  BY <1>1, <1>2, <1>3, <1>4, <1>5 DEF Next, Node

\* A step behind the answer leaves the answer as it is and calls nothing.
THEOREM AnswersAreFinal == Spec => LateAnswersChangeNothing
  BY AnswersAreFinalStep, PTL DEF Spec, LateAnswersChangeNothing

-----------------------------------------------------------------------------
\* Where a request is: that it has an answer when it is answered, that its router is at
\* work in its last stage, and that its body is read from its first on.
StageInv ==
  /\ stage = "answered" <=> response # << >>
  /\ stage = "route" => call = "pending"
  /\ stage = "head" <=> reader = "none" /\ response = << >>
  /\ call \in {"none", "pending", "settled", "failed"}
  /\ chunks <= totalBytes
  /\ clock <= elapsed

\* What an error makes of a request.
LEMMA Refused ==
  ASSUME NEW e, Refuse(e)
  PROVE  /\ stage' = "answered" /\ response' # << >>
         /\ response'[1].status = Status(e)
<1>1. stage' = "answered" /\ response' = <<[status |-> Status(e), output |-> << >>]>>
  BY DEF Refuse, Answer
<1> QED
  BY <1>1

\* Every step keeps the stage tied to what has been read and called.
LEMMA StageInvStep ==
  ASSUME BodyInv, TimeInv, StageInv, [Next]_vars
  PROVE  StageInv'
<1> USE DEF StageInv
<1>time. (clock <= elapsed)'
  <2>1. \/ UNCHANGED <<clock, elapsed>>
        \/ clock' = 0 /\ UNCHANGED elapsed
        \/ clock' = clock + 1 /\ elapsed' = elapsed + 1
    BY DEF Next, Node, ReadHead, ReadChunk, CancelDone, BodyBreaks, BodyEnds, HandleBody, Unheard,
       Tick, TimerFires, ClientSends, ClientBreaks, RouterAnswers, RouterFails, vars
  <2> QED
    BY <2>1 DEF TimeInv
<1>1. CASE ReadHead
  BY <1>1, <1>time, Refused DEF ReadHead, BodyInv
<1>2. CASE ReadChunk
  <2>1. PICK n \in 1..(sent - totalBytes) :
          totalBytes' = totalBytes + n /\ (chunks' = chunks \/ chunks' = chunks + n)
    BY <1>2 DEF ReadChunk
  <2>2. reader = "reading" /\ reader' \in {"reading", "cancelling"}
        /\ UNCHANGED <<stage, call, response>>
    BY <1>2 DEF ReadChunk
  <2>3. chunks' <= totalBytes'
    BY <2>1 DEF BodyInv
  <2> QED
    BY <1>time, <2>2, <2>3
<1>3. CASE CancelDone \/ BodyBreaks
  BY <1>3, <1>time, Refused DEF CancelDone, BodyBreaks, Unheard
<1>4. CASE BodyEnds
  BY <1>4, <1>time, Refused DEF BodyEnds, HandleBody, Unheard
<1>5. CASE Tick \/ TimerFires
  BY <1>5, <1>time, Refused DEF Tick, TimerFires, TimerRuns, bodyVars, BodyInv
<1>6. CASE ClientSends \/ ClientBreaks
  BY <1>6, <1>time DEF ClientSends, ClientBreaks, bodyVars
<1>7. CASE RouterAnswers \/ RouterFails
  <2>1. /\ call = "pending" /\ call' \in {"settled", "failed"} /\ UNCHANGED bodyVars
        /\ \/ stage = "route" /\ stage' = "answered" /\ response' # << >>
           \/ stage # "route" /\ UNCHANGED <<stage, response>>
    BY <1>7, Refused DEF RouterAnswers, RouterFails, Answer
  <2> QED
    BY <1>time, <2>1 DEF bodyVars, BodyInv
<1>8. CASE UNCHANGED vars
  BY <1>8, <1>time DEF vars, bodyVars
<1> QED
  BY <1>1, <1>2, <1>3, <1>4, <1>5, <1>6, <1>7, <1>8 DEF Next, Node

\* The three invariants together.
RequestInv == BodyInv /\ TimeInv /\ StageInv

\* Body, clock and stage of a request together.
LEMMA RequestInvariant == Spec => []RequestInv
<1>1. Init => RequestInv
  BY BodyInvInit, HttpAssumption DEF Init, RequestInv, TimeInv, StageInv
<1>2. RequestInv /\ [Next]_vars => RequestInv'
  BY BodyInvStep, TimeInvStep, StageInvStep DEF RequestInv
<1> QED
  BY <1>1, <1>2, PTL DEF Spec

\* Every variable has its type, in every stage and behind the answer.
THEOREM TypeCorrect == Spec => []HttpTypes
<1>1. RequestInv => HttpTypes
  <2> SUFFICES ASSUME RequestInv
               PROVE  HttpTypes
    OBVIOUS
  <2>1. request.size \in Nat
    BY HttpAssumption DEF RequestInv, BodyInv
  <2>2. sent \in 0..request.size /\ totalBytes \in 0..sent /\ chunks \in 0..totalBytes
    BY <2>1 DEF RequestInv, BodyInv, StageInv
  <2>3. clock \in 0..Timeout
    BY HttpAssumption DEF RequestInv, TimeInv
  <2> QED
    BY <2>2, <2>3 DEF RequestInv, BodyInv, TimeInv, StageInv, HttpTypes
<1> QED
  BY <1>1, RequestInvariant, PTL

-----------------------------------------------------------------------------
\* What the stages have found out about the request, which the answer then says: a
\* reader that is done has read everything, one that was stopped has read too much, and
\* the router is asked only what the handler did not refuse.
FoundInv ==
  /\ reader = "ended" => totalBytes = request.size
  /\ reader = "cancelling" => totalBytes > maxBodyBytes
  /\ call # "none" => Handled[1] = "fulfilled"

\* What is read of the request and of the configuration stays.
LEMMA SameQuestion ==
  ASSUME UNCHANGED given
  PROVE  /\ maxBodyBytes' = maxBodyBytes /\ routed' = routed /\ Handled' = Handled
         /\ request' = request /\ Question' = Question
  BY DEF given, maxBodyBytes, routed, Handled, parsed, Question

\* Every step keeps what the router has found about the question.
LEMMA FoundInvStep ==
  ASSUME BodyInv, StageInv, FoundInv, [Next]_vars
  PROVE  FoundInv'
<1> USE DEF FoundInv
<1>0. UNCHANGED given
  BY DEF Next, Node, ReadHead, ReadChunk, CancelDone, BodyBreaks, BodyEnds,
     Tick, TimerFires, ClientSends, ClientBreaks, RouterAnswers, RouterFails, vars
<1>1. CASE ReadHead
  BY <1>0, <1>1, SameQuestion DEF ReadHead, BodyInv
<1>2. CASE ReadChunk
  <2>1. /\ reader = "reading" /\ UNCHANGED call
        /\ reader' = "reading" \/ (reader' = "cancelling" /\ totalBytes' > maxBodyBytes)
    BY <1>2 DEF ReadChunk
  <2> QED
    BY <1>0, <2>1, SameQuestion
<1>3. CASE CancelDone \/ BodyBreaks
  BY <1>0, <1>3, SameQuestion DEF CancelDone, BodyBreaks, Unheard
<1>4. CASE BodyEnds
  <2>1. call' # "none" => Handled[1] = "fulfilled"
    <3>1. Handled[1] \in {"fulfilled", "rejected"}
      BY DEF Handled, parsed, Fulfilled, Rejected
    <3> QED
      BY <1>4, <3>1 DEF BodyEnds, HandleBody, Unheard
  <2> QED
    BY <1>0, <1>4, <2>1, SameQuestion DEF BodyEnds
<1>5. CASE Tick \/ TimerFires \/ ClientSends \/ ClientBreaks
  BY <1>0, <1>5, SameQuestion DEF Tick, TimerFires, ClientSends, ClientBreaks, bodyVars
<1>6. CASE RouterAnswers \/ RouterFails
  BY <1>0, <1>6, SameQuestion DEF RouterAnswers, RouterFails, bodyVars
<1>7. CASE UNCHANGED vars
  BY <1>0, <1>7, SameQuestion DEF vars, bodyVars
<1> QED
  BY <1>1, <1>2, <1>3, <1>4, <1>5, <1>6, <1>7 DEF Next, Node

\* What explains an answer is never undone: whatever goes on behind it.
LEMMA ExplainedStays ==
  ASSUME NEW r, Explained(r), UNCHANGED <<given, clock>>,
         reader \in {"none", "ended", "failed"} => reader' = reader,
         reader = "ended" => totalBytes' = totalBytes,
         broken => broken',
         call \in {"none", "settled", "failed"} => call' = call
  PROVE  Explained(r)'
  BY SameQuestion DEF Explained, Whole

\* A step behind the answer.
LEMMA AnsweredStaysExplained ==
  ASSUME BodyInv, StageInv, stage = "answered", Explained(response[1]), [Next]_vars
  PROVE  Explained(response[1])' /\ response' = response
<1>1. CASE ReadHead \/ Tick \/ TimerFires
  BY <1>1 DEF ReadHead, Tick, TimerFires, TimerRuns
<1>2. CASE ReadChunk \/ CancelDone \/ BodyBreaks \/ BodyEnds
  <2>1. /\ UNCHANGED <<given, clock, response, broken, call>>
        /\ reader \in {"reading", "cancelling"}
    BY <1>2 DEF ReadChunk, CancelDone, BodyBreaks, BodyEnds, Unheard, client
  <2> QED
    BY <2>1, ExplainedStays
<1>3. CASE ClientSends \/ ClientBreaks
  <2>1. /\ UNCHANGED <<given, clock, response, bodyVars, call>>
        /\ broken => broken'
    BY <1>3 DEF ClientSends, ClientBreaks
  <2> QED
    BY <2>1, ExplainedStays DEF bodyVars
<1>4. CASE RouterAnswers \/ RouterFails
  <2>1. /\ UNCHANGED <<given, clock, response, bodyVars, broken>>
        /\ call = "pending"
    BY <1>4 DEF RouterAnswers, RouterFails, client
  <2> QED
    BY <2>1, ExplainedStays DEF bodyVars
<1>5. CASE UNCHANGED vars
  <2>1. UNCHANGED <<given, clock, response, bodyVars, broken, call>>
    BY <1>5 DEF vars, client
  <2> QED
    BY <2>1, ExplainedStays DEF bodyVars
<1> QED
  BY <1>1, <1>2, <1>3, <1>4, <1>5 DEF Next, Node

\* The step that answers.
LEMMA AnswerIsExplained ==
  ASSUME BodyInv, StageInv, FoundInv, stage # "answered", [Next]_vars, response' # << >>
  PROVE  Explained(response[1])'
<1>0. UNCHANGED given /\ response = << >>
  BY DEF Next, Node, ReadHead, ReadChunk, CancelDone, BodyBreaks, BodyEnds, StageInv,
     Tick, TimerFires, ClientSends, ClientBreaks, RouterAnswers, RouterFails, vars
<1>same. /\ maxBodyBytes' = maxBodyBytes /\ routed' = routed /\ Handled' = Handled
         /\ request' = request /\ Question' = Question
  BY <1>0, SameQuestion
<1>1. CASE ReadHead
  <2>1. CASE request.media = "text"
    <3>1. response'[1].status = 415 /\ reader' = "none"
      BY <1>1, <2>1, Refused DEF ReadHead, Status, BodyInv
    <3> QED
      BY <1>same, <2>1, <3>1 DEF Explained
  <2>2. CASE request.media # "text"
    <3>1. response'[1].status = 413 /\ request.size > maxBodyBytes /\ call' = "none"
      BY <1>0, <1>1, <2>2, Refused DEF ReadHead, Status, BodyInv
    <3> QED
      BY <1>same, <3>1 DEF Explained
  <2> QED
    BY <2>1, <2>2
<1>2. CASE CancelDone
  <2>1. response'[1].status = 413 /\ call' = call /\ reader = "cancelling"
    BY <1>0, <1>2, Refused DEF CancelDone, Unheard, Status
  <2>2. call = "none"
    BY <2>1 DEF BodyInv
  <2>3. request.size > maxBodyBytes
    <3>1. maxBodyBytes \in Nat /\ request.size \in Nat
      BY LimitType, HttpAssumption DEF BodyInv
    <3> QED
      BY <2>1, <3>1 DEF BodyInv, FoundInv
  <2> QED
    BY <1>same, <2>1, <2>2, <2>3 DEF Explained
<1>3. CASE BodyBreaks
  <2>1. response'[1].status = 500 /\ broken' /\ reader' = "failed"
    BY <1>0, <1>3, Refused DEF BodyBreaks, Unheard, Status, client
  <2> QED
    BY <2>1 DEF Explained
<1>4. CASE BodyEnds
  <2>1. /\ Handled[1] = "rejected" /\ response'[1].status = Status(Handled[2])
        /\ call' = call /\ reader = "reading"
        /\ Whole'
    BY <1>0, <1>4, <1>same, Refused DEF BodyEnds, Unheard, HandleBody, Whole
  <2>2. call = "none"
    BY <2>1 DEF BodyInv
  <2>3. CASE parsed[1] = "rejected"
    <3>1. /\ Handled[2] \in {"INVALID_JSON", "INVALID_REQUEST"}
          /\ \/ request.size = 0
             \/ request.body[1] # "question"
             \/ ~Supported(Question.preferred)
      BY <2>3 DEF Handled, parsed, Fulfilled, Rejected
    <3>2. response'[1].status = 400
      BY <2>1, <3>1 DEF Status
    <3> QED
      BY <1>same, <2>1, <3>1, <3>2 DEF Explained
  <2>4. CASE parsed[1] # "rejected"
    <3>1. Handled[2] = "TaskAssessmentValidationError" /\ ~validAssessment(Question.assessment)
      BY <2>1, <2>4 DEF Handled, parsed, Fulfilled, Rejected
    <3>2. response'[1].status = 422 /\ call' = "none"
      BY <2>1, <2>2, <3>1 DEF Status
    <3>3. ~validAssessment(Question.assessment)'
      BY <1>same, <3>1 DEF validAssessment
    <3> QED
      BY <2>1, <3>2, <3>3 DEF Explained
  <2> QED
    BY <2>3, <2>4
<1>5. CASE TimerFires
  <2>1. response'[1].status = 408 /\ clock' = Timeout
    BY <1>5, Refused DEF TimerFires, Status
  <2> QED
    BY <2>1 DEF Explained
<1>6. CASE RouterFails
  <2>1. response'[1].status = 500 /\ call' = "failed"
    BY <1>0, <1>6, Refused DEF RouterFails, Status
  <2> QED
    BY <2>1 DEF Explained
<1>7. CASE RouterAnswers
  <2>1. /\ stage = "route" /\ call = "pending" /\ call' = "settled"
        /\ UNCHANGED bodyVars
        /\ IF routed[1] = "rejected" THEN Refuse(routed[2])
           ELSE Answer(200, <<routed[2]>>)
    BY <1>0, <1>7 DEF RouterAnswers
  <2>2. Whole'
    BY <1>same, <2>1 DEF BodyInv, FoundInv, Whole, bodyVars
  <2>3. /\ Supported(Question.preferred)
        /\ request.path = "route" => validAssessment(Question.assessment)
    BY <2>1 DEF FoundInv, Handled, parsed, Rejected
  <2>4. CASE routed[1] = "rejected"
    <3>1. response'[1].status = Status(routed[2])
      BY <2>1, <2>4, Refused
    <3>2. CASE routed[2] = "TaskAssessmentValidationError"
      <4>1. request.path # "route" /\ ~validAssessment(Question.assessment)
        BY <2>4, <3>2 DEF routed, prepareAgentExecution, routeTask, Fulfilled, Rejected
      <4>2. response'[1].status = 422
        BY <3>1, <3>2 DEF Status
      <4>3. ~validAssessment(Question.assessment)' /\ request'.path # "route"
        BY <1>same, <4>1 DEF validAssessment
      <4> QED
        BY <2>2, <4>2, <4>3 DEF Explained
    <3>3. CASE routed[2] # "TaskAssessmentValidationError"
      <4>1. routed[2] = "RoutingPolicyError"
        BY <2>4, <3>3 DEF routed, prepareAgentExecution, routeTask, Fulfilled, Rejected
      <4>2. response'[1].status = 500
        BY <3>1, <4>1 DEF Status
      <4> QED
        BY <1>same, <2>1, <2>4, <4>2 DEF Explained
    <3> QED
      BY <3>2, <3>3
  <2>5. CASE routed[1] # "rejected"
    <3>1. routed = Fulfilled(routed[2])
      BY <2>5 DEF routed, prepareAgentExecution, routeTask, Fulfilled, Rejected
    <3>2. validAssessment(Question.assessment)
      BY <2>3, <2>5 DEF routed, prepareAgentExecution, Rejected
    <3>3. response'[1].status = 200 /\ response'[1].output[1] = routed[2]
      BY <2>1, <2>5 DEF Answer
    <3>4. validAssessment(Question.assessment)' /\ Supported(Question.preferred)'
      BY <1>same, <2>3, <3>2 DEF validAssessment, Supported
    <3>5. routed' = Fulfilled(response'[1].output[1])
      BY <1>same, <3>1, <3>3
    <3> QED
      BY <2>1, <2>2, <3>3, <3>4, <3>5 DEF Explained, Fulfilled
  <2> QED
    BY <2>4, <2>5
<1>8. CASE ReadChunk \/ Tick \/ ClientSends \/ ClientBreaks \/ UNCHANGED vars
  BY <1>0, <1>8 DEF ReadChunk, Tick, ClientSends, ClientBreaks, vars
<1> QED
  BY <1>1, <1>2, <1>3, <1>4, <1>5, <1>6, <1>7, <1>8 DEF Next, Node

\* What an answer says of the question.
LEMMA FoundInvariant == Spec => []FoundInv
<1>1. Init => FoundInv
  BY DEF Init, FoundInv
<1>2. RequestInv /\ FoundInv /\ [Next]_vars => FoundInv'
  BY FoundInvStep DEF RequestInv
<1> QED
  BY <1>1, <1>2, RequestInvariant, PTL DEF Spec

\* Every status is true of its request, whatever the client, the two timers and the
\* router do and in whatever order.
THEOREM AnswersHaveReasons == Spec => []AnswersAreExplained
<1>1. Init => AnswersAreExplained
  BY DEF Init, AnswersAreExplained
<1>2. RequestInv /\ FoundInv /\ AnswersAreExplained /\ [Next]_vars => AnswersAreExplained'
  <2> SUFFICES ASSUME BodyInv, StageInv, FoundInv, AnswersAreExplained, [Next]_vars
               PROVE  AnswersAreExplained'
    BY DEF RequestInv
  <2>1. CASE stage = "answered"
    <3>1. Explained(response[1])
      BY <2>1 DEF StageInv, AnswersAreExplained
    <3> QED
      BY <2>1, <3>1, AnsweredStaysExplained DEF AnswersAreExplained
  <2>2. CASE stage # "answered"
    BY <2>2, AnswerIsExplained DEF AnswersAreExplained
  <2> QED
    BY <2>1, <2>2
<1> QED
  BY <1>1, <1>2, RequestInvariant, FoundInvariant, PTL DEF Spec

-----------------------------------------------------------------------------
\* The other front ends

\* What Explained leaves open: an answer is what the router gave and no more, a router
\* that is still at work has been given up for its time, an assessment is refused when the
\* provider has been accepted, and a router that has settled fails a request by its policy alone.
Told(r) ==
  /\ r.status = 200 => r.output = <<routed[2]>>
  /\ call = "pending" => r.status = 408
  /\ r.status = 422 => Supported(Question.preferred)
  /\ r.status = 500 /\ call = "settled" => routed = Rejected("RoutingPolicyError")
ToldInv == response # << >> => Told(response[1])

\* Behind the answer the router may settle, of a request that has timed out.
LEMMA AnsweredStaysTold ==
  ASSUME StageInv, ToldInv, stage = "answered", [Next]_vars
  PROVE  ToldInv'
<1>1. UNCHANGED given /\ UNCHANGED response
  BY AnswersAreFinalStep
  DEF Next, Node, ReadHead, ReadChunk, CancelDone, BodyBreaks, BodyEnds,
      Tick, TimerFires, ClientSends, ClientBreaks, RouterAnswers, RouterFails, vars
<1>2. call' = call \/ (call = "pending" /\ call' \in {"settled", "failed"})
  BY DEF Next, Node, ReadHead, ReadChunk, CancelDone, BodyBreaks, BodyEnds, HandleBody, Unheard,
     Tick, TimerFires, ClientSends, ClientBreaks, RouterAnswers, RouterFails, vars
<1> QED
  BY <1>1, <1>2, SameQuestion DEF ToldInv, Told

\* The step that answers.
LEMMA AnswerIsTold ==
  ASSUME BodyInv, StageInv, FoundInv, stage # "answered", [Next]_vars
  PROVE  ToldInv'
<1>0. UNCHANGED given /\ response = << >>
  BY DEF Next, Node, ReadHead, ReadChunk, CancelDone, BodyBreaks, BodyEnds, StageInv,
     Tick, TimerFires, ClientSends, ClientBreaks, RouterAnswers, RouterFails, vars
<1>same. request' = request /\ routed' = routed /\ Handled' = Handled
  BY <1>0, SameQuestion
<1> SUFFICES ASSUME response' # << >>
             PROVE  Told(response[1])'
  BY DEF ToldInv
<1>1. CASE ReadHead \/ CancelDone \/ BodyBreaks
  <2>1. response'[1].status \in {413, 415, 500} /\ call' = call
    BY <1>0, <1>1, Refused DEF ReadHead, CancelDone, BodyBreaks, Unheard, Status
  <2>2. call = "none"
    BY <1>1 DEF ReadHead, CancelDone, BodyBreaks, BodyInv
  <2> QED
    BY <2>1, <2>2 DEF Told
<1>2. CASE BodyEnds
  <2>1. /\ Handled[1] = "rejected" /\ response'[1].status = Status(Handled[2])
        /\ call' = call /\ reader = "reading"
    BY <1>0, <1>2, Refused DEF BodyEnds, Unheard, HandleBody
  <2>2. call = "none"
    BY <2>1 DEF BodyInv
  <2>3. \/ Handled[2] \in {"INVALID_JSON", "INVALID_REQUEST"}
        \/ Supported(Question.preferred) /\ Handled[2] = "TaskAssessmentValidationError"
    BY <2>1 DEF Handled, parsed, Fulfilled, Rejected
  <2>4. \/ response'[1].status = 400
        \/ Supported(Question.preferred) /\ response'[1].status = 422
    BY <2>1, <2>3 DEF Status
  <2>5. Supported(Question.preferred)' <=> Supported(Question.preferred)
    BY <1>same DEF Question, Supported
  <2> QED
    BY <1>same, <2>1, <2>2, <2>4, <2>5 DEF Told
<1>3. CASE TimerFires
  BY <1>3, Refused DEF TimerFires, Told, Status
<1>4. CASE RouterFails
  <2>1. response'[1].status = 500 /\ call' = "failed"
    BY <1>0, <1>4, Refused DEF RouterFails, Status
  <2> QED
    BY <2>1 DEF Told
<1>5. CASE RouterAnswers
  <2>1. /\ call = "pending" /\ call' = "settled"
        /\ IF routed[1] = "rejected" THEN Refuse(routed[2])
           ELSE Answer(200, <<routed[2]>>)
    BY <1>0, <1>5 DEF RouterAnswers
  <2>asked. Supported(Question.preferred)'
    BY <1>same, <2>1 DEF FoundInv, Handled, parsed, Rejected
  <2>2. CASE routed[1] = "rejected"
    <3>1. routed \in {Rejected("TaskAssessmentValidationError"), Rejected("RoutingPolicyError")}
      BY <2>2 DEF routed, prepareAgentExecution, routeTask, Fulfilled, Rejected
    <3>2. response'[1].status = Status(routed[2])
      BY <2>1, <2>2, Refused
    <3>3. \/ response'[1].status = 422
          \/ routed = Rejected("RoutingPolicyError") /\ response'[1].status = 500
      BY <3>1, <3>2 DEF Rejected, Status
    <3> QED
      BY <1>same, <2>1, <2>asked, <3>3 DEF Told, Rejected
  <2>3. CASE routed[1] # "rejected"
    <3>1. response'[1].status = 200 /\ response'[1].output = <<routed[2]>>
      BY <2>1, <2>3 DEF Answer
    <3> QED
      BY <1>same, <2>1, <3>1 DEF Told
  <2> QED
    BY <2>2, <2>3
<1>6. CASE ReadChunk \/ Tick \/ ClientSends \/ ClientBreaks \/ UNCHANGED vars
  BY <1>0, <1>6 DEF ReadChunk, Tick, ClientSends, ClientBreaks, vars
<1> QED
  BY <1>1, <1>2, <1>3, <1>4, <1>5, <1>6 DEF Next, Node

\* What an answer says of the router.
LEMMA ToldInvariant == Spec => []ToldInv
<1>1. Init => ToldInv
  BY DEF Init, ToldInv
<1>2. RequestInv /\ FoundInv /\ ToldInv /\ [Next]_vars => ToldInv'
  BY AnsweredStaysTold, AnswerIsTold DEF RequestInv
<1> QED
  BY <1>1, <1>2, RequestInvariant, FoundInvariant, PTL DEF Spec

-----------------------------------------------------------------------------
\* The command line

\* The arguments that the usage gives are read as they are meant, unless the provider is
\* none that there is.
LEMMA UsageIsRead ==
  ASSUME NEW p
  PROVE  LET args == usage(p, "task.json")
         IN  rawProvider(args) = p /\ (Supported(p) => filePath(args) = "task.json")
<1>1. CASE p = "none"
  <2> DEFINE args == <<"--", "task.json">>
  <2>1. usage(p, "task.json") = args
    BY <1>1 DEF usage
  <2>2. DOMAIN args = 1..2 /\ args[1] = "--" /\ args[2] = "task.json" /\ Len(args) = 2
    OBVIOUS
  <2> HIDE DEF args
  <2>3. providerFlag(args) = 0
    BY <2>2 DEF providerFlag
  <2>4. {i \in DOMAIN args : args[i] \notin {"--", "--provider"} /\ i # 0 + 1} = {2}
    BY <2>2
  <2>5. filePath(args) = args[2]
    BY <2>2, <2>3, <2>4 DEF filePath
  <2>6. rawProvider(args) = "none"
    BY <2>3 DEF rawProvider
  <2> QED
    BY <1>1, <2>1, <2>2, <2>5, <2>6
<1>2. CASE p # "none"
  <2> DEFINE args == <<"--", "--provider", p, "task.json">>
  <2>1. usage(p, "task.json") = args
    BY <1>2 DEF usage
  <2>2. /\ DOMAIN args = 1..4 /\ Len(args) = 4
        /\ args[1] = "--" /\ args[2] = "--provider" /\ args[3] = p /\ args[4] = "task.json"
    OBVIOUS
  <2> HIDE DEF args
  <2>3. providerFlag(args) = 2
    <3> DEFINE at == {i \in DOMAIN args : args[i] = "--provider"}
    <3>1. 2 \in at /\ at \subseteq 2..3
      BY <2>2
    <3>2. (CHOOSE i \in at : \A j \in at : i <= j) = 2
      BY <3>1
    <3> QED
      BY <3>1, <3>2 DEF providerFlag
  <2>4. rawProvider(args) = p
    BY <2>2, <2>3 DEF rawProvider
  <2>5. ASSUME Supported(p)
        PROVE  filePath(args) = "task.json"
    <3>1. {i \in DOMAIN args : args[i] \notin {"--", "--provider"} /\ i # 2 + 1} = {4}
      BY <2>2
    <3> QED
      BY <2>2, <2>3, <3>1 DEF filePath
  <2> QED
    BY <2>1, <2>4, <2>5
<1> QED
  BY <1>1, <1>2

\* What the command line does with a question in a file.
LEMMA CommandLine ==
  CommandAnswer =
    IF ~Supported(Question.preferred) \/ ~validAssessment(Question.assessment)
    THEN Exits(1)
    ELSE printed(routeTask(config, Question.assessment, Question.preferred))
<1> DEFINE args == usage(Question.preferred, "task.json")
           files == [path \in {"task.json"} |-> Question.assessment]
<1>1. rawProvider(args) = Question.preferred
  BY UsageIsRead
<1>2. Supported(Question.preferred) => filePath(args) = "task.json"
  BY UsageIsRead
<1>3. DOMAIN files = {"task.json"} /\ files["task.json"] = Question.assessment
  OBVIOUS
<1>4. CommandAnswer = main(config, args, files)
  BY DEF CommandAnswer
<1> HIDE DEF args, files
<1> QED
  BY <1>1, <1>2, <1>3, <1>4 DEF main

-----------------------------------------------------------------------------
\* The agreement

\* An assessment that the published schema takes meets the input schema of the tools.
LEMMA ValidIsObject ==
  ASSUME NEW a, validAssessment(a)
  PROVE  isObject(a)
<1>1. a \in TaskAssessments(SubtaskCounts)
  BY DEF validAssessment
<1>2. "task_type" \in DOMAIN a
  BY <1>1 DEF TaskAssessments
<1>3. DOMAIN NoObject = {}
  BY DEF NoObject
<1> QED
  BY <1>2, <1>3 DEF isObject

\* The three front ends agree on every question, but for what befalls a request on its
\* way: the same output, or a fault of the same kind, where the MCP server refuses by its
\* input schema what HTTP refuses as an assessment.
THEOREM FrontEndsAlwaysAgree == Spec => []FrontEndsAgree
<1>1. ASSUME RequestInv, FoundInv, ToldInv, AnswersAreExplained,
             response # << >>, request.body[1] = "question", NEW r, r = response[1]
      PROVE  /\ r.status = 200 => ToolAnswer = Fulfilled(r.output[1])
             /\ r.status = 422 =>
                  ToolAnswer = Rejected(IF isObject(Question.assessment)
                                        THEN "INVALID_TASK_ASSESSMENT" ELSE "InvalidParams")
             /\ r.status = 400 =>
                  ToolAnswer \in {Rejected("INVALID_PREFERRED_PROVIDER"),
                                  Rejected("INVALID_TASK_ASSESSMENT"),
                                  Rejected("InvalidParams")}
             /\ r.status = 500 /\ call = "settled" => ToolAnswer = Rejected("ROUTING_ERROR")
             /\ request.path = "route" /\ Question.preferred # "not_text" =>
                  /\ r.status = 200 => CommandAnswer = [exit |-> 0, output |-> r.output]
                  /\ r.status \in {400, 422} => CommandAnswer = Exits(1)
  <2>1. Explained(r) /\ Told(r) /\ request.size > 0
    BY <1>1, HttpAssumption DEF AnswersAreExplained, ToldInv, RequestInv, BodyInv
  <2>asked. call # "none" =>
              /\ Supported(Question.preferred)
              /\ request.path = "route" => validAssessment(Question.assessment)
    BY <1>1 DEF FoundInv, Handled, parsed, Rejected
  <2>2. CASE r.status = 200
    <3>1. /\ validAssessment(Question.assessment) /\ Supported(Question.preferred)
          /\ routed = Fulfilled(r.output[1]) /\ r.output = <<routed[2]>>
      BY <2>1, <2>2 DEF Explained, Told
    <3>schema. toolInputSchema(Question)
      BY <3>1, ValidIsObject DEF toolInputSchema, Supported, MODEL_PROVIDERS
    <3>2. ToolAnswer = Fulfilled(r.output[1])
      BY <3>1, <3>schema DEF ToolAnswer, registeredTool, routeTaskTool, prepareExecutionTool, toolOptions,
         routed, Fulfilled
    <3>3. request.path = "route" => CommandAnswer = [exit |-> 0, output |-> r.output]
      BY <3>1, CommandLine DEF printed, routed, Fulfilled
    <3> QED
      BY <2>2, <3>2, <3>3
  <2>3. CASE r.status = 422
    <3>1. ~validAssessment(Question.assessment)
      BY <2>1, <2>3 DEF Explained
    <3>2. Supported(Question.preferred) /\ Question.preferred # "not_text"
      BY <2>1, <2>asked, <2>3 DEF Told, Supported, MODEL_PROVIDERS
    <3>3. ToolAnswer = registeredTool(Question, Rejected("TaskAssessmentValidationError"))
      BY <3>1, <3>2
      DEF ToolAnswer, routeTaskTool, prepareExecutionTool, toolOptions, prepareAgentExecution,
          Fulfilled
    <3>4. ToolAnswer = Rejected(IF isObject(Question.assessment)
                                THEN "INVALID_TASK_ASSESSMENT" ELSE "InvalidParams")
      BY <3>2, <3>3 DEF registeredTool, toolInputSchema, toMcpToolError, Rejected
    <3> QED
      BY <2>3, <3>1, <3>4, CommandLine
  <2>4. CASE r.status = 400
    <3>1. ~Supported(Question.preferred)
      BY <1>1, <2>1, <2>4 DEF Explained
    <3>2. ToolAnswer \in {Rejected("INVALID_PREFERRED_PROVIDER"),
                          Rejected("INVALID_TASK_ASSESSMENT"), Rejected("InvalidParams")}
      BY <3>1
      DEF ToolAnswer, registeredTool, routeTaskTool, prepareExecutionTool, toolOptions,
          toMcpToolError, Rejected
    <3> QED
      BY <2>4, <3>1, <3>2, CommandLine
  <2>5. CASE r.status = 500 /\ call = "settled"
    <3>1. routed = Rejected("RoutingPolicyError")
      BY <2>1, <2>5 DEF Told
    <3>2. Supported(Question.preferred)
      BY <2>5, <2>asked
    <3>3. validAssessment(Question.assessment)
      BY <2>5, <2>asked, <3>1 DEF routed, prepareAgentExecution, Rejected
    <3>schema. toolInputSchema(Question)
      BY <3>2, <3>3, ValidIsObject DEF toolInputSchema, Supported, MODEL_PROVIDERS
    <3>4. ToolAnswer = registeredTool(Question, routed)
      BY <3>2, <3>3
      DEF ToolAnswer, routeTaskTool, prepareExecutionTool, toolOptions, routed, Fulfilled
    <3>5. ToolAnswer = Rejected("ROUTING_ERROR")
      BY <3>1, <3>4, <3>schema DEF registeredTool, toMcpToolError, Rejected
    <3> QED
      BY <2>5, <3>5
  <2> QED
    BY <2>2, <2>3, <2>4, <2>5
<1>2. RequestInv /\ FoundInv /\ ToldInv /\ AnswersAreExplained => FrontEndsAgree
  BY <1>1 DEF FrontEndsAgree
<1> QED
  BY <1>2, RequestInvariant, FoundInvariant, ToldInvariant, AnswersHaveReasons, PTL
==============================================================================
