-------------------------- MODULE ExecutorRun_proofs --------------------------
(***************************************************************************)
(* Theorems about runs with an executor of this repository in them: that   *)
(* they are runs of RunExecutionPlan, what a success stands for, what a    *)
(* byte limit refuses, what is left at work and what is done again, for    *)
(* every plan, every policy, every executor, every limit and every peer.   *)
(***************************************************************************)
EXTENDS ExecutorRun, RunLoop_proofs

\* What a call hands to the runner is among the outcomes that the runner's model
\* expects of an operation.
LEMMA OutcomesExpected ==
  ASSUME NEW c \in Calls, setup \in Setups
  PROVE  outcome(c) \in OperationOutcomes
<1>1. /\ \A s \in Statuses : Returned(s, FALSE) \in OperationOutcomes
      /\ Returned("failed", TRUE) \in OperationOutcomes
      /\ Thrown("limit") \in OperationOutcomes
      /\ Thrown("transient") \in OperationOutcomes
  BY ExecutorAssumption DEF ExecutorOutcomes
<1>2. CASE UsesCodex
  BY <1>1, <1>2
  DEF outcome, Codex!outcome, Codex!rejection, Codex!executorResult,
      Codex!executorError, Returned, Thrown, Statuses
<1>3. CASE ~UsesCodex /\ UsesApi
  <2>1. Api!retryable(calls[c].code) \in BOOLEAN
    BY DEF Api!retryable
  <2> QED
    BY <1>1, <1>3, <2>1
    DEF outcome, Api!outcome, Api!rejection, Api!executorResult,
        Api!executorError, Returned, Thrown, Statuses
<1>4. CASE ~UsesCodex /\ ~UsesApi
  <2>1. Stub!stubStatus \in Statuses
    BY ExecutorAssumption DEF Stub!stubStatus, Statuses
  <2> QED
    BY <1>1, <1>4, <2>1
    DEF outcome, Stub!outcome, Stub!executorResult, Returned
<1> QED
  BY <1>2, <1>3, <1>4

\* The executor is chosen once.
LEMMA SetupStays == RunSpec => [](setup \in Setups)
<1>1. RunInit => setup \in Setups
  BY DEF RunInit
<1>2. setup \in Setups /\ [RunNext]_runVariables => (setup \in Setups)'
  BY DEF RunNext, RunnerStep, AbortStep, Deliver, NodeStep, PeerStep, runVariables
<1> QED
  BY <1>1, <1>2, PTL DEF RunSpec

\* A step of the executor is none of the runner's, and the step that delivers its
\* answer is the operation's settling.
LEMMA StepsAreRunSteps ==
  ASSUME setup \in Setups, [RunNext]_runVariables
  PROVE  [Next]_vars
<1>1. CASE RunnerStep
  BY <1>1 DEF RunnerStep, Next
<1>2. CASE AbortStep
  BY <1>2 DEF AbortStep, Next, Environment
<1>3. CASE Deliver
  <2>1. PICK c \in Calls : OperationSettles(c[1], c[2], outcome(c))
    BY <1>3 DEF Deliver
  <2>2. c[1] \in Briefs /\ c[2] \in live[c[1]]
    BY <2>1 DEF Calls, OperationSettles
  <2>3. Environment
    BY <2>1, <2>2, OutcomesExpected DEF Environment
  <2> QED
    BY <2>3 DEF Next
<1>4. CASE NodeStep \/ PeerStep
  BY <1>4 DEF NodeStep, PeerStep
<1>5. CASE Terminated
  BY <1>5 DEF Next
<1>6. CASE UNCHANGED runVariables
  BY <1>6 DEF runVariables
<1> QED
  BY <1>1, <1>2, <1>3, <1>4, <1>5, <1>6 DEF RunNext

\* Whatever is proved of RunExecutionPlan for operations that may settle at any
\* time holds with these executors.
THEOREM ExecutorsAreOperations == RunSpec => IsARun
<1>1. RunInit => Init
  BY DEF RunInit
<1>2. setup \in Setups /\ [RunNext]_runVariables => [Next]_vars
  BY StepsAreRunSteps
<1> QED
  BY <1>1, <1>2, SetupStays, PTL DEF RunSpec, IsARun, Spec

-----------------------------------------------------------------------------
\* The records of the calls

\* The peers each executor has.
Peers ==
  IF UsesCodex THEN {"none", "running", "failed", "exited", "closed"}
  ELSE IF UsesApi THEN {"none", "asked", "responding", "complete", "broken", "closed"}
  ELSE {"none", "closed"}
Working == {"running", "asked", "responding"}

\* The exit codes and the status codes that a success comes with.
GoodCodes == {0} \cup 200..299

\* The exit codes and the status codes there are, -1 before.
Codes == {-1, 0, 1, 401} \cup Responses

CallRecord ==
  [peer : Peers, code : Codes, written : Nat, unread : Seq(Nat \ {0}), bytes : Nat,
   width : Nat, ended : BOOLEAN, told : BOOLEAN, answer : Codex!Answers]

\* What is kept, and what is yet to be read, is what the peer wrote, until the signal
\* of a request discards what has not been read.
Counted(r) ==
  /\ r.bytes + Len(r.unread) <= r.written
  /\ r.answer = "pending" /\ ~r.told => r.bytes + Len(r.unread) = r.written
  /\ r.answer # "pending" => r.unread = << >>
  /\ r.bytes <= r.width
  /\ UsesApi => 2 * r.bytes <= Allowed
  /\ ~UsesCodex /\ ~UsesApi => r.width = 0

\* What an answer says of the peer.
Ended(r) ==
  /\ r.peer \in {"exited", "complete"} => r.ended
  /\ r.answer = "resolved" =>
       /\ r.peer = "closed"
       /\ ~r.told => r.bytes = r.written
       /\ r.code \in GoodCodes => r.ended
       /\ 2 * Size(r) <= Allowed
  /\ r.answer = "limit" => 2 * (Size(r) + r.written - r.bytes) > Allowed
  /\ r.answer # "pending" /\ r.peer \in Working => r.told
  /\ UsesCodex /\ r.told => r.answer # "pending"

\* A stub answers at once.
Stubbed(r) ==
  ~UsesCodex /\ ~UsesApi /\ r.peer # "none" =>
    r.answer = "resolved" /\ (Stub!stubStatus = "succeeded" => r.code = 0)

RecordInv(r) ==
  /\ r \in CallRecord
  /\ r.peer = "none" => r = Codex!NewCall
  /\ Stubbed(r)
  /\ Counted(r)
  /\ Ended(r)

CallsInv ==
  /\ setup \in Setups
  /\ calls \in [Calls -> CallRecord]
  /\ \A c \in Calls : RecordInv(calls[c])

-----------------------------------------------------------------------------
\* One call

\* The byte limit of the executor, and the one it was configured with.
LEMMA Limits ==
  ASSUME setup \in Setups
  PROVE  /\ Allowed \in Nat
         /\ Codex!maxOutputBytes \in Nat
         /\ 2 * Codex!maxOutputBytes <= Allowed
         /\ 2 * (Codex!maxOutputBytes + 1) > Allowed
         /\ Codex!outputLimit >= Codex!maxOutputBytes /\ Codex!outputLimit \in Nat
         /\ Api!maxResponseBytes = Codex!maxOutputBytes
<1>1. setup.limit \in Int
  BY ExecutorAssumption
<1>2. Api!maxResponseBytes = Codex!maxOutputBytes
  BY SMT DEF Codex!maxOutputBytes, Codex!normalizeByteLimit, Api!maxResponseBytes,
     Api!normalizeByteLimit
<1>3. CASE setup.limit <= 0
  <2>1. Allowed = 2 * 1048576 /\ Codex!maxOutputBytes = 1048576
    BY <1>3, SMT DEF Allowed, Codex!maxOutputBytes, Codex!normalizeByteLimit
  <2>2. Codex!outputLimit = 1048576
    BY <2>1, SMT DEF Codex!outputLimit, Codex!normalizeByteLimit
  <2> QED
    BY <1>2, <2>1, <2>2, SMT
<1>4. CASE setup.limit > 0
  <2>1. Allowed = setup.limit /\ Codex!maxOutputBytes = setup.limit \div 2
    BY <1>1, <1>4, SMT DEF Allowed, Codex!maxOutputBytes, Codex!normalizeByteLimit
  <2>2. /\ setup.limit \div 2 \in Nat
        /\ 2 * (setup.limit \div 2) <= setup.limit
        /\ 2 * (setup.limit \div 2 + 1) > setup.limit
    BY <1>1, <1>4
  <2>3. \/ Codex!outputLimit = 1048576 /\ Codex!maxOutputBytes = 0
        \/ Codex!outputLimit = (2 * Codex!maxOutputBytes) \div 2
    BY <2>1, <2>2, SMT DEF Codex!outputLimit, Codex!normalizeByteLimit
  <2>4. \A n \in Nat : (2 * n) \div 2 = n
    OBVIOUS
  <2>5. Codex!maxOutputBytes \in Nat /\ (2 * Codex!maxOutputBytes) \div 2 = Codex!maxOutputBytes
    BY <2>1, <2>2, <2>4
  <2>6. Codex!outputLimit \in Nat /\ Codex!outputLimit >= Codex!maxOutputBytes
    BY <2>3, <2>5, SMT
  <2>7. Allowed \in Nat
    BY <1>1, <1>4, <2>1
  <2> QED
    BY <1>2, <2>1, <2>2, <2>6, <2>7
<1> QED
  BY <1>1, <1>3, <1>4

withChunk(r, w) == [r EXCEPT !.written = r.written + 1, !.unread = Append(r.unread, w)]

\* A peer may write a chunk as long as its call is not answered.
LEMMA SendKeepsRecord ==
  ASSUME NEW r \in CallRecord, RecordInv(r), r.answer = "pending", r.peer # "none",
         NEW w \in Nat \ {0}, NEW s, s = withChunk(r, w)
  PROVE  RecordInv(s) /\ s.peer = r.peer /\ s.answer = r.answer /\ s.told = r.told
<1>1. r \in CallRecord /\ r.unread \in Seq(Nat \ {0}) /\ r.written \in Nat /\ r.bytes \in Nat
  BY DEF RecordInv, CallRecord
<1>2. /\ Append(r.unread, w) \in Seq(Nat \ {0})
      /\ Len(Append(r.unread, w)) = Len(r.unread) + 1
      /\ Len(r.unread) \in Nat
  BY <1>1
<1>record. /\ s \in CallRecord
           /\ s.written = r.written + 1 /\ s.unread = Append(r.unread, w)
  <2>1. ASSUME NEW n \in Nat, NEW q \in Seq(Nat \ {0}),
               n = r.written + 1, q = Append(r.unread, w)
        PROVE  /\ s \in CallRecord
               /\ s.written = n /\ s.unread = q
    BY <1>1, <2>1 DEF CallRecord, withChunk
  <2>2. r.written + 1 \in Nat
    BY <1>1
  <2> QED
    BY <1>2, <2>1, <2>2
<1>3. /\ s.peer = r.peer /\ s.answer = r.answer /\ s.bytes = r.bytes /\ s.width = r.width
      /\ s.told = r.told /\ s.ended = r.ended
  BY <1>1 DEF CallRecord, withChunk
<1>4. Counted(s)
  <2>1. /\ s.bytes + Len(s.unread) = r.bytes + Len(r.unread) + 1
        /\ s.written = r.written + 1
    BY <1>1, <1>2, <1>3, <1>record
  <2> QED
    BY <1>1, <1>2, <1>3, <2>1 DEF RecordInv, Counted
<1>5. Ended(s)
  BY <1>3, <1>record DEF RecordInv, Ended, Size
<1> QED
  BY <1>3, <1>4, <1>5, <1>record DEF RecordInv, Stubbed

\* A call is settled once.
LEMMA SettledRecord ==
  ASSUME NEW r \in CallRecord, NEW a \in Codex!Answers, NEW q, q = Codex!settleOnce(r, a)
  PROVE  /\ q \in CallRecord /\ q = Api!settleOnce(r, a)
         /\ q.answer = IF r.answer = "pending" THEN a ELSE r.answer
         /\ q.unread = IF r.answer = "pending" THEN << >> ELSE r.unread
         /\ q.peer = r.peer /\ q.code = r.code /\ q.ended = r.ended /\ q.told = r.told
         /\ q.written = r.written /\ q.bytes = r.bytes /\ q.width = r.width
<1>1. << >> \in Seq(Nat \ {0})
  OBVIOUS
<1>2. CASE r.answer = "pending"
  BY <1>1, <1>2 DEF CallRecord, Codex!settleOnce, Api!settleOnce
<1>3. CASE r.answer # "pending"
  BY <1>3 DEF Codex!settleOnce, Api!settleOnce
<1> QED
  BY <1>2, <1>3

\* What a step may do to a call whose peer is not gone, apart from writing and reading.
LEMMA ChangeKeepsRecord ==
  ASSUME NEW r \in CallRecord, NEW s \in CallRecord, RecordInv(r),
         s.written = r.written, s.bytes = r.bytes, s.width = r.width,
         r.peer # "closed", s.peer # "none", Stubbed(s),
         s.unread = r.unread \/ s.unread = << >>,
         s.unread = r.unread \/ s.told \/ s.answer # "pending",
         s.answer # "pending" => s.unread = << >>,
         r.answer # "pending" => s.answer = r.answer,
         r.told => s.told,
         UsesCodex /\ s.told => s.answer # "pending",
         s.peer \in {"exited", "complete"} => s.ended,
         s.answer # "pending" /\ s.peer \in Working => s.told,
         s.answer = "resolved" =>
           /\ s.peer = "closed"
           /\ s.told \/ r.unread = << >>
           /\ s.code \in GoodCodes => s.ended
           /\ 2 * Size(r) <= Allowed,
         s.answer = "limit" /\ r.answer = "pending" =>
           2 * (Size(r) + r.written - r.bytes) > Allowed
  PROVE  RecordInv(s)
<1>1. /\ Len(r.unread) \in Nat /\ Len(<< >>) = 0
      /\ r.written \in Nat /\ r.bytes \in Nat /\ r.width \in Nat
  BY DEF CallRecord
<1>2. Size(s) = Size(r)
  BY DEF Size
<1>3. Counted(s)
  BY <1>1 DEF RecordInv, Counted
<1>4. r.answer # "resolved"
  BY DEF RecordInv, Ended
<1>5. s.answer = "resolved" /\ ~s.told => s.bytes = s.written
  BY <1>1, <1>4 DEF RecordInv, Counted, CallRecord, Codex!Answers
<1>6. Ended(s)
  BY <1>2, <1>4, <1>5 DEF RecordInv, Ended
<1> QED
  BY <1>3, <1>6 DEF RecordInv

\* One of n chunks that wait is read: it is h bytes wide.
LEMMA OneRead ==
  ASSUME NEW b \in Nat, NEW w \in Nat, NEW n \in Nat, NEW h \in Nat \ {0}, b <= w
  PROVE  (b + 1) + (n - 1) = b + n /\ b + 1 <= w + h
  OBVIOUS

\* A chunk within the limit is kept.
LEMMA KeepKeepsRecord ==
  ASSUME NEW r \in CallRecord, RecordInv(r), r.peer # "none", r.unread # << >>,
         UsesApi => 2 * (r.bytes + 1) <= Allowed, UsesCodex \/ UsesApi,
         NEW s, s = Codex!keepChunk(r)
  PROVE  /\ RecordInv(s) /\ s.peer = r.peer /\ s.answer = r.answer /\ s.told = r.told
         /\ s = Api!keepChunk(r) /\ r.answer = "pending"
<1>1. /\ r.unread \in Seq(Nat \ {0}) /\ r.bytes \in Nat /\ r.width \in Nat /\ r.written \in Nat
      /\ r.answer = "pending"
  BY DEF CallRecord, RecordInv, Counted
<1>2. /\ Tail(r.unread) \in Seq(Nat \ {0}) /\ Head(r.unread) \in Nat \ {0}
      /\ Len(Tail(r.unread)) = Len(r.unread) - 1
      /\ Len(r.unread) \in Nat
  BY <1>1
<1>3. /\ s \in CallRecord
      /\ s.unread = Tail(r.unread) /\ s.bytes = r.bytes + 1 /\ s.width = r.width + Head(r.unread)
      /\ s.peer = r.peer /\ s.answer = r.answer /\ s.written = r.written /\ s.told = r.told
      /\ s.ended = r.ended
  <2>1. ASSUME NEW n \in Nat, NEW w \in Nat, NEW q \in Seq(Nat \ {0}),
               n = r.bytes + 1, w = r.width + Head(r.unread), q = Tail(r.unread)
        PROVE  /\ s \in CallRecord
               /\ s.unread = q /\ s.bytes = n /\ s.width = w
               /\ s.peer = r.peer /\ s.answer = r.answer /\ s.written = r.written
               /\ s.told = r.told /\ s.ended = r.ended
    BY <1>1, <2>1 DEF CallRecord, Codex!keepChunk
  <2>2. r.bytes + 1 \in Nat /\ r.width + Head(r.unread) \in Nat
    BY <1>1, <1>2
  <2> QED
    BY <1>1, <1>2, <2>1, <2>2
<1>same. s = Api!keepChunk(r)
  BY DEF Codex!keepChunk, Api!keepChunk
<1>4. Counted(s)
  <2>1. /\ s.bytes + Len(s.unread) = r.bytes + Len(r.unread)
        /\ s.bytes <= s.width
    <3>1. r.bytes <= r.width
      BY DEF RecordInv, Counted
    <3>2. /\ s.bytes = r.bytes + 1 /\ s.width = r.width + Head(r.unread)
          /\ Len(s.unread) = Len(r.unread) - 1
      BY <1>2, <1>3
    <3>3. /\ (r.bytes + 1) + (Len(r.unread) - 1) = r.bytes + Len(r.unread)
          /\ r.bytes + 1 <= r.width + Head(r.unread)
      <4>1. /\ r.bytes \in Nat /\ r.width \in Nat
            /\ Len(r.unread) \in Nat /\ Head(r.unread) \in Nat \ {0}
        BY <1>1, <1>2
      <4> QED
        BY <3>1, <4>1, OneRead
    <3> QED
      BY <3>2, <3>3
  <2>2. UsesApi => 2 * s.bytes <= Allowed
    BY <1>3
  <2>3. s.answer = "pending" /\ s.written = r.written /\ s.told = r.told
    BY <1>1, <1>3
  <2> QED
    BY <2>1, <2>2, <2>3 DEF RecordInv, Counted
<1>5. Ended(s)
  BY <1>1, <1>3 DEF RecordInv, Ended
<1> QED
  BY <1>1, <1>3, <1>4, <1>5, <1>same DEF RecordInv, Stubbed

-----------------------------------------------------------------------------
\* What happens to a call

\* An answer is final, and a peer that has been told to stop stays told.
Progress(r, s) ==
  /\ RecordInv(s)
  /\ s.peer = "none" <=> r.peer = "none"
  /\ r.answer # "pending" => s.answer = r.answer
  /\ r.answer = "resolved" => s = r
  /\ s.peer \in Working => r.peer \in Working
  /\ r.told => s.told

\* The call is made; its peer or Node does something; its signal is aborted.
Begun(r, s) == RecordInv(s) /\ r.peer = "none" /\ s.peer # "none" /\ ~s.told
Moved(r, s) == Progress(r, s) /\ r.peer # "none" /\ (s.told => r.told \/ s.answer = "limit")
Stopped(r, s) ==
  Progress(r, s) /\ (s.peer \in Working => s.told) /\ s.answer \in {r.answer, "error"}

\* A codex call starts from a call that has not begun.
LEMMA CodexStart ==
  ASSUME CallsInv, UsesCodex, NEW c \in Calls, Codex!Start(c)
  PROVE  Begun(calls[c], calls'[c]) /\ calls' = [calls EXCEPT ![c] = calls'[c]]
<1> DEFINE r == calls[c]  s == calls'[c]
<1>1. calls \in [Calls -> CallRecord] /\ RecordInv(r) /\ r \in CallRecord
  BY DEF CallsInv
<1>2. /\ r.peer = "none" /\ r.answer = "pending" /\ ~r.told /\ r.unread = << >>
      /\ r.bytes = 0 /\ r.width = 0 /\ r.written = 0
  BY <1>1 DEF RecordInv, Codex!NewCall, Codex!Start
<1>3. CASE setup.executor = "dry_run"
  <2>1. /\ calls' = [calls EXCEPT ![c] = s] /\ s \in CallRecord
        /\ s = [r EXCEPT !.peer = "closed", !.code = 0, !.ended = TRUE, !.answer = "resolved"]
    <3>1. calls' = [calls EXCEPT ![c].peer = "closed", ![c].code = 0,
                                 ![c].ended = TRUE, ![c].answer = "resolved"]
      BY <1>3 DEF Codex!Start
    <3>2. s = [r EXCEPT !.peer = "closed", !.code = 0, !.ended = TRUE, !.answer = "resolved"]
      BY <1>1, <3>1
    <3>3. calls' = [calls EXCEPT ![c] = s]
      BY <1>1, <3>1
    <3>4. "closed" \in Peers /\ "resolved" \in Codex!Answers /\ 0 \in Codes
      BY DEF Peers, Codex!Answers, Codes
    <3> HIDE DEF s
    <3> QED
      BY <1>1, <3>2, <3>3, <3>4 DEF CallRecord
  <2>2. /\ s.peer = "closed" /\ s.ended /\ s.answer = "resolved" /\ ~s.told
        /\ s.written = r.written /\ s.bytes = r.bytes /\ s.width = r.width /\ s.unread = r.unread
    BY <1>1, <1>2, <2>1 DEF CallRecord
  <2>3. 2 * Size(r) <= Allowed
    BY <1>1, <1>2, Limits DEF Size, CallsInv
  <2>4. RecordInv(s)
    BY <1>1, <1>2, <2>1, <2>2, <2>3, ChangeKeepsRecord DEF Working, Stubbed
  <2> QED
    BY <1>2, <2>1, <2>2, <2>4 DEF Begun
<1>4. CASE setup.executor # "dry_run"
  <2>1. PICK peer \in {"running", "failed"} : calls' = [calls EXCEPT ![c].peer = peer]
    BY <1>4 DEF Codex!Start
  <2>2. /\ calls' = [calls EXCEPT ![c] = s] /\ s \in CallRecord
        /\ s = [r EXCEPT !.peer = peer]
    BY <1>1, <2>1 DEF CallRecord, Peers
  <2>3. /\ s.peer = peer /\ s.answer = r.answer /\ ~s.told /\ s.ended = r.ended
        /\ s.written = r.written /\ s.bytes = r.bytes /\ s.width = r.width /\ s.unread = r.unread
    BY <1>1, <1>2, <2>2 DEF CallRecord
  <2>4. RecordInv(s)
    BY <1>1, <1>2, <2>1, <2>2, <2>3, ChangeKeepsRecord DEF Stubbed
  <2> QED
    BY <1>2, <2>1, <2>2, <2>3, <2>4 DEF Begun
<1> QED
  BY <1>3, <1>4

\* The call settles, if it has not, and its peer is gone.
ClosedBy(r, a, s) ==
  /\ s \in CallRecord
  /\ s.peer = "closed" /\ s.code = r.code /\ s.ended = r.ended /\ s.told = r.told
  /\ s.written = r.written /\ s.bytes = r.bytes /\ s.width = r.width
  /\ s.answer = IF r.answer = "pending" THEN a ELSE r.answer
  /\ s.unread = IF r.answer = "pending" THEN << >> ELSE r.unread

\* What settleOnce leaves of a call when its peer is gone.
LEMMA ClosedFields ==
  ASSUME NEW r \in CallRecord, NEW a \in Codex!Answers, NEW s,
         \/ s = [Codex!settleOnce(r, a) EXCEPT !.peer = "closed"]
         \/ s = [Api!settleOnce(r, a) EXCEPT !.peer = "closed"]
  PROVE  ClosedBy(r, a, s)
<1>1. PICK q : q = Codex!settleOnce(r, a)
  OBVIOUS
<1>2. q \in CallRecord /\ s = [q EXCEPT !.peer = "closed"]
  BY <1>1, SettledRecord
<1>3. /\ s \in CallRecord
      /\ s.peer = "closed" /\ s.answer = q.answer /\ s.unread = q.unread /\ s.code = q.code
      /\ s.ended = q.ended /\ s.told = q.told
      /\ s.written = q.written /\ s.bytes = q.bytes /\ s.width = q.width
  <2>1. "closed" \in Peers
    BY DEF Peers
  <2> QED
    BY <1>2, <2>1 DEF CallRecord
<1> QED
  BY <1>1, <1>3, SettledRecord DEF ClosedBy

\* A call whose peer is gone keeps the invariant, if its answer is one it may have.
LEMMA ClosedRecord ==
  ASSUME setup \in Setups, NEW r \in CallRecord, RecordInv(r), r.peer \notin {"none", "closed"},
         NEW a \in Codex!Answers \ {"pending"}, NEW s, ClosedBy(r, a, s),
         r.answer = "pending" /\ a = "resolved" =>
           /\ r.unread = << >>
           /\ r.code \in GoodCodes => r.ended
           /\ 2 * Size(r) <= Allowed,
         r.answer = "pending" /\ a = "limit" => 2 * (Size(r) + r.written - r.bytes) > Allowed
  PROVE  Moved(r, s)
<1>1. r.answer # "pending" => r.unread = << >> /\ r.answer # "resolved"
  BY DEF RecordInv, Counted, Ended
<1>stub. UsesCodex \/ UsesApi
  BY DEF CallRecord, Peers
<1>2. RecordInv(s)
  BY <1>1, <1>stub, ChangeKeepsRecord DEF Working, ClosedBy, Stubbed
<1> QED
  BY <1>1, <1>2 DEF Moved, Progress, Working, ClosedBy

\* A chunk beyond the limit settles the call, and the process is killed if it is there.
LEMMA OverLimit ==
  ASSUME setup \in Setups, UsesCodex, NEW r \in CallRecord, RecordInv(r),
         r.peer \in {"running", "exited"}, r.unread # << >>,
         r.bytes + 1 > Codex!outputLimit, NEW s,
         s = [Codex!settleOnce(r, "limit") EXCEPT !.told = r.peer = "running"]
  PROVE  Moved(r, s)
<1> DEFINE q == Codex!settleOnce(r, "limit")
<1>1. "limit" \in Codex!Answers
  BY DEF Codex!Answers
<1>2. /\ r.answer = "pending" /\ r.unread \in Seq(Nat \ {0})
      /\ r.bytes \in Nat /\ r.width \in Nat /\ r.written \in Nat
  BY DEF RecordInv, Counted, CallRecord
<1>3. /\ q \in CallRecord /\ q.answer = "limit" /\ q.unread = << >>
      /\ q.peer = r.peer /\ q.code = r.code /\ q.ended = r.ended /\ q.told = r.told
      /\ q.written = r.written /\ q.bytes = r.bytes /\ q.width = r.width
  BY <1>1, <1>2, SettledRecord
<1>4. s = [q EXCEPT !.told = (r.peer = "running")]
  OBVIOUS
<1> HIDE DEF q
<1>5. /\ s \in CallRecord
      /\ s.peer = r.peer /\ s.answer = "limit" /\ s.unread = << >> /\ s.code = r.code
      /\ s.ended = r.ended /\ s.told = (r.peer = "running")
      /\ s.written = r.written /\ s.bytes = r.bytes /\ s.width = r.width
  BY <1>3, <1>4 DEF CallRecord
<1>6. 2 * (Size(r) + r.written - r.bytes) > Allowed
  <2>1. Len(r.unread) \in Nat \ {0}
    BY <1>2
  <2>2. r.written - r.bytes >= 1 /\ r.width >= r.bytes
    BY <1>2, <2>1 DEF RecordInv, Counted
  <2>3. r.width + (r.written - r.bytes) >= Codex!maxOutputBytes + 1
    BY <1>2, <2>2, Limits
  <2> QED
    BY <1>2, <2>3, Limits DEF Size
<1> QED
  BY <1>2, <1>5, <1>6, ChangeKeepsRecord DEF Moved, Progress, Working, RecordInv, Ended, Stubbed

\* Whatever the process or Node does, a codex call keeps the invariant.
LEMMA CodexEvent ==
  ASSUME CallsInv, UsesCodex, NEW c \in Calls, Codex!NodeEvents(c) \/ Codex!PeerEvents(c)
  PROVE  Moved(calls[c], calls'[c]) /\ calls' = [calls EXCEPT ![c] = calls'[c]]
<1> DEFINE r == calls[c]  s == calls'[c]
<1>1. calls \in [Calls -> CallRecord] /\ RecordInv(r) /\ r \in CallRecord /\ setup \in Setups
  BY DEF CallsInv
<1>answers. {"error", "limit", "resolved"} \subseteq Codex!Answers \ {"pending"}
  BY DEF Codex!Answers
<1>2. CASE Codex!SpawnError(c)
  <2>1. /\ s = [Codex!settleOnce(r, "error") EXCEPT !.peer = "closed"]
        /\ r.peer = "failed" /\ calls' = [calls EXCEPT ![c] = s]
    BY <1>1, <1>2 DEF Codex!SpawnError
  <2>2. ClosedBy(r, "error", s)
    BY <1>1, <1>answers, <2>1, ClosedFields
  <2> QED
    BY <1>1, <1>answers, <2>1, <2>2, ClosedRecord
<1>3. CASE Codex!Close(c)
  <2>1. /\ s = [Codex!settleOnce(r, Codex!recheck(r)) EXCEPT !.peer = "closed"]
        /\ r.peer = "exited" /\ r.unread = << >> /\ calls' = [calls EXCEPT ![c] = s]
    BY <1>1, <1>3 DEF Codex!Close
  <2>2. r.width \in Nat /\ r.bytes \in Nat /\ r.written \in Nat /\ r.bytes <= r.written /\ r.ended
    BY <1>1, <2>1 DEF CallRecord, RecordInv, Counted, Ended
  <2>3. CASE r.width > Codex!maxOutputBytes
    <3>1. Codex!recheck(r) = "limit" /\ 2 * (Size(r) + r.written - r.bytes) > Allowed
      BY <1>1, <2>2, <2>3, Limits DEF Codex!recheck, Size
    <3>2. ClosedBy(r, "limit", s)
      BY <1>1, <1>answers, <2>1, <3>1, ClosedFields
    <3> QED
      BY <1>1, <1>answers, <2>1, <3>1, <3>2, ClosedRecord
  <2>4. CASE ~(r.width > Codex!maxOutputBytes)
    <3>1. Codex!recheck(r) = "resolved" /\ 2 * Size(r) <= Allowed
      BY <1>1, <2>2, <2>4, Limits DEF Codex!recheck, Size
    <3>2. ClosedBy(r, "resolved", s)
      BY <1>1, <1>answers, <2>1, <3>1, ClosedFields
    <3> QED
      BY <1>1, <1>answers, <2>1, <2>2, <3>1, <3>2, ClosedRecord
  <2> QED
    BY <2>3, <2>4
<1>4. CASE Codex!Write(c)
  <2>1. PICK w \in Widths : r.peer = "running" /\ Codex!SendChunk(c, w)
    BY <1>4 DEF Codex!Write
  <2>2. /\ r.answer = "pending" /\ w \in Nat \ {0}
        /\ calls' = [calls EXCEPT ![c].written = @ + 1, ![c].unread = Append(@, w)]
    BY <2>1, ExecutorAssumption DEF Codex!SendChunk, Codex!Pending
  <2>3. s = withChunk(r, w) /\ calls' = [calls EXCEPT ![c] = s]
    BY <1>1, <2>2 DEF withChunk
  <2>4. /\ RecordInv(s) /\ s.peer = r.peer /\ s.answer = r.answer /\ s.told = r.told
    <3> HIDE DEF s
    <3> QED
      BY <1>1, <2>1, <2>2, <2>3, SendKeepsRecord
  <2> QED
    BY <2>1, <2>2, <2>3, <2>4 DEF Moved, Progress
<1>5. CASE Codex!Exit(c)
  <2>1. PICK code \in {0, 1} : calls' = [calls EXCEPT ![c].peer = "exited", ![c].code = code,
                                                      ![c].ended = TRUE]
    BY <1>5 DEF Codex!Exit
  <2>2. /\ s = [r EXCEPT !.peer = "exited", !.code = code, !.ended = TRUE]
        /\ calls' = [calls EXCEPT ![c] = s] /\ r.peer = "running"
    BY <1>1, <1>5, <2>1 DEF Codex!Exit
  <2>3. "exited" \in Peers /\ code \in Codes
    BY <2>1 DEF Peers, Codes
  <2> HIDE DEF s
  <2>4. /\ s \in CallRecord
        /\ s.peer = "exited" /\ s.ended /\ s.answer = r.answer /\ s.unread = r.unread
        /\ s.told = r.told /\ s.written = r.written /\ s.bytes = r.bytes /\ s.width = r.width
    BY <1>1, <2>2, <2>3 DEF CallRecord
  <2>5. /\ r.peer = "running" /\ r.answer # "resolved"
        /\ r.answer # "pending" => r.unread = << >>
        /\ r.told => r.answer # "pending"
    BY <1>1, <2>2 DEF RecordInv, Counted, Ended
  <2>6. RecordInv(s)
    BY <1>1, <2>4, <2>5, ChangeKeepsRecord DEF Working, Stubbed
  <2>7. Moved(r, s)
    BY <2>4, <2>5, <2>6 DEF Moved, Progress, Working
  <2> QED
    BY <2>2, <2>7 DEF s
<1>6. CASE Codex!Data(c)
  <2>1. /\ s = Codex!appendChunk(r) /\ r.peer \in {"running", "exited"} /\ r.unread # << >>
        /\ calls' = [calls EXCEPT ![c] = s]
    BY <1>1, <1>6 DEF Codex!Data
  <2>2. CASE r.bytes + 1 > Codex!outputLimit
    <3>1. s = [Codex!settleOnce(r, "limit") EXCEPT !.told = r.peer = "running"]
      BY <2>1, <2>2 DEF Codex!appendChunk
    <3> QED
      BY <1>1, <2>1, <2>2, <3>1, OverLimit
  <2>3. CASE ~(r.bytes + 1 > Codex!outputLimit)
    <3>1. s = Codex!keepChunk(r)
      BY <2>1, <2>3 DEF Codex!appendChunk
    <3>2. ~UsesApi
      BY DEF UsesCodex, UsesApi
    <3> QED
      BY <1>1, <2>1, <3>1, <3>2, KeepKeepsRecord DEF Moved, Progress
  <2> QED
    BY <2>2, <2>3
<1> QED
  BY <1>2, <1>3, <1>4, <1>5, <1>6 DEF Codex!NodeEvents, Codex!PeerEvents

\* A request starts from a call that has not begun.
LEMMA ApiStart ==
  ASSUME CallsInv, ~UsesCodex, UsesApi, NEW c \in Calls, Api!Start(c)
  PROVE  Begun(calls[c], calls'[c]) /\ calls' = [calls EXCEPT ![c] = calls'[c]]
<1> DEFINE r == calls[c]  s == calls'[c]
<1>1. calls \in [Calls -> CallRecord] /\ RecordInv(r) /\ r \in CallRecord
  BY DEF CallsInv
<1>2. /\ r.peer = "none" /\ r.answer = "pending" /\ ~r.told /\ r.unread = << >> /\ ~r.ended
      /\ r.bytes = 0 /\ r.width = 0 /\ r.written = 0
  BY <1>1 DEF RecordInv, Codex!NewCall, Api!Start
<1>3. CASE setup.executor = "api_without_key"
  <2>1. /\ s = [r EXCEPT !.peer = "closed", !.code = 401, !.answer = "resolved"]
        /\ calls' = [calls EXCEPT ![c] = s]
    <3> DEFINE code == 401
    <3>1. calls' = [calls EXCEPT ![c].peer = "closed", ![c].code = code,
                                 ![c].answer = "resolved"]
      BY <1>3 DEF Api!Start
    <3> HIDE DEF code
    <3>2. /\ s = [r EXCEPT !.peer = "closed", !.code = code, !.answer = "resolved"]
          /\ calls' = [calls EXCEPT ![c] = s]
      BY <1>1, <3>1
    <3> QED
      BY <3>2 DEF code
  <2>2. /\ s \in CallRecord
        /\ s.peer = "closed" /\ s.code = 401 /\ s.answer = "resolved" /\ ~s.told
        /\ s.written = r.written /\ s.bytes = r.bytes /\ s.width = r.width /\ s.unread = r.unread
    <3>1. "closed" \in Peers /\ "resolved" \in Codex!Answers
      BY DEF Peers, Codex!Answers
    <3>2. ASSUME NEW n \in Codes, n = 401
          PROVE  /\ s \in CallRecord
                 /\ s.peer = "closed" /\ s.code = n /\ s.answer = "resolved" /\ ~s.told
                 /\ s.written = r.written /\ s.bytes = r.bytes /\ s.width = r.width
                 /\ s.unread = r.unread
      <4>1. s = [r EXCEPT !.peer = "closed", !.code = n, !.answer = "resolved"]
        BY <2>1, <3>2
      <4> HIDE DEF s
      <4> QED
        BY <1>1, <1>2, <3>1, <4>1 DEF CallRecord
    <3>3. 401 \in Codes
      BY DEF Codes
    <3> QED
      BY <3>2, <3>3
  <2>3. 2 * Size(r) <= Allowed
    BY <1>1, <1>2, Limits DEF Size, CallsInv
  <2>4. 401 \notin GoodCodes
    BY DEF GoodCodes
  <2>5. RecordInv(s)
    BY <1>1, <1>2, <2>2, <2>3, <2>4, ChangeKeepsRecord DEF Working, Stubbed
  <2> QED
    BY <1>2, <2>1, <2>2, <2>5 DEF Begun
<1>4. CASE setup.executor # "api_without_key"
  <2>1. s = [r EXCEPT !.peer = "asked"] /\ calls' = [calls EXCEPT ![c] = s]
    BY <1>1, <1>4 DEF Api!Start
  <2>2. /\ s \in CallRecord
        /\ s.peer = "asked" /\ s.answer = r.answer /\ ~s.told /\ s.ended = r.ended
        /\ s.written = r.written /\ s.bytes = r.bytes /\ s.width = r.width /\ s.unread = r.unread
    <3>1. "asked" \in Peers
      BY DEF Peers
    <3> HIDE DEF s
    <3> QED
      BY <1>1, <1>2, <2>1, <3>1 DEF CallRecord
  <2>3. RecordInv(s)
    BY <1>1, <1>2, <2>2, ChangeKeepsRecord DEF Stubbed
  <2> QED
    BY <1>2, <2>1, <2>2, <2>3 DEF Begun
<1> QED
  BY <1>3, <1>4

\* A stub is called and has answered.
LEMMA StubStart ==
  ASSUME CallsInv, ~UsesCodex, ~UsesApi, NEW c \in Calls, Stub!Start(c)
  PROVE  Begun(calls[c], calls'[c]) /\ calls' = [calls EXCEPT ![c] = calls'[c]]
<1> DEFINE r == calls[c]  s == calls'[c]
           code == IF Stub!stubStatus = "succeeded" THEN 0 ELSE 1
<1>1. calls \in [Calls -> CallRecord] /\ RecordInv(r) /\ r \in CallRecord
  BY DEF CallsInv
<1>2. /\ r.peer = "none" /\ r.answer = "pending" /\ ~r.told /\ r.unread = << >>
      /\ r.bytes = 0 /\ r.width = 0 /\ r.written = 0
  BY <1>1 DEF RecordInv, Codex!NewCall, Stub!Start
<1>3. /\ s = [r EXCEPT !.peer = "closed", !.ended = TRUE, !.code = code, !.answer = "resolved"]
      /\ calls' = [calls EXCEPT ![c] = s]
  <2>1. calls' = [calls EXCEPT ![c].peer = "closed", ![c].ended = TRUE,
                               ![c].code = code, ![c].answer = "resolved"]
    BY DEF Stub!Start
  <2> HIDE DEF code
  <2> QED
    BY <1>1, <2>1
<1>4. /\ s \in CallRecord
      /\ s.peer = "closed" /\ s.code = code /\ s.ended /\ s.answer = "resolved" /\ ~s.told
      /\ s.written = r.written /\ s.bytes = r.bytes /\ s.width = r.width /\ s.unread = r.unread
  <2>1. "closed" \in Peers /\ "resolved" \in Codex!Answers /\ code \in Codes
    BY DEF Peers, Codex!Answers, Codes
  <2> HIDE DEF s, code
  <2> QED
    BY <1>1, <1>2, <1>3, <2>1 DEF CallRecord
<1>5. 2 * Size(r) <= Allowed
  BY <1>1, <1>2, Limits DEF Size, CallsInv
<1>6. RecordInv(s)
  BY <1>1, <1>2, <1>4, <1>5, ChangeKeepsRecord DEF Working, Stubbed
<1> QED
  BY <1>2, <1>3, <1>4, <1>6 DEF Begun

\* A chunk beyond the limit settles the call and destroys the request.
LEMMA OverResponseLimit ==
  ASSUME setup \in Setups, ~UsesCodex, UsesApi, NEW r \in CallRecord, RecordInv(r),
         r.peer \in {"responding", "complete", "broken"}, r.unread # << >>,
         r.bytes + 1 > Api!maxResponseBytes, NEW s,
         s = [Api!settleOnce(r, "limit") EXCEPT !.told = TRUE, !.peer = "closed"]
  PROVE  Moved(r, s)
<1>1. "limit" \in Codex!Answers /\ "closed" \in Peers
  BY DEF Codex!Answers, Peers
<1>2. /\ r.answer = "pending" /\ r.unread \in Seq(Nat \ {0})
      /\ r.bytes \in Nat /\ r.written \in Nat
  BY DEF RecordInv, Counted, CallRecord
<1>3. PICK q : q = Codex!settleOnce(r, "limit")
  OBVIOUS
<1>4. /\ q \in CallRecord /\ q.answer = "limit" /\ q.unread = << >>
      /\ q.peer = r.peer /\ q.code = r.code /\ q.ended = r.ended
      /\ q.written = r.written /\ q.bytes = r.bytes /\ q.width = r.width
      /\ q = Api!settleOnce(r, "limit")
  BY <1>1, <1>2, <1>3, SettledRecord
<1>change. s = [q EXCEPT !.told = TRUE, !.peer = "closed"]
  BY <1>4
<1>5. /\ s \in CallRecord
      /\ s.peer = "closed" /\ s.answer = "limit" /\ s.unread = << >> /\ s.told
      /\ s.written = r.written /\ s.bytes = r.bytes /\ s.width = r.width
  BY <1>1, <1>4, <1>change DEF CallRecord
<1>6. 2 * (Size(r) + r.written - r.bytes) > Allowed
  <2>1. Len(r.unread) \in Nat \ {0}
    BY <1>2
  <2>2. r.written - r.bytes >= 1
    BY <1>2, <2>1 DEF RecordInv, Counted
  <2>3. r.bytes + (r.written - r.bytes) >= Codex!maxOutputBytes + 1
    BY <1>2, <2>2, Limits
  <2> QED
    BY <1>2, <2>3, Limits DEF Size
<1>7. RecordInv(s)
  BY <1>2, <1>5, <1>6, ChangeKeepsRecord DEF Working, Stubbed
<1> QED
  BY <1>2, <1>5, <1>7 DEF Moved, Progress, Working

\* Whatever the service or Node does, a request keeps the invariant.
LEMMA ApiEvent ==
  ASSUME CallsInv, ~UsesCodex, UsesApi, NEW c \in Calls, Api!NodeEvents(c) \/ Api!PeerEvents(c)
  PROVE  Moved(calls[c], calls'[c]) /\ calls' = [calls EXCEPT ![c] = calls'[c]]
<1> DEFINE r == calls[c]  s == calls'[c]
<1>1. calls \in [Calls -> CallRecord] /\ RecordInv(r) /\ r \in CallRecord /\ setup \in Setups
  BY DEF CallsInv
<1>answers. {"error", "limit", "resolved"} \subseteq Codex!Answers \ {"pending"}
  BY DEF Codex!Answers
<1>2. CASE Api!Error(c)
  <2>1. /\ s = [Api!settleOnce(r, "error") EXCEPT !.peer = "closed"]
        /\ r.peer = "broken" /\ calls' = [calls EXCEPT ![c] = s]
    BY <1>1, <1>2 DEF Api!Error
  <2>2. ClosedBy(r, "error", s)
    BY <1>1, <1>answers, <2>1, ClosedFields
  <2> QED
    BY <1>1, <1>answers, <2>1, <2>2, ClosedRecord
<1>3. CASE Api!End(c)
  <2>1. /\ s = [Api!settleOnce(r, "resolved") EXCEPT !.peer = "closed"]
        /\ r.peer = "complete" /\ r.unread = << >> /\ calls' = [calls EXCEPT ![c] = s]
    BY <1>1, <1>3 DEF Api!End
  <2>2. r.ended /\ 2 * Size(r) <= Allowed
    BY <1>1, <2>1 DEF RecordInv, Counted, Ended, Size
  <2>3. ClosedBy(r, "resolved", s)
    BY <1>1, <1>answers, <2>1, ClosedFields
  <2> QED
    BY <1>1, <1>answers, <2>1, <2>2, <2>3, ClosedRecord
<1>4. CASE Api!Write(c)
  <2>1. /\ r.answer = "pending" /\ r.peer = "responding"
        /\ calls' = [calls EXCEPT ![c].written = @ + 1, ![c].unread = Append(@, 1)]
    BY <1>4 DEF Api!Write, Api!SendChunk, Api!Pending
  <2>2. s = withChunk(r, 1) /\ calls' = [calls EXCEPT ![c] = s]
    BY <1>1, <2>1 DEF withChunk
  <2>3. /\ RecordInv(s) /\ s.peer = r.peer /\ s.answer = r.answer /\ s.told = r.told
    <3> HIDE DEF s
    <3> QED
      BY <1>1, <2>1, <2>2, SendKeepsRecord
  <2> QED
    BY <2>1, <2>2, <2>3 DEF Moved, Progress
<1>5. CASE Api!Respond(c) \/ Api!Complete(c) \/ Api!Break(c)
  <2>1. PICK peer \in {"responding", "complete", "broken"}, code \in Codes, ended \in BOOLEAN :
          /\ s = [r EXCEPT !.peer = peer, !.code = code, !.ended = ended]
          /\ calls' = [calls EXCEPT ![c] = s]
          /\ peer = "complete" => ended
          /\ r.peer \in {"asked", "responding"}
    <3>1. CASE Api!Respond(c)
      <4>1. PICK code \in Responses :
              calls' = [calls EXCEPT ![c].peer = "responding", ![c].code = code]
        BY <3>1 DEF Api!Respond
      <4>2. /\ s = [r EXCEPT !.peer = "responding", !.code = code]
            /\ calls' = [calls EXCEPT ![c] = s]
        BY <1>1, <4>1
      <4>3. code \in Codes /\ r.ended \in BOOLEAN /\ r.peer = "asked"
        BY <1>1, <3>1, <4>1 DEF CallRecord, Api!Respond, Codes
      <4>4. s = [r EXCEPT !.peer = "responding", !.code = code, !.ended = r.ended]
        BY <1>1, <4>2 DEF CallRecord
      <4> QED
        BY <4>2, <4>3, <4>4
    <3>2. CASE Api!Complete(c)
      <4>1. /\ s = [r EXCEPT !.peer = "complete", !.ended = TRUE]
            /\ calls' = [calls EXCEPT ![c] = s] /\ r.peer = "responding"
        BY <1>1, <3>2 DEF Api!Complete
      <4>2. s = [r EXCEPT !.peer = "complete", !.code = r.code, !.ended = TRUE] /\ r.code \in Codes
        BY <1>1, <4>1 DEF CallRecord
      <4> QED
        BY <4>1, <4>2
    <3>3. CASE Api!Break(c)
      <4>1. /\ s = [r EXCEPT !.peer = "broken"]
            /\ calls' = [calls EXCEPT ![c] = s] /\ r.peer \in {"asked", "responding"}
        BY <1>1, <3>3 DEF Api!Break
      <4>2. /\ s = [r EXCEPT !.peer = "broken", !.code = r.code, !.ended = r.ended]
            /\ r.code \in Codes /\ r.ended \in BOOLEAN
        BY <1>1, <4>1 DEF CallRecord
      <4> QED
        BY <4>1, <4>2
    <3> QED
      BY <1>5, <3>1, <3>2, <3>3
  <2>2. peer \in Peers
    BY DEF Peers
  <2> HIDE DEF s
  <2>3. /\ s \in CallRecord
        /\ s.peer = peer /\ s.ended = ended /\ s.answer = r.answer /\ s.unread = r.unread
        /\ s.told = r.told /\ s.written = r.written /\ s.bytes = r.bytes /\ s.width = r.width
    BY <1>1, <2>1, <2>2 DEF CallRecord
  <2>4. /\ r.peer \in Working /\ r.answer # "resolved" /\ (peer = "complete" => ended)
        /\ r.answer # "pending" => r.unread = << >> /\ r.told
    BY <1>1, <2>1 DEF RecordInv, Counted, Ended, Working
  <2>5. RecordInv(s)
    BY <1>1, <2>3, <2>4, ChangeKeepsRecord DEF Working, Stubbed
  <2>6. Moved(r, s)
    BY <2>3, <2>4, <2>5 DEF Moved, Progress, Working
  <2> QED
    BY <2>1, <2>6 DEF s
<1>6. CASE Api!Data(c)
  <2>1. /\ s = Api!receiveChunk(r) /\ r.peer \in {"responding", "complete", "broken"}
        /\ r.unread # << >> /\ calls' = [calls EXCEPT ![c] = s]
    BY <1>1, <1>6 DEF Api!Data
  <2>2. CASE r.bytes + 1 > Api!maxResponseBytes
    <3>1. s = [Api!settleOnce(r, "limit") EXCEPT !.told = TRUE, !.peer = "closed"]
      BY <2>1, <2>2 DEF Api!receiveChunk
    <3> QED
      BY <1>1, <2>1, <2>2, <3>1, OverResponseLimit
  <2>3. CASE ~(r.bytes + 1 > Api!maxResponseBytes)
    <3>1. s = Codex!keepChunk(r)
      BY <2>1, <2>3 DEF Api!receiveChunk, Api!keepChunk, Codex!keepChunk
    <3>2. 2 * (r.bytes + 1) <= Allowed
      BY <1>1, <2>3, Limits DEF CallRecord
    <3> QED
      BY <1>1, <2>1, <3>1, <3>2, KeepKeepsRecord DEF Moved, Progress
  <2> QED
    BY <2>2, <2>3
<1> QED
  BY <1>2, <1>3, <1>4, <1>5, <1>6 DEF Api!NodeEvents, Api!PeerEvents

\* Whatever is at work when its signal is aborted has been told to stop.
LEMMA CodexAbort ==
  ASSUME UsesCodex, NEW r \in CallRecord, RecordInv(r), NEW s, s = Codex!afterAbort(r)
  PROVE  Stopped(r, s)
<1>1. CASE r.peer = "running"
  <2>1. PICK q : q = Codex!settleOnce(r, "error")
    OBVIOUS
  <2>2. "error" \in Codex!Answers
    BY DEF Codex!Answers
  <2>3. r.answer # "resolved" /\ (r.answer # "pending" => r.unread = << >>)
    BY <1>1 DEF RecordInv, Counted, Ended
  <2>4. /\ q \in CallRecord /\ q.unread = << >>
        /\ q.answer = IF r.answer = "pending" THEN "error" ELSE r.answer
        /\ q.peer = r.peer /\ q.code = r.code /\ q.ended = r.ended
        /\ q.written = r.written /\ q.bytes = r.bytes /\ q.width = r.width
    BY <2>1, <2>2, <2>3, SettledRecord
  <2>5. s = [q EXCEPT !.told = TRUE]
    BY <1>1, <2>1 DEF Codex!afterAbort
  <2>6. /\ s \in CallRecord /\ s.unread = << >> /\ s.told
        /\ s.answer = IF r.answer = "pending" THEN "error" ELSE r.answer
        /\ s.peer = "running" /\ s.code = r.code /\ s.ended = r.ended
        /\ s.written = r.written /\ s.bytes = r.bytes /\ s.width = r.width
    BY <1>1, <2>4, <2>5 DEF CallRecord
  <2>7. RecordInv(s)
    BY <1>1, <2>3, <2>6, ChangeKeepsRecord DEF Stubbed
  <2> QED
    BY <1>1, <2>3, <2>6, <2>7 DEF Stopped, Progress, Working
<1>2. CASE r.peer # "running"
  <2>1. s = r /\ r.peer \notin Working
    BY <1>2 DEF Codex!afterAbort, CallRecord, Peers, Working
  <2> QED
    BY <2>1 DEF Stopped, Progress
<1> QED
  BY <1>1, <1>2

\* The signal stops a request that is at work.
LEMMA ApiAbort ==
  ASSUME ~UsesCodex, UsesApi, NEW r \in CallRecord, RecordInv(r), NEW s, s = Api!afterAbort(r)
  PROVE  Stopped(r, s)
<1>1. CASE r.peer \in {"asked", "responding", "complete"}
  <2>1. PICK peer \in {"broken", "complete"} :
          /\ s = [r EXCEPT !.peer = peer, !.unread = << >>, !.told = TRUE]
          /\ peer = "complete" => r.peer = "complete"
    <3>1. CASE r.peer = "complete"
      <4>1. s = [r EXCEPT !.peer = "complete", !.unread = << >>, !.told = TRUE]
        BY <3>1 DEF Api!afterAbort, CallRecord
      <4> QED
        BY <3>1, <4>1
    <3>2. CASE r.peer # "complete"
      BY <1>1, <3>2 DEF Api!afterAbort
    <3> QED
      BY <3>1, <3>2
  <2>2. peer \in Peers /\ << >> \in Seq(Nat \ {0})
    BY DEF Peers
  <2>3. /\ s \in CallRecord /\ s.unread = << >> /\ s.told
        /\ s.answer = r.answer /\ s.peer = peer /\ s.ended = r.ended
        /\ s.written = r.written /\ s.bytes = r.bytes /\ s.width = r.width
    BY <2>1, <2>2 DEF CallRecord
  <2>4. r.answer # "resolved" /\ (r.peer = "complete" => r.ended)
    BY <1>1 DEF RecordInv, Ended
  <2>5. RecordInv(s)
    BY <1>1, <2>1, <2>3, <2>4, ChangeKeepsRecord DEF Stubbed
  <2> QED
    BY <1>1, <2>1, <2>3, <2>4, <2>5 DEF Stopped, Progress, Working
<1>2. CASE r.peer \notin {"asked", "responding", "complete"}
  <2>1. s = r /\ r.peer \notin Working
    BY <1>2 DEF Api!afterAbort, CallRecord, Peers, Working
  <2> QED
    BY <2>1 DEF Stopped, Progress
<1> QED
  BY <1>1, <1>2

-----------------------------------------------------------------------------
\* What a step does to the calls

\* A call begins when its attempt is launched; it hears the signal when nothing is
\* launched; it moves on its own when the runner does not.
CallSteps ==
  /\ setup' = setup /\ calls' = [c \in Calls |-> calls'[c]]
  /\ \A c \in Calls :
       \/ c \in Launched /\ Begun(calls[c], calls'[c])
       \/ Launched = {} /\ c \in Signalled /\ Stopped(calls[c], calls'[c])
       \/ UNCHANGED vars /\ Moved(calls[c], calls'[c])
       \/ /\ IF Launched = {} THEN c \notin Signalled ELSE Launched # {c}
          /\ calls'[c] = calls[c]

\* A call that stays as it is keeps the invariant.
LEMMA UnchangedProgress ==
  ASSUME NEW r, RecordInv(r)
  PROVE  Progress(r, r)
  BY DEF Progress

\* Nothing is launched and nobody's signal is aborted by what happens in a call.
LEMMA QuietCalls ==
  ASSUME UNCHANGED vars
  PROVE  Launched = {} /\ Signalled = {}
  BY DEF vars, briefVars, Launched, Signalled

\* One call begins or moves and the others stay.
LEMMA OneCallMoves ==
  ASSUME CallsInv, NEW c \in Calls, UNCHANGED <<setup, vars>>, Moved(calls[c], calls'[c]),
         calls' = [calls EXCEPT ![c] = calls'[c]]
  PROVE  CallSteps
  BY QuietCalls DEF CallSteps, CallsInv

\* A step of the runner launches one call or aborts the signals of some.
LEMMA RunnerMovesCalls ==
  ASSUME CallsInv, CallsFollow, setup' = setup
  PROVE  CallSteps
<1>1. CASE Launched # {}
  <2>1. PICK c \in Launched : StartCall(c)
    BY <1>1 DEF CallsFollow
  <2>2. c \in Calls
    BY <2>1 DEF Launched
  <2>3. Begun(calls[c], calls'[c]) /\ calls' = [calls EXCEPT ![c] = calls'[c]]
    BY <2>1, <2>2, CodexStart, ApiStart, StubStart DEF StartCall
  <2> QED
    BY <1>1, <2>1, <2>2, <2>3 DEF CallSteps, CallsInv
<1>2. CASE Launched = {}
  <2>1. calls' = [c \in Calls |->
                    IF c \notin Signalled THEN calls[c]
                    ELSE IF UsesCodex THEN Codex!afterAbort(calls[c])
                    ELSE IF UsesApi THEN Api!afterAbort(calls[c])
                    ELSE calls[c]]
    BY <1>2 DEF CallsFollow, AbortCalls
  <2>2. ASSUME NEW c \in Calls
        PROVE  \/ c \in Signalled /\ Stopped(calls[c], calls'[c])
               \/ c \notin Signalled /\ calls'[c] = calls[c]
    <3>1. RecordInv(calls[c]) /\ calls[c] \in CallRecord
      BY DEF CallsInv
    <3>2. CASE c \notin Signalled
      BY <2>1, <3>2
    <3>3. CASE c \in Signalled /\ UsesCodex
      BY <2>1, <3>1, <3>3, CodexAbort
    <3>4. CASE c \in Signalled /\ ~UsesCodex /\ UsesApi
      BY <2>1, <3>1, <3>4, ApiAbort
    <3>5. CASE c \in Signalled /\ ~UsesCodex /\ ~UsesApi
      <4>1. calls'[c] = calls[c]
        BY <2>1, <3>5
      <4>2. calls[c].peer \notin Working
        BY <3>1, <3>5 DEF CallRecord, Peers, Working
      <4> QED
        BY <3>1, <3>5, <4>1, <4>2 DEF Stopped, Progress
    <3> QED
      BY <3>2, <3>3, <3>4, <3>5
  <2> QED
    <3>1. calls' = [c \in Calls |-> calls'[c]]
      BY <2>1
    <3> QED
      BY <1>2, <2>2, <3>1 DEF CallSteps
<1> QED
  BY <1>1, <1>2

\* Every step moves the calls in one of the ways of CallSteps.
LEMMA StepsMoveCalls ==
  ASSUME CallsInv, [RunNext]_runVariables
  PROVE  CallSteps
<1>1. CASE RunnerStep \/ AbortStep
  BY <1>1, RunnerMovesCalls DEF RunnerStep, AbortStep
<1>2. CASE NodeStep \/ PeerStep
  <2>1. PICK c \in Calls :
          \/ UsesCodex /\ (Codex!NodeEvents(c) \/ Codex!PeerEvents(c))
          \/ UsesApi /\ (Api!NodeEvents(c) \/ Api!PeerEvents(c))
    BY <1>2 DEF NodeStep, PeerStep
  <2>2. Moved(calls[c], calls'[c]) /\ calls' = [calls EXCEPT ![c] = calls'[c]]
    BY <2>1, CodexEvent, ApiEvent DEF UsesCodex, UsesApi
  <2> QED
    BY <1>2, <2>2, OneCallMoves DEF NodeStep, PeerStep
<1>3. CASE Deliver
  <2>1. PICK c \in Calls : OperationSettles(c[1], c[2], outcome(c))
    BY <1>3 DEF Deliver
  <2>2. /\ UNCHANGED <<setup, calls, aborted, timedOut>>
        /\ live' = [live EXCEPT ![c[1]] = @ \ {c[2]}]
    BY <1>3, <2>1 DEF OperationSettles, Deliver
  <2>3. Launched = {} /\ Signalled = {}
    BY <2>2 DEF Launched, Signalled
  <2> QED
    BY <2>2, <2>3 DEF CallSteps, CallsInv
<1>4. CASE (Terminated /\ UNCHANGED <<setup, calls>>) \/ UNCHANGED runVariables
  <2>1. UNCHANGED <<setup, calls, vars>>
    BY <1>4 DEF Terminated, runVariables
  <2> QED
    BY <2>1, QuietCalls DEF CallSteps, CallsInv
<1> QED
  BY <1>1, <1>2, <1>3, <1>4 DEF RunNext

\* What is said of a record depends on the executor, which stays.
LEMMA SameRecordInv ==
  ASSUME setup' = setup, NEW c \in Calls, RecordInv(calls'[c])
  PROVE  RecordInv(calls[c])' /\ calls'[c] \in CallRecord'
<1>1. /\ UsesCodex' = UsesCodex /\ UsesApi' = UsesApi /\ Allowed' = Allowed
      /\ CallRecord' = CallRecord
  BY DEF UsesCodex, UsesApi, Allowed, CallRecord, Peers
<1>stub. Stubbed(calls[c])' <=> Stubbed(calls'[c])
  BY <1>1 DEF Stubbed, Stub!stubStatus
<1>2. Size(calls[c])' = Size(calls'[c])
  BY <1>1 DEF Size
<1>3. Counted(calls[c])' /\ Ended(calls[c])'
  BY <1>1, <1>2 DEF RecordInv, Counted, Ended
<1> QED
  BY <1>1, <1>stub, <1>3 DEF RecordInv

\* Every step keeps the records of the calls.
LEMMA CallsInvStep ==
  ASSUME CallsInv, [RunNext]_runVariables
  PROVE  CallsInv'
<1>1. CallSteps
  BY StepsMoveCalls
<1>2. ASSUME NEW c \in Calls
      PROVE  RecordInv(calls'[c])
  BY <1>1, <1>2 DEF CallSteps, CallsInv, Begun, Moved, Stopped, Progress
<1>3. ASSUME NEW c \in Calls
      PROVE  RecordInv(calls[c])' /\ calls'[c] \in CallRecord'
  BY <1>1, <1>2, SameRecordInv DEF CallSteps
<1> QED
  BY <1>1, <1>3 DEF CallSteps, CallsInv

\* Before the run no call has been made.
LEMMA CallsInvInit == RunInit => CallsInv
<1> SUFFICES ASSUME RunInit
             PROVE  CallsInv
  OBVIOUS
<1>1. setup \in Setups /\ calls = [c \in Calls |-> Codex!NewCall]
  BY DEF RunInit
<1>2. PICK r : r = Codex!NewCall
  OBVIOUS
<1>3. r \in CallRecord
  <2>1. "none" \in Peers /\ "pending" \in Codex!Answers /\ << >> \in Seq(Nat \ {0})
    BY DEF Peers, Codex!Answers
  <2> QED
    BY <1>2, <2>1 DEF CallRecord, Codex!NewCall, Codes
<1>4. /\ r.peer = "none" /\ r.answer = "pending" /\ ~r.told /\ r.unread = << >>
      /\ r.bytes = 0 /\ r.width = 0 /\ r.written = 0
  BY <1>2 DEF Codex!NewCall
<1>5. Counted(r) /\ Ended(r) /\ Stubbed(r)
  BY <1>1, <1>4, Limits DEF Counted, Ended, Working, Stubbed
<1> QED
  BY <1>1, <1>2, <1>3, <1>5 DEF CallsInv, RecordInv

\* The records of the calls, for every executor.
LEMMA CallsInvariant == RunSpec => []CallsInv
  BY CallsInvInit, CallsInvStep, PTL DEF RunSpec

-----------------------------------------------------------------------------
\* The calls and the attempts they are made for.

\* The number of an attempt is one there is a call for, and its timer has not fired
\* while it is waited for; no later one has a timer.
Tried(b) ==
  /\ pc[b] = "idle" => attempt[b] = 0
  /\ \A a \in timedOut[b] : a <= attempt[b]
  /\ pc[b] = "racing" => attempt[b] \notin timedOut[b]
  /\ attempt[b] \in 0..AtLeastOne(MaxAttempts)
  /\ pc[b] \in BusyPcs \cup {"done"} => attempt[b] > 0
TriedInv == \A b \in Briefs : Tried(b)

\* A call is made for each attempt that is launched, and for no other.
MadeFor(c) ==
  /\ c[2] > attempt[c[1]] => calls[c].peer = "none"
  /\ c[2] \in live[c[1]] => calls[c].peer # "none" /\ c[2] <= attempt[c[1]]

\* A call that somebody waits for has not been told to stop but for its size; one that
\* nobody waits for is not at work unaware.
Signal(c) ==
  /\ Attended(c) /\ calls[c].told => calls[c].answer = "limit"
  /\ calls[c].peer \in Working /\ ~Attended(c) => calls[c].told
CallInv == \A c \in Calls : MadeFor(c) /\ Signal(c)

\* How the race of the latest attempt ended: by the caller's abort, by its timer, or
\* by the answer of its call, which no signal had cut off.
LatestCall(b) == calls[<<b, attempt[b]>>]
Raced(b) ==
  \/ race[b].threw /\ race[b].what = "cancelled"
  \/ race[b].threw /\ attempt[b] \in timedOut[b]
  \/ /\ LatestCall(b).answer # "pending"
     /\ race[b] = outcome(<<b, attempt[b]>>)
     /\ LatestCall(b).answer = "resolved" => ~LatestCall(b).told

\* No result of an earlier attempt that was not to be tried again is left in race.
Superseded(b) == race[b].threw \/ race[b].retryable \/ race[b] = Unsettled

Answer(b) ==
  /\ pc[b] = "idle" => race[b] = Unsettled
  /\ pc[b] \in {"settled", "delay", "restart"} => Raced(b)
  /\ pc[b] = "caught" => Superseded(b) /\ (~Fatal(error[b]) => Raced(b))
  /\ pc[b] = "done" => Superseded(b) \/ Raced(b)
  /\ result[b] = "succeeded" => Raced(b) /\ race[b] = Returned("succeeded", FALSE)
AnswerInv == \A b \in Briefs : Answer(b)

\* There is a call for every attempt within the budget.
LEMMA CallPairs ==
  /\ AtLeastOne(MaxAttempts) \in Nat \ {0}
  /\ \A c \in Calls :
       c[1] \in Briefs /\ c[2] \in 1..AtLeastOne(MaxAttempts) /\ c = <<c[1], c[2]>>
  /\ \A b \in Briefs, a \in 1..AtLeastOne(MaxAttempts) : <<b, a>> \in Calls
<1>1. AtLeastOne(MaxAttempts) \in Nat \ {0}
  BY PolicyAssumption, ExecutorAssumption DEF AtLeastOne
<1> QED
  BY <1>1 DEF Calls

\* Every step keeps the numbers of the attempts.
LEMMA TriedStep ==
  ASSUME TypeInv, PoolInv, BudgetInv, TriedInv, [Next]_vars
  PROVE  TriedInv'
<1> SUFFICES ASSUME NEW c \in Briefs
             PROVE  Tried(c)'
  BY DEF TriedInv
<1> USE DEF Tried, BusyPcs
<1>types. Tried(c) /\ LoopTypes /\ AtLeastOne(MaxAttempts) \in Nat \ {0}
  BY CallPairs DEF TriedInv, TypeInv, TypeOK
<1>same. ASSUME Untouched(c) PROVE Tried(c)'
  BY <1>same, <1>types DEF Untouched
<1>1. CASE RunStep
  BY <1>1, <1>types, RunStepTouchesNoBrief DEF briefVars
<1>2. CASE TakeBrief \/ StartThrows
  <2>1. CASE c = next
    <3>1. \A a \in timedOut[c] : a <= 0 /\ a \in Nat
      BY <2>1, <1>2, <1>types, NextIsIdle DEF TakeBrief, StartThrows, LoopTypes
    <3> QED
      BY <2>1, <3>1, <1>2, <1>types, NextIsIdle DEF TakeBrief, StartThrows, EnterAttempt, LoopTypes
  <2> QED
    BY <2>1, <1>2, <1>same, StartTouchesItsBrief
<1>3. CASE Abort
  BY <1>3, <1>types DEF Abort, LoopTypes
<1>4. ASSUME BriefStep(c) PROVE Tried(c)'
  <2> USE <1>types DEF LoopTypes
  <2>1. CASE TimerFires(c) \/ AttemptThrows(c) \/ HookThrowsInTry(c) \/ HookThrowsInCatch(c)
    BY <2>1 DEF TimerFires, AttemptThrows, AttemptReturned, HookThrowsInTry, HookThrowsInCatch
  <2>2. CASE Retry(c) \/ DelayEnds(c)
    BY <2>2 DEF Retry, MayRetry, AttemptReturned, DelayEnds
  <2>3. CASE NextAttempt(c)
    <3>1. attempt[c] + 1 <= AtLeastOne(MaxAttempts)
      BY <2>3 DEF NextAttempt, BudgetInv, WithinLoop, WithinBudget
    <3> QED
      BY <2>3, <3>1 DEF NextAttempt, EnterAttempt
  <2>4. CASE FinishReturned(c) \/ FinishCaught(c)
    BY <2>4 DEF FinishReturned, FinishCaught, AttemptReturned, Finish
  <2>5. ASSUME NEW a \in live[c], NEW o \in OperationOutcomes, OperationSettles(c, a, o)
        PROVE  Tried(c)'
    BY <2>5 DEF OperationSettles
  <2> QED
    BY <1>4, <2>1, <2>2, <2>3, <2>4, <2>5 DEF BriefStep
<1>5. ASSUME NEW b \in Briefs, BriefStep(b), b # c PROVE Tried(c)'
  BY <1>5, <1>same, BriefStepTouchesItsBrief
<1> QED
  BY <1>1, <1>2, <1>3, <1>4, <1>5, StepKinds

\* What is known of the runner in a run with an executor.
RunnerInv == TypeInv /\ PoolInv /\ BudgetInv /\ JustifiedInv /\ OnlyDeadlinesAbandon /\ TriedInv

\* The theorems on the runner hold of a run with an executor, which is one of its runs.
LEMMA RunnerInvariant == RunSpec => []RunnerInv
<1>1. Init => TriedInv
  BY CallPairs DEF Init, TriedInv, Tried, BusyPcs
<1>2. TypeInv /\ PoolInv /\ BudgetInv /\ TriedInv /\ [Next]_vars => TriedInv'
  BY TriedStep
<1>3. Spec => []TriedInv
  BY <1>1, <1>2, TypeInvariant, PoolInvariant, BudgetInvariant, ExecutorAssumption, PTL DEF Spec
<1>4. Spec => []BudgetInv
  BY BudgetInvariant, ExecutorAssumption
<1>5. Spec => []JustifiedInv
  BY JustifiedInvariant, ExecutorAssumption
<1>6. RunSpec => Spec
  BY ExecutorsAreOperations DEF IsARun
<1> QED
  BY <1>3, <1>4, <1>5, <1>6, TypeInvariant, PoolInvariant, OnlyDeadlinesAbandonHolds, PTL
  DEF RunnerInv

-----------------------------------------------------------------------------
\* The steps of the runner, and the calls they go with

\* The steps of one brief that are the runner's own.
OwnStep(b) ==
  \/ TimerFires(b) \/ AttemptThrows(b) \/ Retry(b) \/ DelayEnds(b) \/ NextAttempt(b)
  \/ FinishReturned(b) \/ FinishCaught(b)

\* A call hands its answer to the runner.
Delivery(c) ==
  Answered(c) /\ OperationSettles(c[1], c[2], outcome(c)) /\ UNCHANGED <<setup, calls>>

\* What a step is to the briefs: the steps of RunLoop_proofs, but that an operation settles
\* only by a delivery.
LEMMA ExecutorStepKinds ==
  ASSUME [RunNext]_runVariables
  PROVE  \/ RunStep
         \/ TakeBrief
         \/ Abort
         \/ \E b \in Briefs : OwnStep(b) /\ SettledByAbort /\ Drained
         \/ \E c \in Calls : Delivery(c)
<1>1. CASE RunnerStep
  BY <1>1, ExecutorAssumption
  DEF RunnerStep, Runtime, RunStep, OwnStep, StartThrows, HookThrowsInTry, HookThrowsInCatch
<1>2. CASE AbortStep
  BY <1>2 DEF AbortStep
<1>3. CASE Deliver
  BY <1>3 DEF Deliver, Delivery
<1>4. CASE NodeStep \/ PeerStep \/ (Terminated /\ UNCHANGED <<setup, calls>>)
             \/ UNCHANGED runVariables
  BY <1>4 DEF NodeStep, PeerStep, Terminated, runVariables, RunStep
<1> QED
  BY <1>1, <1>2, <1>3, <1>4 DEF RunNext

\* A step that a brief takes by itself is one of its steps.
LEMMA OwnStepIsBriefStep ==
  ASSUME NEW b \in Briefs, OwnStep(b)
  PROVE  BriefStep(b)
  BY DEF OwnStep, BriefStep

\* A delivery is a step of the brief the call was made for.
LEMMA DeliveryIsBriefStep ==
  ASSUME setup \in Setups, NEW c \in Calls, Delivery(c)
  PROVE  c[1] \in Briefs /\ BriefStep(c[1])
  BY CallPairs, OutcomesExpected DEF Delivery, OperationSettles, BriefStep

\* A call is not touched by the runner unless it is launched or its signal is aborted.
LEMMA CallStays ==
  ASSUME CallSteps, NEW c \in Calls, c \notin Launched, c \notin Signalled
  PROVE  \/ calls'[c] = calls[c]
         \/ UNCHANGED vars /\ Moved(calls[c], calls'[c])
  BY DEF CallSteps

\* Nothing happens to the calls of a brief that a step leaves alone, but what they do
\* themselves.
LEMMA UntouchedCalls ==
  ASSUME CallsInv, CallSteps, NEW c \in Calls, Untouched(c[1]), UNCHANGED aborted
  PROVE  calls'[c] = calls[c] \/ Moved(calls[c], calls'[c])
<1>1. c \notin Launched /\ c \notin Signalled
  BY DEF Launched, Signalled, Untouched
<1> QED
  BY <1>1, CallStays

CallOK(c) == MadeFor(c) /\ Signal(c)

\* A call keeps its invariant while its brief stays as it was.
LEMMA UntouchedCallOK ==
  ASSUME CallsInv, CallSteps, NEW c \in Calls, CallOK(c), Untouched(c[1]), UNCHANGED aborted
  PROVE  CallOK(c)'
<1>1. Attended(c)' <=> Attended(c)
  BY DEF Attended, Untouched
<1>2. CASE calls'[c] = calls[c]
  BY <1>1, <1>2 DEF CallOK, MadeFor, Signal, Untouched
<1>3. CASE Moved(calls[c], calls'[c])
  <2>1. calls[c].answer = "limit" => calls'[c].answer = "limit"
    BY <1>3 DEF Moved, Progress
  <2> QED
    BY <1>1, <1>3, <2>1 DEF CallOK, MadeFor, Signal, Untouched, Moved, Progress
<1> QED
  BY <1>2, <1>3, UntouchedCalls

\* An attempt that is entered launches the call of its number, which is the next, or none.
LEMMA EnteredCallOK ==
  ASSUME CallsInv, CallSteps, RunnerInv, NEW c \in Calls, CallOK(c), NEW b \in Briefs, b = c[1],
         NEW a \in Nat, a = attempt[b] + 1, pc[b] # "racing", WithinBudget(a),
         EnterAttempt(b, a), UNCHANGED aborted
  PROVE  CallOK(c)'
<1>1. /\ attempt'[b] = a /\ c[2] \in Nat \ {0} /\ attempt[b] \in Nat
      /\ live'[b] = (IF aborted THEN live[b] ELSE live[b] \cup {a})
      /\ pc'[b] = (IF aborted THEN "caught" ELSE "racing")
      /\ timedOut' = timedOut
  <2>1. LoopTypes
    BY DEF RunnerInv, TypeInv, TypeOK
  <2>2. c[2] \in Nat \ {0}
    BY CallPairs
  <2>3. attempt[b] \in Nat /\ attempt'[b] = a
    BY <2>1 DEF LoopTypes, EnterAttempt
  <2>4. live'[b] = IF aborted THEN live[b] ELSE live[b] \cup {a}
    BY <2>1 DEF LoopTypes, EnterAttempt
  <2>5. pc'[b] = (IF aborted THEN "caught" ELSE "racing") /\ timedOut' = timedOut
    BY <2>1 DEF LoopTypes, EnterAttempt
  <2> QED
    BY <2>2, <2>3, <2>4, <2>5
<1>others. \A d \in Launched : d = c \/ c \notin Launched
  <2>1. \A d \in Launched : d[1] = b /\ d[2] = a /\ d \in Calls
    BY DEF RunnerInv, TypeInv, TypeOK, LoopTypes, EnterAttempt, Launched
  <2> QED
    BY <2>1, CallPairs
<1>2. RecordInv(calls[c])
  BY DEF CallsInv
<1>3. CASE c \in Launched
  <2>1. c[2] = a /\ ~aborted
    BY <1>1, <1>3 DEF Launched
  <2>2. Begun(calls[c], calls'[c])
    <3>1. calls[c].peer = "none"
      BY <1>1, <2>1 DEF CallOK, MadeFor
    <3>2. ~Moved(calls[c], calls'[c]) \/ ~UNCHANGED vars
      BY <3>1 DEF Moved
    <3>3. attempt' # attempt
      BY <1>1
    <3>4. Launched = {c}
      BY <1>others, <1>3
    <3> QED
      BY <3>2, <3>3, <3>4 DEF CallSteps, vars, briefVars
  <2> QED
    BY <1>1, <2>1, <2>2 DEF CallOK, MadeFor, Signal, Attended, Begun
<1>4. CASE c \notin Launched
  <2>1. calls'[c] = calls[c]
    <3>1. c \notin Signalled /\ attempt' # attempt
      BY <1>1 DEF Signalled
    <3> QED
      BY <1>4, <3>1, CallStays DEF vars, briefVars
  <2>2. c[2] \in live'[b] => c[2] \in live[b]
    BY <1>4 DEF Launched
  <2>3. c[2] = a => calls[c].peer = "none"
    BY <1>1 DEF CallOK, MadeFor
  <2>4. calls[c].peer = "none" => ~calls[c].told /\ calls[c].peer \notin Working
    BY <1>2 DEF RecordInv, Codex!NewCall, Working
  <2> QED
    BY <1>1, <2>1, <2>2, <2>3, <2>4 DEF CallOK, MadeFor, Signal, Attended
<1> QED
  BY <1>3, <1>4

\* A step that launches nothing and aborts no signal, and after which a call is waited
\* for when it was.
LEMMA QuietCallOK ==
  ASSUME CallsInv, CallSteps, NEW c \in Calls, CallOK(c), UNCHANGED <<aborted, timedOut>>,
         live'[c[1]] \subseteq live[c[1]],
         attempt'[c[1]] = attempt[c[1]],
         Attended(c)' => Attended(c),
         Attended(c) /\ ~Attended(c)' /\ calls[c].peer \in Working => calls[c].told
  PROVE  CallOK(c)'
<1>1. c \notin Launched /\ c \notin Signalled
  BY DEF Launched, Signalled
<1>2. CASE UNCHANGED vars
  BY <1>2, UntouchedCallOK DEF vars, briefVars, Untouched
<1>3. CASE calls'[c] = calls[c]
  BY <1>3 DEF CallOK, MadeFor, Signal
<1> QED
  BY <1>1, <1>2, <1>3, CallStays

\* Every step keeps what ties the calls to the attempts.
LEMMA CallInvStep ==
  ASSUME CallsInv, RunnerInv, CallInv, [RunNext]_runVariables
  PROVE  CallInv'
<1> SUFFICES ASSUME NEW c \in Calls
             PROVE  CallOK(c)'
  BY DEF CallInv, CallOK, Calls
<1> DEFINE b == c[1]
<1>types. /\ b \in Briefs /\ c[2] \in Nat \ {0} /\ c = <<c[1], c[2]>>
          /\ CallOK(c) /\ LoopTypes /\ CallSteps /\ RecordInv(calls[c])
          /\ Tried(b) /\ WithinLoop(b) /\ Justified(b)
  BY CallPairs, StepsMoveCalls
  DEF RunnerInv, TypeInv, TypeOK, CallInv, CallOK, CallsInv, TriedInv, BudgetInv, JustifiedInv
<1>waited. Attended(c) => c[2] \in live[b]
  BY <1>types DEF Attended, RunnerInv, OnlyDeadlinesAbandon
<1>same. ASSUME Untouched(b), UNCHANGED aborted PROVE CallOK(c)'
  BY <1>same, <1>types, UntouchedCallOK
<1>1. CASE RunStep
  BY <1>1, <1>same, RunStepTouchesNoBrief DEF briefVars, Untouched
<1>2. CASE TakeBrief
  <2>1. CASE b = next
    <3>1. pc[b] = "idle" /\ attempt[b] = 0
      BY <1>2, <1>types, <2>1, NextIsIdle DEF TakeBrief, RunnerInv, Justified
    <3>2. WithinBudget(1)
      BY FirstAttemptIsWithinBudget, ExecutorAssumption
    <3>3. ASSUME NEW a \in Nat, a = 1
          PROVE  CallOK(c)'
      <4>1. EnterAttempt(b, a) /\ UNCHANGED aborted /\ a = attempt[b] + 1 /\ WithinBudget(a)
        BY <1>2, <2>1, <3>1, <3>2, <3>3 DEF TakeBrief
      <4> QED
        BY <1>types, <3>1, <4>1, EnteredCallOK
    <3> QED
      BY <3>3
  <2> QED
    BY <2>1, <1>2, <1>types, <1>same, StartTouchesItsBrief DEF RunnerInv
<1>3. CASE Abort
  <2>1. ~Attended(c)' /\ ~UNCHANGED vars /\ aborted' /\ ~aborted
        /\ UNCHANGED <<live, attempt, timedOut>>
    BY <1>3, <1>types DEF Abort, Attended, LoopTypes, vars
  <2>2. Launched = {}
    BY <2>1 DEF Launched
  <2>3. CASE c \in Signalled
    <3>1. Stopped(calls[c], calls'[c])
      BY <1>types, <2>1, <2>2, <2>3 DEF CallSteps
    <3> QED
      BY <1>types, <2>1, <3>1 DEF CallOK, MadeFor, Signal, Stopped, Progress
  <2>4. CASE c \notin Signalled
    <3>1. calls'[c] = calls[c]
      BY <1>types, <2>1, <2>2, <2>4, CallStays
    <3>2. ~Attended(c)
      BY <1>waited, <2>1, <2>4 DEF Signalled
    <3> QED
      BY <1>types, <2>1, <3>1, <3>2 DEF CallOK, MadeFor, Signal
  <2> QED
    BY <2>3, <2>4
<1>4. ASSUME OwnStep(b) PROVE CallOK(c)'
  <2> USE <1>types DEF LoopTypes
  <2>1. CASE TimerFires(b)
    <3>1. /\ ~Attended(c)' /\ attempt[b] \notin timedOut[b]
          /\ timedOut'[b] = timedOut[b] \cup {attempt[b]}
          /\ live'[b] \subseteq live[b] /\ attempt' = attempt /\ pc[b] = "racing"
      BY <2>1 DEF TimerFires, Attended, Tried
    <3>2. Launched = {}
      <4>1. \A d \in Calls : live'[d[1]] \subseteq live[d[1]]
        BY <2>1, CallPairs DEF TimerFires
      <4> QED
        BY <4>1 DEF Launched
    <3>3. ~UNCHANGED vars
      BY <3>1 DEF vars, briefVars
    <3>4. CASE c \in Signalled
      <4>1. Stopped(calls[c], calls'[c])
        BY <3>2, <3>3, <3>4 DEF CallSteps
      <4> QED
        BY <3>1, <4>1 DEF CallOK, MadeFor, Signal, Stopped, Progress
    <3>5. CASE c \notin Signalled
      <4>1. calls'[c] = calls[c]
        BY <3>2, <3>3, <3>5, CallStays
      <4>2. ~Attended(c)
        BY <1>waited, <3>1, <3>5 DEF Signalled, Attended
      <4> QED
        BY <3>1, <4>1, <4>2 DEF CallOK, MadeFor, Signal
    <3> QED
      BY <3>4, <3>5
  <2>2. CASE NextAttempt(b)
    <3>1. pc[b] # "racing" /\ WithinBudget(attempt[b] + 1)
      BY <2>2 DEF NextAttempt, WithinLoop
    <3>2. EnterAttempt(b, attempt[b] + 1) /\ UNCHANGED aborted
      BY <2>2 DEF NextAttempt
    <3> QED
      BY <3>1, <3>2, EnteredCallOK
  <2>3. CASE AttemptThrows(b) \/ Retry(b) \/ DelayEnds(b) \/ FinishReturned(b) \/ FinishCaught(b)
    <3>1. /\ UNCHANGED <<aborted, timedOut, live, attempt>>
          /\ pc[b] # "racing" /\ pc'[b] # "racing"
      BY <2>3 DEF AttemptThrows, Retry, MayRetry, AttemptReturned, DelayEnds, FinishReturned,
         FinishCaught, Finish
    <3> QED
      BY <3>1, QuietCallOK DEF Attended
  <2> QED
    BY <1>4, <2>1, <2>2, <2>3 DEF OwnStep
<1>5. ASSUME NEW d \in Briefs, OwnStep(d), d # b PROVE CallOK(c)'
  BY <1>5, <1>types, <1>same, OwnStepIsBriefStep, BriefStepTouchesItsBrief DEF RunnerInv
<1>6. ASSUME NEW d \in Calls, Delivery(d) PROVE CallOK(c)'
  <2>1. calls'[c] = calls[c] /\ UNCHANGED <<aborted, timedOut, attempt>>
    BY <1>6 DEF Delivery, OperationSettles
  <2>2. live'[b] \subseteq live[b]
    BY <1>6, <1>types DEF Delivery, OperationSettles, LoopTypes
  <2>3. Attended(c)' => Attended(c)
    BY <1>6, <1>types, <2>1 DEF Delivery, OperationSettles, LoopTypes, Attended
  <2>4. CASE Attended(c) /\ ~Attended(c)'
    <3>1. d[1] = b /\ d[2] = attempt[b]
      BY <1>6, <1>types, <2>1, <2>4 DEF Delivery, OperationSettles, LoopTypes, Attended
    <3>2. d = c
      BY <3>1, <1>types, <2>4, CallPairs DEF Attended
    <3>3. calls[c].answer # "pending"
      BY <1>6, <3>2 DEF Delivery, Answered
    <3>4. calls[c].peer \in Working => calls[c].told
      BY <1>types, <3>3 DEF RecordInv, Ended
    <3> QED
      BY <1>types, <2>1, <2>2, <2>4, <3>4 DEF CallOK, MadeFor, Signal
  <2>5. CASE Attended(c) <=> Attended(c)'
    BY <1>types, <2>1, <2>2, <2>5 DEF CallOK, MadeFor, Signal
  <2> QED
    BY <2>3, <2>4, <2>5
<1> QED
  BY <1>1, <1>2, <1>3, <1>4, <1>5, <1>6, ExecutorStepKinds

\* Before the run nothing has been called.
LEMMA CallInvInit == RunInit => CallInv
<1> SUFFICES ASSUME RunInit, NEW c \in Calls
             PROVE  CallOK(c)
  BY DEF CallInv, CallOK
<1>1. calls[c] = Codex!NewCall /\ live[c[1]] = {} /\ pc[c[1]] = "idle"
  BY CallPairs DEF RunInit, Init
<1> QED
  BY <1>1 DEF CallOK, MadeFor, Signal, Attended, Working, Codex!NewCall

\* A call is made for an attempt, and told when the attempt gives it up.
LEMMA CallInvariant == RunSpec => []CallInv
<1>1. CallsInv /\ RunnerInv /\ CallInv /\ [RunNext]_runVariables => CallInv'
  BY CallInvStep
<1> QED
  BY <1>1, CallInvInit, CallsInvariant, RunnerInvariant, PTL DEF RunSpec

-----------------------------------------------------------------------------
\* What a brief is answered with

\* What a call is answered with stays.
LEMMA AnswerStays ==
  ASSUME CallsInv, CallSteps, NEW k \in Calls, calls[k].answer # "pending"
  PROVE  /\ calls'[k].answer = calls[k].answer
         /\ calls[k].answer = "resolved" => calls'[k] = calls[k]
         /\ outcome(k)' = outcome(k)
<1>1. calls[k].peer # "none"
  BY DEF CallsInv, RecordInv, Codex!NewCall
<1>2. /\ calls'[k].answer = calls[k].answer
      /\ calls[k].answer = "resolved" => calls'[k] = calls[k]
  BY <1>1 DEF CallSteps, Begun, Moved, Stopped, Progress
<1>3. setup' = setup
  BY DEF CallSteps
<1>4. Codex!outcome(calls[k])' = Codex!outcome(calls[k])
  BY <1>2 DEF Codex!outcome, Codex!rejection, Codex!executorError, Codex!executorResult
<1>5. Api!outcome(calls[k])' = Api!outcome(calls[k])
  <2>1. CASE calls[k].answer = "resolved"
    <3>1. calls'[k] = calls[k]
      BY <1>2, <2>1
    <3> QED
      BY <3>1 DEF Api!outcome, Api!rejection, Api!retryable, Api!executorError, Api!executorResult
  <2>2. CASE calls[k].answer # "resolved"
    <3>1. Api!outcome(calls[k]) = Api!rejection(calls[k])
      BY <2>2 DEF Api!outcome
    <3>2. Api!outcome(calls[k])' = Api!rejection(calls[k])'
      BY <1>2, <2>2 DEF Api!outcome
    <3>3. Api!rejection(calls[k])' = Api!rejection(calls[k])
      BY <1>2 DEF Api!rejection, Api!executorError
    <3> QED
      BY <3>1, <3>2, <3>3
  <2> QED
    BY <2>1, <2>2
<1>6. Stub!outcome(calls[k])' = Stub!outcome(calls[k])
  BY <1>3 DEF Stub!outcome, Stub!stubStatus, Stub!executorResult
<1> QED
  BY <1>2, <1>3, <1>4, <1>5, <1>6 DEF outcome, UsesCodex, UsesApi

\* A success is never one that may be retried.
LEMMA SuccessIsFinal ==
  ASSUME NEW k \in Calls, ~outcome(k).threw, outcome(k).what = "succeeded"
  PROVE  outcome(k) = Returned("succeeded", FALSE)
<1>1. CASE UsesCodex
  BY <1>1 DEF outcome, Codex!outcome, Codex!rejection, Codex!executorResult,
     Codex!executorError, Returned
<1>2. CASE ~UsesCodex /\ UsesApi
  BY <1>2 DEF outcome, Api!outcome, Api!rejection, Api!executorResult,
     Api!executorError, Returned
<1>3. CASE ~UsesCodex /\ ~UsesApi
  BY <1>3 DEF outcome, Stub!outcome, Stub!executorResult, Returned
<1> QED
  BY <1>1, <1>2, <1>3

\* A call that did not resolve throws.
LEMMA ThrownUnlessResolved ==
  ASSUME CallsInv, NEW k \in Calls, calls[k].answer # "pending", ~outcome(k).threw
  PROVE  calls[k].answer = "resolved"
<1>1. CASE UsesCodex
  BY <1>1 DEF outcome, Codex!outcome, Codex!rejection, Codex!executorError
<1>2. CASE ~UsesCodex /\ UsesApi
  BY <1>2 DEF outcome, Api!outcome, Api!rejection, Api!executorError
<1>3. CASE ~UsesCodex /\ ~UsesApi
  BY <1>3 DEF CallsInv, RecordInv, Stubbed, Codex!NewCall
<1> QED
  BY <1>1, <1>2, <1>3

\* A race that a call has won stays won by it.
LEMMA RacedStays ==
  ASSUME CallsInv, CallSteps, NEW b \in Briefs, Raced(b), <<b, attempt[b]>> \in Calls,
         attempt'[b] = attempt[b], race'[b] = race[b],
         timedOut[b] \subseteq timedOut'[b]
  PROVE  Raced(b)'
  BY AnswerStays DEF Raced, LatestCall

\* A step that leaves the brief where it is.
LEMMA SettledAnswer ==
  ASSUME CallsInv, CallSteps, RunnerInv, NEW b \in Briefs, Answer(b),
         pc'[b] = pc[b], attempt'[b] = attempt[b], race'[b] = race[b],
         timedOut'[b] = timedOut[b], error'[b] = error[b], result'[b] = result[b]
  PROVE  Answer(b)'
<1>1. pc[b] \in BusyPcs \cup {"done"} => <<b, attempt[b]>> \in Calls
  BY CallPairs DEF RunnerInv, TriedInv, Tried
<1>2. result[b] = "succeeded" => pc[b] = "done"
  BY DEF RunnerInv, PoolInv, Positions
<1>3. pc[b] \in BusyPcs \cup {"done"} /\ Raced(b) => Raced(b)'
  BY <1>1, RacedStays
<1> QED
  BY <1>2, <1>3 DEF Answer, Superseded, Fatal, BusyPcs

\* Every step keeps what a brief owes its answer to.
LEMMA AnswerInvStep ==
  ASSUME CallsInv, RunnerInv, CallInv, AnswerInv, [RunNext]_runVariables
  PROVE  AnswerInv'
<1> SUFFICES ASSUME NEW b \in Briefs
             PROVE  Answer(b)'
  BY DEF AnswerInv
<1> DEFINE k == <<b, attempt[b]>>
<1>types. /\ LoopTypes /\ RaceInv /\ RaceTypes /\ ResultTypes /\ CallSteps /\ Answer(b)
          /\ Tried(b) /\ Justified(b)
          /\ pc[b] # "idle" => pc[b] = "done" \/ result[b] = "none" \/ pc[b] \in {"threw", "unreachable"}
          /\ result[b] # "none" => pc[b] = "done"
          /\ Unsettled.threw = FALSE
  BY StepsMoveCalls
  DEF RunnerInv, TypeInv, TypeOK, AnswerInv, TriedInv, JustifiedInv, PoolInv, Positions,
      Unsettled, Returned
<1>latest. pc[b] \in BusyPcs \cup {"done"} => k \in Calls
  BY <1>types, CallPairs DEF Tried
<1>raced. ASSUME pc[b] \in BusyPcs \cup {"done"}, Raced(b), UNCHANGED <<attempt, race, timedOut>>
          PROVE  Raced(b)'
  BY <1>raced, <1>types, <1>latest, RacedStays DEF CallsInv
<1>same. ASSUME Untouched(b) PROVE Answer(b)'
  BY <1>same, <1>types, SettledAnswer DEF Untouched
<1>retried. LastAttemptRetryable(b) => Superseded(b)
  BY DEF LastAttemptRetryable, Superseded
<1>1. CASE RunStep
  BY <1>1, <1>same, RunStepTouchesNoBrief DEF briefVars, Untouched
<1>2. CASE TakeBrief
  <2>1. CASE b = next
    <3>1. pc[b] = "idle" /\ result[b] = "none" /\ WithinBudget(1)
      BY <1>2, <2>1, NextIsIdle, FirstAttemptIsWithinBudget, ExecutorAssumption
      DEF TakeBrief, RunnerInv
    <3>2. /\ pc'[b] = "racing" \/ (pc'[b] = "caught" /\ error'[b] = "cancelled")
          /\ UNCHANGED <<race, result>>
      BY <1>2, <1>types, <2>1, <3>1 DEF TakeBrief, EnterAttempt, LoopTypes
    <3> QED
      BY <1>types, <3>1, <3>2, CancelledIsFatal DEF Answer, Superseded, Fatal
  <2> QED
    BY <2>1, <1>2, <1>same, StartTouchesItsBrief DEF RunnerInv
<1>3. CASE Abort
  <2>1. UNCHANGED <<attempt, timedOut, result>>
    BY <1>3 DEF Abort
  <2>2. CASE pc[b] = "racing"
    <3>1. pc'[b] = "settled" /\ race'[b] = Thrown("cancelled")
      BY <1>3, <2>2 DEF Abort
    <3>2. race'[b].threw /\ race'[b].what = "cancelled"
      BY <3>1 DEF Thrown
    <3>3. result'[b] # "succeeded"
      BY <1>types, <2>1, <2>2
    <3> QED
      BY <3>1, <3>2, <3>3 DEF Answer, Raced
  <2>3. CASE pc[b] = "delay"
    <3>1. pc'[b] = "caught" /\ race'[b] = race[b] /\ error'[b] = "cancelled"
      BY <1>3, <2>3 DEF Abort
    <3> QED
      BY <1>types, <1>retried, <2>1, <2>3, <3>1, CancelledIsFatal
      DEF Answer, Superseded, Fatal, Justified
  <2>4. CASE pc[b] \notin {"racing", "delay"}
    <3>1. pc'[b] = pc[b] /\ race'[b] = race[b] /\ error'[b] = error[b]
      BY <1>3, <2>4 DEF Abort
    <3> QED
      BY <1>types, <2>1, <3>1, SettledAnswer
  <2> QED
    BY <2>2, <2>3, <2>4
<1>4. ASSUME OwnStep(b), SettledByAbort, Drained PROVE Answer(b)'
  <2> USE <1>types DEF LoopTypes
  <2>1. CASE TimerFires(b)
    <3>1. /\ pc[b] = "racing" /\ pc'[b] = "settled"
          /\ attempt[b] \in timedOut'[b] /\ attempt[b] \notin timedOut[b]
          /\ UNCHANGED <<attempt, result>>
      BY <2>1 DEF TimerFires, Tried
    <3>2. CASE race' = [race EXCEPT ![b] = Thrown("timeout")]
      <4>1. race'[b].threw
        BY <3>2 DEF RaceTypes, Thrown
      <4> QED
        BY <3>1, <4>1 DEF Answer, Raced
    <3>3. CASE live' = [live EXCEPT ![b] = @ \ {attempt[b]}]
      <4>1. PICK d \in Calls : d = k
        BY <1>latest, <3>1 DEF BusyPcs
      <4>2. d[1] = b /\ d[2] = attempt[b] /\ d[2] \in live[b] /\ d[2] \notin live'[b]
        BY <3>1, <3>3, <4>1 DEF RunnerInv, OnlyDeadlinesAbandon
      <4>3. d \in Signalled
        BY <3>1, <4>2 DEF Signalled
      <4>4. Answered(d)' /\ race'[b] = outcome(d)'
        BY <1>4, <4>2, <4>3 DEF SettledByAbort
      <4>5. calls[d].answer = "pending"
        BY <1>4, <4>2 DEF Drained, Answered
      <4>6. Stopped(calls[d], calls'[d])
        <5>1. calls'[d] # calls[d] /\ ~UNCHANGED vars
          BY <3>1, <4>4, <4>5 DEF Answered, vars, briefVars
        <5>2. d \notin Launched
          BY <4>2 DEF Launched
        <5> QED
          BY <5>1, <5>2 DEF CallSteps
      <4>7. calls'[d].answer # "resolved"
        BY <4>5, <4>6 DEF Stopped
      <4>8. d = <<b, attempt'[b]>>
        BY <3>1, <4>1
      <4>9. Raced(b)'
        BY <4>4, <4>7, <4>8 DEF Raced, LatestCall, Answered
      <4> QED
        BY <3>1, <4>9 DEF Answer
    <3> QED
      BY <2>1, <3>2, <3>3 DEF TimerFires
  <2>2. CASE AttemptThrows(b)
    <3>1. /\ pc[b] = "settled" /\ pc'[b] = "caught" /\ race[b].threw
          /\ UNCHANGED <<attempt, race, timedOut, result>>
      BY <2>2 DEF AttemptThrows
    <3> QED
      BY <1>raced, <3>1 DEF Answer, Superseded, Fatal, BusyPcs
  <2>3. CASE Retry(b)
    <3>1. /\ UNCHANGED <<attempt, race, timedOut, result>>
          /\ \/ pc[b] = "caught" /\ ~Fatal(error[b])
             \/ pc[b] = "settled" /\ race[b].retryable
      BY <2>3 DEF Retry, MayRetry, AttemptReturned
    <3>2. pc'[b] \in {"restart", "delay"} \/ (pc'[b] = "caught" /\ error'[b] = "cancelled")
      BY <2>3, ExecutorAssumption DEF Retry
    <3>3. Raced(b) /\ Raced(b)' /\ Superseded(b)
      BY <1>raced, <3>1 DEF Answer, BusyPcs, Superseded
    <3> QED
      BY <3>1, <3>2, <3>3, CancelledIsFatal DEF Answer, Superseded, Fatal
  <2>4. CASE DelayEnds(b)
    <3>1. /\ pc[b] = "delay" /\ pc'[b] = "restart"
          /\ UNCHANGED <<attempt, race, timedOut, result>>
      BY <2>4 DEF DelayEnds
    <3> QED
      BY <1>raced, <3>1 DEF Answer, BusyPcs
  <2>5. CASE NextAttempt(b)
    <3>1. /\ pc[b] = "restart" /\ UNCHANGED <<race, result>> /\ WithinBudget(attempt[b] + 1)
      BY <2>5 DEF NextAttempt, RunnerInv, BudgetInv, WithinLoop
    <3>2. pc'[b] = "racing" \/ (pc'[b] = "caught" /\ error'[b] = "cancelled")
      BY <2>5, <3>1 DEF NextAttempt, EnterAttempt
    <3> QED
      BY <1>retried, <3>1, <3>2, CancelledIsFatal DEF Answer, Superseded, Fatal, Justified
  <2>6. CASE FinishReturned(b)
    <3>1. /\ pc[b] = "settled" /\ ~race[b].threw /\ pc'[b] = "done" /\ result'[b] = race[b].what
          /\ UNCHANGED <<attempt, race, timedOut>>
      BY <2>6 DEF FinishReturned, AttemptReturned, Finish, ResultTypes
    <3>2. Raced(b) /\ Raced(b)'
      BY <1>raced, <3>1 DEF Answer, BusyPcs
    <3>3. race[b].what = "succeeded" => race[b] = Returned("succeeded", FALSE)
      BY <1>latest, <3>1, <3>2, SuccessIsFinal DEF Raced, BusyPcs
    <3> QED
      BY <3>1, <3>2, <3>3 DEF Answer
  <2>7. CASE FinishCaught(b)
    <3>1. /\ pc[b] = "caught" /\ pc'[b] = "done" /\ result'[b] = FailureStatus(error[b])
          /\ UNCHANGED race
      BY <2>7 DEF FinishCaught, Finish, ResultTypes
    <3>2. FailureStatus(error[b]) # "succeeded"
      BY DEF FailureStatus
    <3> QED
      BY <3>1, <3>2 DEF Answer, Superseded
  <2> QED
    BY <1>4, <2>1, <2>2, <2>3, <2>4, <2>5, <2>6, <2>7 DEF OwnStep
<1>5. ASSUME NEW d \in Briefs, OwnStep(d), d # b PROVE Answer(b)'
  BY <1>5, <1>same, OwnStepIsBriefStep, BriefStepTouchesItsBrief DEF RunnerInv
<1>6. ASSUME NEW d \in Calls, Delivery(d) PROVE Answer(b)'
  <2>1. UNCHANGED <<attempt, timedOut, error, result, calls, setup>>
    BY <1>6 DEF Delivery, OperationSettles
  <2>2. CASE d[1] = b /\ pc[b] = "racing" /\ d[2] = attempt[b]
    <3>1. d = k
      BY <2>2, CallPairs
    <3>2. calls[d].answer # "pending" /\ pc'[b] = "settled" /\ race'[b] = outcome(d)
      BY <1>6, <1>types, <2>2 DEF Delivery, OperationSettles, Answered, LoopTypes, RaceTypes
    <3>3. calls[d].told => calls[d].answer = "limit"
      BY <2>2 DEF CallInv, Signal, Attended
    <3>4. outcome(d)' = outcome(d) /\ attempt'[b] = attempt[b] /\ calls' = calls
      BY <1>types, <2>1, <3>2, AnswerStays
    <3>5. Raced(b)'
      BY <3>1, <3>2, <3>3, <3>4 DEF Raced, LatestCall
    <3> QED
      BY <1>types, <2>1, <2>2, <3>2, <3>5 DEF Answer
  <2>3. CASE ~(d[1] = b /\ pc[b] = "racing" /\ d[2] = attempt[b])
    <3>1. pc'[b] = pc[b] /\ race'[b] = race[b]
      BY <1>6, <1>types, <2>3 DEF Delivery, OperationSettles, LoopTypes, RaceTypes
    <3> QED
      BY <1>types, <2>1, <3>1, SettledAnswer
  <2> QED
    BY <2>2, <2>3
<1> QED
  BY <1>1, <1>2, <1>3, <1>4, <1>5, <1>6, ExecutorStepKinds

\* Before the run no brief has a result.
LEMMA AnswerInvInit == RunInit => AnswerInv
  BY DEF RunInit, Init, AnswerInv, Answer

\* A brief is answered with what its latest call was answered with.
LEMMA AnswerInvariant == RunSpec => []AnswerInv
<1>1. CallsInv /\ RunnerInv /\ CallInv /\ AnswerInv /\ [RunNext]_runVariables => AnswerInv'
  BY AnswerInvStep
<1> QED
  BY <1>1, AnswerInvInit, CallsInvariant, RunnerInvariant, CallInvariant, PTL DEF RunSpec

-----------------------------------------------------------------------------
\* The theorems

\* A process or a request that is at work, and that no attempt is waiting for, has
\* been told to stop, whatever timed out, was aborted, failed or was tried again.
THEOREM NobodyWorksUnawareHolds == RunSpec => []NobodyWorksUnaware
<1>1. CallInv => NobodyWorksUnaware
  BY DEF CallInv, Signal, Working, NobodyWorksUnaware
<1> QED
  BY <1>1, CallInvariant, PTL

\* A brief that succeeds has the whole output of a peer that did its work.
THEOREM SuccessIsWholeHolds == RunSpec => []SuccessIsWhole
<1>1. ASSUME CallsInv, RunnerInv, AnswerInv
      PROVE  SuccessIsWhole
  <2> SUFFICES ASSUME NEW b \in Briefs, result[b] = "succeeded"
               PROVE  LET r == calls[<<b, attempt[b]>>]
                      IN  /\ r.answer = "resolved" /\ r.ended
                          /\ r.code \in {0} \cup 200..299
                          /\ r.bytes = r.written
    BY DEF SuccessIsWhole
  <2>1. PICK k \in Calls : k = <<b, attempt[b]>>
    <3>1. pc[b] = "done"
      BY <1>1 DEF RunnerInv, PoolInv, Positions
    <3>2. attempt[b] \in 1..AtLeastOne(MaxAttempts)
      BY <1>1, <3>1, CallPairs DEF RunnerInv, TriedInv, Tried
    <3> QED
      BY <3>2, CallPairs
  <2>2. /\ race[b] = Returned("succeeded", FALSE)
        /\ calls[k].answer # "pending" /\ race[b] = outcome(k)
        /\ calls[k].answer = "resolved" => ~calls[k].told
    BY <1>1, <2>1 DEF AnswerInv, Answer, Raced, LatestCall, Returned
  <2>3. calls[k].answer = "resolved" /\ calls[k].code \in GoodCodes
    <3>1. ~outcome(k).threw /\ outcome(k).what = "succeeded"
      BY <2>2 DEF Returned
    <3>2. CASE UsesCodex
      BY <3>1, <3>2 DEF outcome, Codex!outcome, Codex!rejection, Codex!executorResult,
         Codex!executorError, GoodCodes
    <3>3. CASE ~UsesCodex /\ UsesApi
      BY <3>1, <3>3 DEF outcome, Api!outcome, Api!rejection, Api!executorResult,
         Api!executorError, GoodCodes
    <3>4. CASE ~UsesCodex /\ ~UsesApi
      <4>1. Stub!stubStatus = "succeeded"
        BY <3>1, <3>4 DEF outcome, Stub!outcome, Stub!executorResult
      <4>2. calls[k].answer = "resolved" /\ calls[k].code = 0
        BY <1>1, <2>2, <3>4, <4>1 DEF CallsInv, RecordInv, Stubbed, Codex!NewCall
      <4> QED
        BY <4>2 DEF GoodCodes
    <3> QED
      BY <3>2, <3>3, <3>4
  <2>4. calls[k].ended /\ calls[k].bytes = calls[k].written
    BY <1>1, <2>2, <2>3 DEF CallsInv, RecordInv, Ended
  <2> QED
    BY <2>1, <2>3, <2>4 DEF GoodCodes
<1> QED
  BY <1>1, CallsInvariant, RunnerInvariant, AnswerInvariant, PTL

\* Every call has its type, a chunk that is kept or waits was written, and the calls that
\* are made are those of the attempts that were launched.
THEOREM CallTypesHolds == RunSpec => []CallTypes
<1>1. ASSUME CallsInv, CallInv
      PROVE  CallTypes
  <2> SUFFICES ASSUME NEW c \in Calls
               PROVE  /\ calls[c].peer \in {"none", "running", "failed", "exited", "asked",
                                            "responding", "complete", "broken", "closed"}
                      /\ calls[c].code \in {-1, 0, 1, 401} \cup Responses
                      /\ calls[c].bytes + Len(calls[c].unread) <= calls[c].written
                      /\ calls[c].answer \in Codex!Answers
                      /\ calls[c].peer = "none" => c[2] \notin live[c[1]]
                      /\ c[2] \in live[c[1]] => c[2] <= attempt[c[1]]
    BY DEF CallTypes
  <2>1. calls[c] \in CallRecord /\ Counted(calls[c])
    BY <1>1 DEF CallsInv, RecordInv
  <2>2. calls[c].peer \in Peers /\ calls[c].code \in Codes /\ calls[c].answer \in Codex!Answers
    BY <2>1 DEF CallRecord
  <2>3. calls[c].peer \in {"none", "running", "failed", "exited", "asked",
                           "responding", "complete", "broken", "closed"}
    BY <2>2 DEF Peers
  <2>4. calls[c].code \in {-1, 0, 1, 401} \cup Responses
    BY <2>2 DEF Codes
  <2>5. calls[c].bytes + Len(calls[c].unread) <= calls[c].written
    BY <2>1 DEF Counted
  <2>6. MadeFor(c)
    BY <1>1 DEF CallInv
  <2> QED
    BY <2>2, <2>3, <2>4, <2>5, <2>6 DEF MadeFor
<1> QED
  BY <1>1, CallsInvariant, CallInvariant, PTL

\* The brief is handed what its call returned only when that is within the limit, and
\* what is refused for its size is beyond it.
THEOREM LimitIsExactHolds == RunSpec => []LimitIsExact
<1>1. ASSUME CallsInv, RunnerInv, AnswerInv, NEW b \in Briefs,
             result[b] # "none", Returned(result[b], FALSE) = race[b]
      PROVE  2 * Size(calls[<<b, attempt[b]>>]) <= Allowed
  <2>1. pc[b] = "done"
    BY <1>1 DEF RunnerInv, PoolInv, Positions
  <2>2. PICK k \in Calls : k = <<b, attempt[b]>>
    <3>1. attempt[b] \in 1..AtLeastOne(MaxAttempts)
      BY <1>1, <2>1, CallPairs DEF RunnerInv, TriedInv, Tried
    <3> QED
      BY <3>1, CallPairs
  <2>3. ~race[b].threw /\ ~race[b].retryable /\ race[b].what = result[b]
    <3>1. /\ ~Returned(result[b], FALSE).threw /\ ~Returned(result[b], FALSE).retryable
          /\ Returned(result[b], FALSE).what = result[b]
      BY DEF Returned
    <3> QED
      BY <1>1, <3>1
  <2>4. race[b] # Unsettled
    BY <1>1, <2>3 DEF Unsettled, Returned
  <2>5. Raced(b)
    BY <1>1, <2>1, <2>3, <2>4 DEF AnswerInv, Answer, Superseded
  <2>6. calls[k].answer # "pending" /\ ~outcome(k).threw
    BY <2>2, <2>3, <2>5 DEF Raced, LatestCall
  <2>7. calls[k].answer = "resolved"
    BY <1>1, <2>6, ThrownUnlessResolved
  <2> QED
    BY <1>1, <2>2, <2>7 DEF CallsInv, RecordInv, Ended
<1>2. ASSUME CallsInv, NEW c \in Calls, calls[c].answer = "limit"
      PROVE  2 * (Size(calls[c]) + calls[c].written - calls[c].bytes) > Allowed
  BY <1>2 DEF CallsInv, RecordInv, Ended
<1>3. CallsInv /\ RunnerInv /\ AnswerInv => LimitIsExact
  BY <1>1, <1>2 DEF LimitIsExact
<1> QED
  BY <1>3, CallsInvariant, RunnerInvariant, AnswerInvariant, PTL

-----------------------------------------------------------------------------
\* What is done again

\* A call that begins after another of its brief begins because the loop restarts.
LEMMA RepeatsRestart ==
  ASSUME CallsInv, RunnerInv, [RunNext]_runVariables, NEW c \in Calls, c[2] > 1,
         calls[c].peer = "none", calls'[c].peer # "none"
  PROVE  pc[c[1]] = "restart" /\ attempt[c[1]] = c[2] - 1
<1> DEFINE b == c[1]
<1>types. /\ b \in Briefs /\ c[2] \in Nat /\ attempt[b] \in Nat /\ LoopTypes /\ CallSteps
  BY CallPairs, StepsMoveCalls DEF RunnerInv, TypeInv, TypeOK, LoopTypes
<1>1. c[2] \in live'[b] /\ c[2] \notin live[b]
  <2>1. c \in Launched
    BY <1>types DEF CallSteps, Moved, Stopped, Progress
  <2> QED
    BY <2>1 DEF Launched
<1>2. ~Untouched(b)
  BY <1>1 DEF Untouched
<1>3. CASE RunStep \/ Abort
  BY <1>1, <1>3, RunStepTouchesNoBrief DEF briefVars, Abort
<1>4. CASE TakeBrief
  <2>1. b = next
    BY <1>2, <1>4, <1>types, StartTouchesItsBrief DEF RunnerInv
  <2>2. live'[b] \subseteq live[b] \cup {1}
    BY <1>4, <1>types, <2>1 DEF TakeBrief, EnterAttempt, LoopTypes
  <2> QED
    BY <1>1, <2>2
<1>5. ASSUME NEW d \in Briefs, OwnStep(d)
      PROVE  pc[b] = "restart" /\ attempt[b] = c[2] - 1
  <2>1. d = b
    BY <1>2, <1>5, <1>types, OwnStepIsBriefStep, BriefStepTouchesItsBrief DEF RunnerInv
  <2>2. CASE NextAttempt(b)
    <3>1. pc[b] = "restart" /\ live'[b] \subseteq live[b] \cup {attempt[b] + 1}
      BY <1>types, <2>2 DEF NextAttempt, EnterAttempt, LoopTypes
    <3> QED
      BY <1>1, <1>types, <3>1
  <2>3. CASE ~NextAttempt(b)
    <3>1. live'[b] \subseteq live[b]
      BY <1>5, <1>types, <2>1, <2>3
      DEF OwnStep, TimerFires, AttemptThrows, Retry, DelayEnds, FinishReturned, FinishCaught,
          Finish, LoopTypes
    <3> QED
      BY <1>1, <3>1
  <2> QED
    BY <2>2, <2>3
<1>6. ASSUME NEW d \in Calls, Delivery(d)
      PROVE  FALSE
  <2>1. live'[b] \subseteq live[b]
    BY <1>6, <1>types DEF Delivery, OperationSettles, LoopTypes
  <2> QED
    BY <1>1, <2>1
<1> QED
  BY <1>3, <1>4, <1>5, <1>6, ExecutorStepKinds

\* What the runner tries again after a call that answered in time is worth it.
LEMMA RetriedIsWorth ==
  ASSUME Responses \subseteq 100..599, CallsInv, NEW k \in Calls,
         calls[k].answer # "pending",
         IF ~outcome(k).threw THEN outcome(k).what # "succeeded" /\ outcome(k).retryable
         ELSE ~Fatal(outcome(k).what)
  PROVE  WorthRepeating(calls[k])
<1>1. calls[k] \in CallRecord /\ calls[k].answer \in Codex!Answers /\ calls[k].code \in Codes
  BY DEF CallsInv, RecordInv, CallRecord
<1>2. CASE outcome(k).threw
  <2>1. Fatal("limit")
    BY DEF Fatal, AlwaysFatal
  <2>2. calls[k].answer # "limit"
    BY <1>2, <2>1
    DEF outcome, Codex!outcome, Codex!rejection, Codex!executorError,
        Api!outcome, Api!rejection, Api!executorError, Stub!outcome, Stub!executorResult
  <2>3. calls[k].answer # "resolved"
    BY <1>2
    DEF outcome, Codex!outcome, Codex!executorResult,
        Api!outcome, Api!executorResult, Stub!outcome, Stub!executorResult
  <2> QED
    BY <1>1, <2>2, <2>3 DEF WorthRepeating, Codex!Answers
<1>3. CASE ~outcome(k).threw
  <2>1. calls[k].answer = "resolved"
    BY <1>3, ThrownUnlessResolved
  <2>2. ~UsesCodex /\ UsesApi /\ Api!retryable(calls[k].code)
    <3>1. outcome(k).retryable
      BY <1>3
    <3> QED
      BY <2>1, <3>1
      DEF outcome, Codex!outcome, Codex!executorResult,
          Api!outcome, Api!executorResult, Stub!outcome, Stub!executorResult
  <2>3. ASSUME NEW n \in Codes, Api!retryable(n)
        PROVE  n \in {408, 409, 429} \cup 500..599
    <3>1. CASE n \in Responses
      BY <2>3, <3>1, SMT DEF Api!retryable
    <3>2. CASE n \in {-1, 0, 1, 401}
      BY <2>3, <3>2, SMT DEF Api!retryable
    <3> QED
      BY <3>1, <3>2 DEF Codes
  <2> QED
    BY <1>1, <2>1, <2>2, <2>3 DEF WorthRepeating
<1> QED
  BY <1>2, <1>3

\* Work is done again only when the attempt before timed out or may go well another
\* time, as long as servers answer with HTTP's status codes.
THEOREM RepeatsAreWorthwhileHolds ==
  ASSUME Responses \subseteq 100..599
  PROVE  RunSpec => RepeatsAreWorthwhile
<1>1. ASSUME CallsInv, RunnerInv, AnswerInv, [RunNext]_runVariables,
             NEW c \in Calls, c[2] > 1, calls[c].peer = "none", calls'[c].peer # "none"
      PROVE  c[2] - 1 \in timedOut[c[1]] \/ WorthRepeating(calls[<<c[1], c[2] - 1>>])
  <2> DEFINE b == c[1]
  <2>1. pc[b] = "restart" /\ attempt[b] = c[2] - 1 /\ b \in Briefs
    BY <1>1, RepeatsRestart, CallPairs
  <2>2. PICK k \in Calls : k = <<b, attempt[b]>>
    <3>1. attempt[b] \in 1..AtLeastOne(MaxAttempts)
      BY <1>1, <2>1, CallPairs DEF RunnerInv, TriedInv, Tried, BusyPcs
    <3> QED
      BY <2>1, <3>1, CallPairs
  <2>3. Raced(b) /\ LastAttemptRetryable(b)
    BY <1>1, <2>1 DEF AnswerInv, Answer, RunnerInv, JustifiedInv, Justified
  <2>4. CASE attempt[b] \notin timedOut[b]
    <3>1. calls[k].answer # "pending" /\ race[b] = outcome(k)
      BY <2>2, <2>3, <2>4, CancelledIsFatal DEF Raced, LatestCall, LastAttemptRetryable
    <3>2. WorthRepeating(calls[k])
      BY <1>1, <2>3, <2>4, <3>1, RetriedIsWorth DEF LastAttemptRetryable
    <3> QED
      BY <2>1, <2>2, <3>2
  <2> QED
    BY <2>1, <2>4
<1>2. CallsInv /\ RunnerInv /\ AnswerInv /\ [RunNext]_runVariables
        => [\A c \in Calls :
              c[2] > 1 /\ calls[c].peer = "none" /\ calls'[c].peer # "none" =>
                c[2] - 1 \in timedOut[c[1]] \/ WorthRepeating(calls[<<c[1], c[2] - 1>>])]_runVariables
  BY <1>1
<1> QED
  BY <1>2, CallsInvariant, RunnerInvariant, AnswerInvariant, PTL DEF RunSpec, RepeatsAreWorthwhile
===============================================================================
