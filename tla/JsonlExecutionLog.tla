-------------------------- MODULE JsonlExecutionLog --------------------------
(***************************************************************************)
(* createJsonlExecutionLogStore: an execution log in one file, a line of   *)
(* JSON for each entry.  Several runs, of one process or of several, may   *)
(* be appending to the same file while somebody lists it.                  *)
(*                                                                         *)
(* A line has three pieces: two parts of its JSON text, neither of which   *)
(* is JSON alone, and its line feed.  appendFile writes a short line with  *)
(* one write, and a long one (over 512 KiB) or one that the disk cuts with *)
(* several; other appends may write in between.  A process may die and a   *)
(* write may fail between two writes, which leaves a torn line.            *)
(*                                                                         *)
(* Abstracted: what an entry holds besides its run id, and the file's      *)
(* directory.  A text that mixes pieces of two lines is taken not to be    *)
(* JSON.  JSON has no NaN: an entry of a caller's clock that is not finite *)
(* reads back as null, and isExecutionLogEntry drops it.                   *)
(***************************************************************************)
EXTENDS Positions, SequencesExt

CONSTANTS
  Appends,       \* calls of append(), each with an entry of its own
  RunIds,
  RunId,         \* the run_id of the entry of each append
  NotFinite,     \* the appends whose entry has a time that is not finite
  WholeWrites,   \* is every line written with one write?
  Faults         \* may processes die and writes fail?

ASSUME LogAssumption ==
  /\ RunId \in [Appends -> RunIds]
  /\ NotFinite \subseteq Appends
  /\ WholeWrites \in BOOLEAN
  /\ Faults \in BOOLEAN

Pieces == 3
Piece(a, n) == [of |-> a, part |-> n]

VARIABLES
  file,      \* the pieces in the file
  pc,        \* where append() is
  written,   \* how many pieces of its line an append has written
  listed,    \* the latest answer of list()
  got,       \* the latest answers of get(), << >> for undefined
  threw      \* has a call of list() or get() thrown?

appendVars == <<file, pc, written>>
readVars == <<listed, got, threw>>
vars == <<appendVars, readVars>>

-----------------------------------------------------------------------------
\* Reading

\* Before position 1, after the last one, or a line feed.
EndsLine(f, i) == i \in DOMAIN f => f[i].part = Pieces

\* Where the lines that are not empty start.
Starts(f) == {i \in DOMAIN f : EndsLine(f, i - 1) /\ ~EndsLine(f, i)}

\* Mutant of Parses: a line that was cut is read as far as it goes.
ParsesCut(f, i) == f[i].part = 1

\* The line that starts at i is the whole text of one entry.
Parses(f, i) ==
  /\ f[i].part = 1
  /\ i < Len(f) /\ f[i + 1] = Piece(f[i].of, 2)
  /\ EndsLine(f, i + 2)

\* Mutant of Readable: lines that do not parse are skipped.
SkipsTornLines(f) == TRUE

\* JSON.parse throws for no line.
Readable(f) == \A i \in Starts(f) : Parses(f, i)

\* The lines that parse, those isExecutionLogEntry takes.
Taken(f) == {i \in Starts(f) : Parses(f, i) /\ f[i].of \notin NotFinite}

\* The entries of the lines taken, in the order of the file.
Entries(f) ==
  LET lines == Taken(f)
  IN  [k \in 1..Cardinality(lines) |-> f[Nth(lines, k)].of]

\* Mutant of First: the latest entry of the run id.
LastOf(s, id) ==
  LET matching == {k \in DOMAIN s : RunId[s[k]] = id}
  IN  IF matching = {} THEN << >> ELSE <<s[Max(matching)]>>

\* entries.find((entry) => entry.run_id === runId), as a sequence.
First(s, id) ==
  LET matching == {k \in DOMAIN s : RunId[s[k]] = id}
  IN  IF matching = {} THEN << >> ELSE <<s[Min(matching)]>>

-----------------------------------------------------------------------------
Init ==
  /\ file = << >>
  /\ pc = [a \in Appends |-> "called"]
  /\ written = [a \in Appends |-> 0]
  /\ listed = << >>
  /\ got = [id \in RunIds |-> << >>]
  /\ threw = FALSE

\* Mutant of MakeDirectory: the append does not await appendFile.
MakeDirectoryAndResolve(a) ==
  /\ pc[a] = "called"
  /\ pc' = [pc EXCEPT ![a] = "resolved"]
  /\ UNCHANGED <<file, written, readVars>>

\* mkdir(dirname(filePath), { recursive: true })
MakeDirectory(a) ==
  /\ pc[a] = "called"
  /\ pc' = [pc EXCEPT ![a] = "writing"]
  /\ UNCHANGED <<file, written, readVars>>

\* A write of appendFile puts some of the line's remaining pieces, all of them
\* if it can, at the end of the file.
Write(a) ==
  /\ pc[a] = "writing"
  /\ \E n \in (IF WholeWrites THEN {Pieces} ELSE written[a] + 1..Pieces) :
       /\ written[a] < n
       /\ file' = file \o [i \in 1..n - written[a] |-> Piece(a, written[a] + i)]
       /\ written' = [written EXCEPT ![a] = n]
  /\ UNCHANGED <<pc, readVars>>

\* Mutant of Resolve: a write that was cut short is taken for the whole.
ResolveAfterOneWrite(a) ==
  /\ pc[a] = "writing"
  /\ written[a] > 0
  /\ pc' = [pc EXCEPT ![a] = "resolved"]
  /\ UNCHANGED <<file, written, readVars>>

\* appendFile returns when the whole line is written.
Resolve(a) ==
  /\ pc[a] = "writing"
  /\ written[a] = Pieces
  /\ pc' = [pc EXCEPT ![a] = "resolved"]
  /\ UNCHANGED <<file, written, readVars>>

\* mkdir, a write or the close fails: the promise rejects, and what was written
\* stays.
AppendFails(a) ==
  /\ Faults
  /\ pc[a] \in {"called", "writing"}
  /\ pc' = [pc EXCEPT ![a] = "rejected"]
  /\ UNCHANGED <<file, written, readVars>>

\* The process of an append dies, and what was written stays.
ProcessDies(a) ==
  /\ Faults
  /\ pc[a] \in {"called", "writing"}
  /\ pc' = [pc EXCEPT ![a] = "dead"]
  /\ UNCHANGED <<file, written, readVars>>

ReadThrows ==
  /\ ~Readable(file)
  /\ threw' = TRUE
  /\ UNCHANGED <<appendVars, listed, got>>

List ==
  /\ Readable(file)
  /\ listed' = Entries(file)
  /\ UNCHANGED <<appendVars, got, threw>>

Get(id) ==
  /\ Readable(file)
  /\ got' = [got EXCEPT ![id] = First(Entries(file), id)]
  /\ UNCHANGED <<appendVars, listed, threw>>

Next ==
  \/ \E a \in Appends :
       \/ MakeDirectory(a)
       \/ Write(a)
       \/ Resolve(a)
       \/ AppendFails(a)
       \/ ProcessDies(a)
  \/ ReadThrows
  \/ List
  \/ \E id \in RunIds : Get(id)

Spec == Init /\ [][Next]_vars
-----------------------------------------------------------------------------
\* Properties

\* Every variable has its type, and a finished append has written its line.
TypeOK ==
  /\ file \in Seq([of : Appends, part : 1..Pieces])
  /\ pc \in [Appends -> {"called", "writing", "resolved", "rejected", "dead"}]
  /\ written \in [Appends -> 0..Pieces]
  /\ listed \in Seq(Appends)
  /\ got \in [RunIds -> Seq(Appends)]
  /\ threw \in BOOLEAN
  /\ \A a \in Appends : pc[a] = "resolved" => written[a] = Pieces

\* Whatever dies, fails or is written in between, an answer of list() extends
\* every earlier answer: an entry that was seen is never lost or moved, or
\* list() throws.  It is parseJsonLine's throwing that makes it so.
AnswersGrow == [][IsPrefix(listed, listed')]_vars

\* What get() has answered for a run id it answers ever after, although the id
\* of a run is the caller's and two runs may have the same.
GetIsStable == [][\A id \in RunIds : IsPrefix(got[id], got'[id])]_vars

\* An answer leaves no acknowledged entry out: a log that lost an entry does
\* not read as if it were complete.
NothingLeftOut ==
  Readable(file) =>
    \A a \in Appends \ NotFinite : pc[a] = "resolved" => a \in ToSet(Entries(file))

\* An answer holds each entry once, and only entries whose text is complete.
NothingMadeUp ==
  LET answer == Entries(file)
  IN  /\ \A a \in ToSet(answer) : written[a] >= Pieces - 1
      /\ \A i, j \in DOMAIN answer : answer[i] = answer[j] => i = j

\* With one write for each line the file is as good as the store in memory,
\* in spite of dying processes and failing writes.
Store == INSTANCE ExecutionLogStore
           WITH entries <- Entries(file),
                acked <- {a \in Appends : pc[a] = "resolved"}
ImplementsStore == Store!Spec /\ [](Readable(file))

\* "Execution logs can be persisted with the JSONL execution log store and
\* summarized": when no append is under way, an entry whose append was
\* acknowledged can be listed.
AcknowledgedIsListed ==
  (\A a \in Appends : pc[a] # "writing") =>
    \A a \in Appends : pc[a] = "resolved" =>
      Readable(file) /\ a \in ToSet(Entries(file))
==============================================================================
