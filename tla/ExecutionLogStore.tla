-------------------------- MODULE ExecutionLogStore --------------------------
(***************************************************************************)
(* The execution log as its callers see it: createMemoryExecutionLogStore. *)
(* An append pushes its entry at once and is acknowledged a little later,  *)
(* list() answers the entries in the order of their appends, and get()     *)
(* answers the first entry of a run id.                                    *)
(***************************************************************************)
EXTENDS Naturals, SequencesExt

CONSTANTS
  Appends,   \* calls of append(), each with an entry of its own
  RunIds,
  RunId      \* the run_id of the entry of each append

VARIABLES
  entries,   \* the entries the store holds
  acked,     \* the appends whose promise has resolved
  listed,    \* the latest answer of list()
  got        \* the latest answers of get(), << >> for undefined

vars == <<entries, acked, listed, got>>

\* entries.find((entry) => entry.run_id === runId), as a sequence.
First(s, id) ==
  LET matching == {k \in DOMAIN s : RunId[s[k]] = id}
  IN  IF matching = {} THEN << >> ELSE <<s[Min(matching)]>>

Init ==
  /\ entries = << >>
  /\ acked = {}
  /\ listed = << >>
  /\ got = [id \in RunIds |-> << >>]

Push(a) ==
  /\ a \notin ToSet(entries)
  /\ entries' = Append(entries, a)
  /\ UNCHANGED <<acked, listed, got>>

Acknowledge(a) ==
  /\ a \in ToSet(entries)
  /\ acked' = acked \cup {a}
  /\ UNCHANGED <<entries, listed, got>>

List ==
  /\ listed' = entries
  /\ UNCHANGED <<entries, acked, got>>

Get(id) ==
  /\ got' = [got EXCEPT ![id] = First(entries, id)]
  /\ UNCHANGED <<entries, acked, listed>>

Next ==
  \/ \E a \in Appends : Push(a) \/ Acknowledge(a)
  \/ List
  \/ \E id \in RunIds : Get(id)

Spec == Init /\ [][Next]_vars
==============================================================================
