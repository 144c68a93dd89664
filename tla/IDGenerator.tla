----------------------------- MODULE IDGenerator -----------------------------
(***************************************************************************)
(* Timer ids (timer/id_generator.go): the Snowflake-like IDGenerator of    *)
(* every node, under its mutex, with a wall clock that may jump either way *)
(* between two readings.                                                   *)
(***************************************************************************)
EXTENDS Integers, FiniteSets

CONSTANTS
  Nodes,       \* node names, each with one generator
  nodeID,      \* NodeNameToSnowflakeNodeID, masked to the node bits
  NodeCount,   \* 2^snowflakeNodeBits
  SeqCount,    \* 2^snowflakeSequenceBits, g.seqMask + 1
  MaxBack,     \* g.maxBack in milliseconds
  EpochMs,     \* g.epochMs
  Clock        \* the readings g.now().UnixMilli() can return

IDAssumption ==
  /\ NodeCount \in Nat \ {0} /\ SeqCount \in Nat \ {0}
  /\ nodeID \in [Nodes -> 0 .. NodeCount - 1]
  /\ MaxBack \in Nat /\ EpochMs \in Nat /\ Clock \subseteq Nat

VARIABLES
  lastMs, sequence,  \* the fields of each generator
  returned,          \* how many ids a generator has returned
  lastID,            \* the last of them, -1 before the first
  issued             \* the ids each node has returned

vars == <<lastMs, sequence, returned, lastID, issued>>

Init ==
  /\ lastMs = [n \in Nodes |-> 0]
  /\ sequence = [n \in Nodes |-> 0]
  /\ returned = [n \in Nodes |-> 0]
  /\ lastID = [n \in Nodes |-> -1]
  /\ issued = [n \in Nodes |-> {}]

\* (elapsed << timeShift) | (nodeID << nodeShift) | sequence
Layout(elapsed, node, seq) == (elapsed * NodeCount + node) * SeqCount + seq

\* A clock behind lastMs by at most maxBack is slept off and read again (again);
\* if it is still behind, time stands still at lastMs.
Reading(n, now, again) ==
  IF now >= lastMs[n] THEN now ELSE IF again >= lastMs[n] THEN again ELSE lastMs[n]

\* (g.sequence + 1) & maxSequence
NextSequence(n) == (sequence[n] + 1) % SeqCount

\* The sequence of a millisecond is used up: wait for a later one.
NeverExhausted(n, ms) == FALSE

Exhausted(n, ms) == ms = lastMs[n] /\ NextSequence(n) = 0

\* Next of the generator of node n: the clock reads now, then again after a
\* backoff, then later when the sequence was exhausted.  A clock that moved back
\* by more than maxBack is an error; before the epoch the state is kept but no id
\* is returned.
NextID(n, now, again, later) ==
  LET read == Reading(n, now, again)
      ms == IF Exhausted(n, read) THEN later ELSE read
      seq == IF read = lastMs[n] THEN NextSequence(n) ELSE 0
  IN
  /\ lastMs[n] - now <= MaxBack
  /\ Exhausted(n, read) => later > lastMs[n]
  /\ sequence' = [sequence EXCEPT ![n] = seq]
  /\ lastMs' = [lastMs EXCEPT ![n] = ms]
  /\ IF ms < EpochMs
     THEN UNCHANGED <<returned, lastID, issued>>
     ELSE LET id == Layout(ms - EpochMs, nodeID[n], seq) IN
          /\ returned' = [returned EXCEPT ![n] = @ + 1]
          /\ lastID' = [lastID EXCEPT ![n] = id]
          /\ issued' = [issued EXCEPT ![n] = @ \cup {id}]

Next == \E n \in Nodes : \E now, again, later \in Clock : NextID(n, now, again, later)

Spec == Init /\ [][Next]_vars
-----------------------------------------------------------------------------
(* Properties *)

ReturnsLarger == \A n \in Nodes : returned'[n] # returned[n] => lastID'[n] > lastID[n]

\* Next never returns an id twice nor a smaller one after a larger one, whatever
\* the clock does and also when the sequence of a millisecond overflows.
IdsIncrease == [][ReturnsLarger]_vars
===============================================================================
