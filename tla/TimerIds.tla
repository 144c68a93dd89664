------------------------------ MODULE TimerIds ------------------------------
(***************************************************************************)
(* The id generators of the nodes, beside the timers.                      *)
(***************************************************************************)
EXTENDS Integers

CONSTANTS Nodes, nodeID, NodeCount, SeqCount, MaxBack, EpochMs, Clock

VARIABLES lastMs, sequence, returned, lastID, generated

idVars == <<lastMs, sequence, returned, lastID, generated>>

IDs == INSTANCE IDGenerator WITH issued <- generated

\* The ids of a node increase.
IdsIncrease == [][IDs!ReturnsLarger]_idVars
=============================================================================
