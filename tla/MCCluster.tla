------------------------------- MODULE MCCluster -------------------------------
(***************************************************************************)
(* The cluster package for TLC: a behaviour is one of a connection's       *)
(* sender, of the slots of a remote node, of the receiving side of a       *)
(* connection, or of the connections a node accepts; the others rest in an *)
(* initial state.                                                          *)
(***************************************************************************)
EXTENDS ClusterConn, ClusterSlots, TLC

CONSTANT Conns   \* InboundConns

VARIABLES
  subject,   \* what the behaviour is about
  registry, listening, halting, acceptor, conn, remote, socket, inbound, reloadConns, reloadsDone,
  halt, haltConns

connsVars ==
  <<registry, listening, halting, acceptor, conn, remote, socket, inbound, reloadConns,
    reloadsDone, halt, haltConns>>

Accepted == INSTANCE InboundConns WITH
  Remotes <- {"remote"}, Endpoints <- {"address", "other"}, MaxReloads <- 1

ASSUME ClusterAssumption == Slots!SlotsAssumption /\ Accepted!ConnsAssumption

ClusterInit ==
  /\ subject \in {"sender", "slots", "inbound", "conns"}
  /\ Init /\ Slots!Init /\ Inbound!Init /\ Accepted!Init
  /\ subject # "slots" => endpoint = CHOOSE e \in Endpoints : TRUE
  /\ subject # "inbound" =>
       shard = [f \in Requests \cup Sends |-> CHOOSE s \in Shards : TRUE]
  /\ subject # "conns" => registry["remote"] = "address"

ClusterNext ==
  /\ \/ subject = "sender" /\ Next /\ UNCHANGED <<slotsVars, inboundVars, connsVars>>
     \/ subject = "slots" /\ Slots!Next /\ UNCHANGED <<vars, inboundVars, connsVars>>
     \/ subject = "inbound" /\ Inbound!Next /\ UNCHANGED <<vars, slotsVars, connsVars>>
     \/ subject = "conns" /\ Accepted!Next /\ UNCHANGED <<vars, slotsVars, inboundVars>>
  /\ UNCHANGED subject

ClusterSpec ==
  ClusterInit /\ [][ClusterNext]_<<subject, vars, slotsVars, inboundVars, connsVars>>

FairClusterSpec ==
  ClusterSpec /\ Fairness /\ Slots!Fairness /\ Inbound!Fairness /\ Accepted!Fairness

Symmetry ==
  UNION {Permutations(S) : S \in {Callers, SlotIds, Dials, Requests}}
-----------------------------------------------------------------------------
\* Reload closes the cached senders of a changed or removed node: between reloads,
\* once no attempt is under way, every open sender goes to the current address.
SendersAreCurrent == Slots!SendersAreCurrent

\* Node.Stop returns without the help of its context, whatever is being dialled and
\* whatever connections are being accepted, and leaves no connection behind.
NodeStopEnds == Slots!StopEnds /\ Accepted!StopEnds

\* A call that was read is answered, unless it is cancelled or the connection or
\* the node goes away.
CallAnswered == Inbound!CallAnswered
===============================================================================
