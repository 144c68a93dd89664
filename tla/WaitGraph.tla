------------------------------- MODULE WaitGraph ------------------------------
(***************************************************************************)
(* The monitor of wait relationships (observe/waitgraph/monitor.go): one   *)
(* outgoing edge per actor, refused when it would close a cycle.  Labels   *)
(* and the chain of the error message are left out.                        *)
(***************************************************************************)
EXTENDS Naturals, Relation, TLC

CONSTANTS
  Actors,   \* the actor ids
  Zero      \* the id 0, which takes no part

\* The constants of the monitor.
GraphAssumption == Zero \notin Actors

VARIABLE waitFor   \* the registered edges, a partial function on Actors

NoEdges == [a \in {} |-> a]

Init == waitFor = NoEdges

\* One round of the loop of canReach: follow an edge unless the target or an actor
\* seen before is reached, or there is none.
RECURSIVE Follows(_, _, _)
Follows(current, target, visited) ==
  \/ current = target
  \/ /\ current \notin visited /\ current \in DOMAIN waitFor
     /\ Follows(waitFor[current], target, visited \cup {current})

canReachInOne(from, target) ==
  from = target \/ (from \in DOMAIN waitFor /\ waitFor[from] = target)

canReach(from, target) == Follows(from, target, {})

\* Zero and self edges are ignored; an edge that closes a cycle is refused; an edge
\* replaces the previous one of its actor.
BeginWait(from, to) ==
  /\ Zero \notin {from, to} /\ from # to
  /\ ~canReach(to, from)
  /\ waitFor' = from :> to @@ waitFor

\* Only the exact edge is removed.
EndWait(from, to) ==
  /\ from \in DOMAIN waitFor /\ waitFor[from] = to
  /\ waitFor' = [a \in DOMAIN waitFor \ {from} |-> waitFor[a]]

Reset == waitFor' = NoEdges

Next ==
  \/ \E from, to \in Actors \cup {Zero} : BeginWait(from, to) \/ EndWait(from, to)
  \/ Reset

Spec == Init /\ [][Next]_waitFor
-----------------------------------------------------------------------------
(* Properties *)

\* No actor waits for itself along the edges of a graph.
Acyclic(g) ==
  IsIrreflexive(
    TransitiveClosure([e \in Actors \X Actors |-> e[1] \in DOMAIN g /\ g[e[1]] = e[2]], Actors),
    Actors)

\* "It returns ErrCycle without recording the edge when the edge would close a cycle":
\* the registered edges never form one, and BeginWait refuses exactly the edges with
\* which they would, the edge being replaced left aside.
WaitsStayAcyclic ==
  /\ Acyclic(waitFor)
  /\ \A from, to \in Actors : from # to =>
       (canReach(to, from) <=> ~Acyclic(from :> to @@ waitFor))
===============================================================================
