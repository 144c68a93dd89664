------------------------------ MODULE MCCallPath ------------------------------
(***************************************************************************)
(* Three deployments of the services of CallPath for TLC: the one of the   *)
(* configuration, without notifications and timers; the same with both;    *)
(* and services that all interleave, with notifications.  A fourth one is  *)
(* a monitor of explicitly registered waits, with no services at work.     *)
(***************************************************************************)
EXTENDS CallPath

CONSTANTS Actors, Zero   \* WaitGraph

VARIABLES deployment, waitFor

Timed == INSTANCE CallPath WITH Timeouts <- TRUE, Sends <- TRUE
Interleaved == INSTANCE CallPath WITH Serial <- {}, Sends <- TRUE
Graph == INSTANCE WaitGraph

ASSUME PathsAssumption == Graph!GraphAssumption

PathsInit ==
  Init /\ Graph!Init /\ deployment \in {"chains", "timed", "interleaved", "graph"}

PathsNext ==
  /\ \/ deployment = "chains" /\ Next /\ UNCHANGED waitFor
     \/ deployment = "timed" /\ Timed!Next /\ UNCHANGED waitFor
     \/ deployment = "interleaved" /\ Interleaved!Next /\ UNCHANGED waitFor
     \/ deployment = "graph" /\ Graph!Next /\ UNCHANGED vars
  /\ UNCHANGED deployment

\* The fairness of CallPath in each deployment.
ReplyOf(a) ==
  IF deployment = "interleaved" THEN Interleaved!Reply(a) ELSE Reply(a)

PathsFairness ==
  /\ \A s \in Services : WF_vars(Schedule(s))
  /\ \A a \in Acts : WF_vars(ReplyOf(a))
  /\ \A a \in Acts : WF_vars(deployment = "timed" /\ Timed!CallTimeout(a))

PathsSpec == PathsInit /\ [][PathsNext]_<<deployment, vars, waitFor>> /\ PathsFairness
-----------------------------------------------------------------------------
\* Without notifications and timers, ErrCallCycle is returned only for a call that
\* would deadlock.
ChainCycleIsReal == [][deployment = "chains" => RefusedForReal]_vars

\* The registered waits never form a cycle, and BeginWait refuses exactly the edges
\* with which they would.
WaitsStayAcyclic == deployment = "graph" => Graph!WaitsStayAcyclic

\* Every request is served to its end, whatever calls its handler makes: self-calls
\* and cycles included, without the help of timers when no service keeps its mailbox
\* during a call, with it when two chains block each other.
RequestsServed ==
  \A a \in Acts :
    deployment # "chains" /\ status[a] = "ready" ~> status[a] = "done"
===============================================================================
