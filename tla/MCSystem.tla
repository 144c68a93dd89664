------------------------------- MODULE MCSystem -------------------------------
(***************************************************************************)
(* The life of a node for TLC: a behaviour is one of the services of a     *)
(* System, of the components of an application runtime, of the drain       *)
(* tracker or of the dispatch retrier; the others rest in their initial    *)
(* state.  The retrier has two levels, of which the second has no tries    *)
(* configured and a queue of one.                                          *)
(***************************************************************************)
EXTENDS ServiceLifecycle, SystemDrain, Sequences

CONSTANTS
  Components, Starters, Stoppers, Overlap,   \* AppRuntime
  Tasks                                      \* DispatchRetrier

VARIABLES
  subject,   \* what the behaviour is about
  entries, started, ready, stopped, running, pc, list, index,
  queues, levelPc, left, hand, tries, retrierStopped, fate

appVars == <<entries, started, ready, stopped, running, pc, list, index>>
retrierVars == <<queues, levelPc, left, hand, tries, retrierStopped, fate>>

App == INSTANCE AppRuntime
Retrier == INSTANCE DispatchRetrier WITH
  pc <- levelPc, stopped <- retrierStopped, Levels <- 2, MaxTries <- <<2, 0>>, Caps <- <<2, 1>>

ASSUME SystemAssumption ==
  App!AppAssumption /\ Drained!DrainAssumption /\ Retrier!RetrierAssumption

SystemInit ==
  /\ subject \in {"services", "components", "drain", "retrier"}
  /\ Init /\ App!Init /\ Drained!Init /\ Retrier!Init

SystemNext ==
  /\ \/ subject = "services" /\ Next /\ UNCHANGED <<appVars, drainVars, retrierVars>>
     \/ subject = "components" /\ App!Next /\ UNCHANGED <<vars, drainVars, retrierVars>>
     \/ subject = "drain" /\ Drained!Next /\ UNCHANGED <<vars, appVars, retrierVars>>
     \/ subject = "retrier" /\ Retrier!Next /\ UNCHANGED <<vars, appVars, drainVars>>
  /\ UNCHANGED subject

SystemSpec ==
  /\ SystemInit /\ [][SystemNext]_<<subject, vars, appVars, drainVars, retrierVars>>
  /\ Fairness /\ Drained!Fairness /\ Retrier!Fairness
-----------------------------------------------------------------------------
\* A Start that fails, and a Stop that follows Start, leave nothing running.
NothingLeftRunning == [][App!LeavesNothing]_appVars

\* A Drain is not kept waiting once work comes to an end.
DrainTerminates == Drained!DrainTerminates

\* A task is in one place while it is pending and in none afterwards: retries and
\* promotions neither duplicate it nor lose it without the drop being logged.
TaskConserved == Retrier!TaskConserved

\* Unless the retrier is stopped every task ends: it succeeds or its drop is logged.
TaskEnds == Retrier!TaskEnds
===============================================================================
