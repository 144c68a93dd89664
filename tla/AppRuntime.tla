------------------------------ MODULE AppRuntime ------------------------------
(***************************************************************************)
(* Ordered startup and reverse shutdown of components (app/runtime.go):    *)
(* Add, Start with its rollback, Stop, Ready and Run.  The fields are      *)
(* guarded by r.mu; Start and stopStarted call the components without it.  *)
(***************************************************************************)
EXTENDS Integers, Sequences, FiniteSets, SequencesExt

CONSTANTS
  Components,   \* the components an application adds, by name
  Starters,     \* goroutines calling Start
  Stoppers,     \* goroutines calling Stop
  Overlap       \* Add, Start and Stop may be called while Start runs

AppAssumption ==
  /\ Overlap \in BOOLEAN
  /\ Starters \cap Stoppers = {}

Routines == Starters \cup Stoppers

VARIABLES
  \* Runtime
  entries, started, ready, stopped,
  \* The components
  running,      \* Start has succeeded and Stop has not been called
  \* The goroutines
  pc,           \* where a goroutine is
  list,         \* its local copy of entries
  index         \* its loop index i, counted from one

runtimeVars == <<entries, started, ready, stopped>>
vars == <<runtimeVars, running, pc, list, index>>

Init ==
  /\ entries = <<>> /\ started = 0 /\ ready = FALSE /\ stopped = FALSE
  /\ running = {}
  /\ pc = [g \in Routines |-> "idle"]
  /\ list = [g \in Routines |-> <<>>]
  /\ index = [g \in Routines |-> 0]

StartReturned == \A g \in Starters : pc[g] \in {"idle", "ok", "error", "refused"}
-----------------------------------------------------------------------------
Add(c) ==
  /\ Overlap \/ StartReturned
  /\ started = 0 /\ ~ready /\ ~stopped
  /\ c \notin Range(entries)
  /\ entries' = Append(entries, c)
  /\ UNCHANGED <<started, ready, stopped, running, pc, list, index>>

\* Start: the state check and the copy of the list.
BeginStart(g) ==
  /\ pc[g] = "idle"
  /\ Overlap \/ StartReturned
  /\ IF started # 0 \/ ready \/ stopped
     THEN pc' = [pc EXCEPT ![g] = "refused"] /\ UNCHANGED <<list, index>>
     ELSE /\ pc' = [pc EXCEPT ![g] = "start"]
          /\ list' = [list EXCEPT ![g] = entries]
          /\ index' = [index EXCEPT ![g] = 1]
  /\ UNCHANGED <<runtimeVars, running>>

\* The loop over the copy ends after its last entry.
AllStarted(g) == index[g] > Len(list[g])

\* component.Start succeeds ...
ComponentStarts(g) ==
  LET c == list[g][index[g]] IN
  /\ pc[g] = "start" /\ index[g] <= Len(list[g])
  /\ pc' = [pc EXCEPT ![g] = "record"]
  /\ running' = running \cup {c}
  /\ UNCHANGED <<runtimeVars, list, index>>

\* ... and the prefix is recorded under r.mu.
PrefixLength(g) == index[g]

RecordStarted(g) ==
  /\ pc[g] = "record"
  /\ started' = PrefixLength(g)
  /\ pc' = [pc EXCEPT ![g] = "start"]
  /\ index' = [index EXCEPT ![g] = @ + 1]
  /\ UNCHANGED <<entries, ready, stopped, running, list>>

\* component.Start fails: record the prefix, then roll it back.
NothingBeforeFailure(g) == 0

BeforeFailure(g) == index[g] - 1

ComponentFails(g) ==
  /\ pc[g] = "start" /\ index[g] <= Len(list[g])
  /\ started' = BeforeFailure(g)
  /\ pc' = [pc EXCEPT ![g] = "rollback"]
  /\ UNCHANGED <<entries, ready, stopped, running, list, index>>

\* Every component has started.
EndStart(g) ==
  /\ pc[g] = "start" /\ AllStarted(g)
  /\ ready' = TRUE
  /\ pc' = [pc EXCEPT ![g] = "ok"]
  /\ UNCHANGED <<entries, started, stopped, running, list, index>>

\* Stop: the first caller closes the runtime.
BeginStop(g) ==
  /\ pc[g] = "idle"
  /\ Overlap \/ StartReturned
  /\ IF stopped
     THEN pc' = [pc EXCEPT ![g] = "refused"] /\ UNCHANGED <<ready, stopped>>
     ELSE /\ pc' = [pc EXCEPT ![g] = "rollback"]
          /\ stopped' = TRUE /\ ready' = FALSE
  /\ UNCHANGED <<entries, started, running, list, index>>

\* stopStarted: copy the recorded prefix and reset it ...
TakePrefix(g) ==
  /\ pc[g] = "rollback"
  /\ list' = [list EXCEPT ![g] = SubSeq(entries, 1, started)]
  /\ index' = [index EXCEPT ![g] = started]
  /\ started' = 0
  /\ pc' = [pc EXCEPT ![g] = "stop"]
  /\ UNCHANGED <<entries, ready, stopped, running>>

\* ... and stop it from its end; an error does not end the loop.
NextToStop(g) == list[g][index[g]]

ComponentStops(g) ==
  LET c == NextToStop(g) IN
  /\ pc[g] = "stop" /\ index[g] > 0
  /\ running' = running \ {c}
  /\ index' = [index EXCEPT ![g] = @ - 1]
  /\ UNCHANGED <<runtimeVars, pc, list>>

EndStop(g) ==
  /\ pc[g] = "stop" /\ index[g] = 0
  /\ pc' = [pc EXCEPT ![g] = IF g \in Starters THEN "error" ELSE "ok"]
  /\ UNCHANGED <<runtimeVars, running, list, index>>
-----------------------------------------------------------------------------
Next ==
  \/ \E c \in Components : Add(c)
  \/ \E g \in Starters :
       \/ BeginStart(g) \/ ComponentStarts(g) \/ RecordStarted(g) \/ ComponentFails(g)
       \/ EndStart(g)
  \/ \E g \in Stoppers : BeginStop(g)
  \/ \E g \in Routines : TakePrefix(g) \/ ComponentStops(g) \/ EndStop(g)

Spec == Init /\ [][Next]_vars
-----------------------------------------------------------------------------
(* Properties *)

LeavesNothing == \A g \in Routines : EndStop(g) => running = {}

\* A Start that fails, and a Stop that follows Start, leave nothing running.
NothingLeftRunning == [][LeavesNothing]_vars
===============================================================================
