--------------------------- MODULE DispatchRetrier ---------------------------
(***************************************************************************)
(* Multi-level retries of failed dispatches (actor/dispatch_retrier.go):   *)
(* Enqueue, one goroutine per level (runLevel, processBatch) and Stop.     *)
(***************************************************************************)
EXTENDS Integers, Sequences, FiniteSets, FiniteSetsExt

CONSTANTS
  Tasks,      \* the tasks that are enqueued, each once
  None,       \* no task
  Levels,     \* len(levels)
  MaxTries,   \* levels[i].MaxTries, for each level
  Caps        \* caps[i], the capacity of the queue of each level

RetrierAssumption ==
  /\ None \notin Tasks
  /\ Levels \in Nat \ {0}
  /\ MaxTries \in [1 .. Levels -> Int]
  /\ Caps \in [1 .. Levels -> Nat]

VARIABLES
  queues,    \* the channels queues[i], of retryTask
  pc,        \* where the goroutine of a level is
  left,      \* what remains of the batch of a level
  hand,      \* the task the goroutine of a level is running
  tries,     \* retryTask.tries
  stopped,   \* stopCh is closed
  fate       \* history: what has become of a task

levelVars == <<pc, left, hand>>
vars == <<queues, levelVars, tries, stopped, fate>>

Init ==
  /\ queues = [l \in 1 .. Levels |-> <<>>]
  /\ pc = [l \in 1 .. Levels |-> "select"]
  /\ left = [l \in 1 .. Levels |-> 0]
  /\ hand = [l \in 1 .. Levels |-> None]
  /\ tries = [t \in Tasks |-> 0]
  /\ stopped = FALSE
  /\ fate = [t \in Tasks |-> "new"]
-----------------------------------------------------------------------------
\* A send with a default: a full queue drops the task, which is logged.
PushUnchecked(l, t) ==
  /\ queues' = [queues EXCEPT ![l] = IF Len(@) < Caps[l] THEN Append(@, t) ELSE @]
  /\ fate' = [fate EXCEPT ![t] = "queued"]

Push(l, t) ==
  IF Len(queues[l]) < Caps[l]
  THEN /\ queues' = [queues EXCEPT ![l] = Append(@, t)]
       /\ fate' = [fate EXCEPT ![t] = "queued"]
  ELSE /\ fate' = [fate EXCEPT ![t] = "dropped"]
       /\ UNCHANGED queues

Enqueue(t) ==
  /\ fate[t] = "new"
  /\ tries' = [tries EXCEPT ![t] = MaxTries[1]]
  /\ Push(1, t)
  /\ UNCHANGED <<levelVars, stopped>>

Stop ==
  /\ ~stopped
  /\ stopped' = TRUE
  /\ UNCHANGED <<queues, levelVars, tries, fate>>

\* stopCh is closed, so every level sees it.
StopSeenAnyway(l) == TRUE

StopSeen(l) == stopped

\* runLevel: the stop channel, ...
Exit(l) ==
  /\ pc[l] = "select" /\ StopSeen(l)
  /\ pc' = [pc EXCEPT ![l] = "exited"]
  /\ UNCHANGED <<queues, left, hand, tries, stopped, fate>>

\* ... or the ticker: processBatch looks at as many tasks as there are now.
Tick(l) ==
  /\ pc[l] = "select"
  /\ queues[l] # <<>>
  /\ pc' = [pc EXCEPT ![l] = "batch"]
  /\ left' = [left EXCEPT ![l] = Len(queues[l])]
  /\ UNCHANGED <<queues, hand, tries, stopped, fate>>

\* The batch is over, or the queue is empty before its end.
BatchOver(l) == left[l] = 0 \/ queues[l] = <<>>

\* The next task of the batch.
Take(l) ==
  /\ pc[l] = "batch" /\ hand[l] = None
  /\ IF BatchOver(l)
     THEN pc' = [pc EXCEPT ![l] = "select"] /\ UNCHANGED <<queues, left, hand, fate>>
     ELSE /\ queues' = [queues EXCEPT ![l] = Tail(@)]
          /\ left' = [left EXCEPT ![l] = @ - 1]
          /\ hand' = [hand EXCEPT ![l] = Head(queues[l])]
          /\ fate' = [fate EXCEPT ![Head(queues[l])] = "running"]
          /\ UNCHANGED pc
  /\ UNCHANGED <<tries, stopped>>

\* task.fn() returns nil.
Succeed(l) ==
  /\ hand[l] # None
  /\ fate' = [fate EXCEPT ![hand[l]] = "ok"]
  /\ hand' = [hand EXCEPT ![l] = None]
  /\ UNCHANGED <<queues, pc, left, tries, stopped>>

\* task.tries--, and then task.tries > 0.
TryAgain(t) == tries[t] - 1 > 0

\* task.fn() fails: again at this level, promoted to the next one, or given up.
Fail(l) ==
  LET t == hand[l] IN
  /\ t # None
  /\ hand' = [hand EXCEPT ![l] = None]
  /\ IF TryAgain(t)
     THEN tries' = [tries EXCEPT ![t] = @ - 1] /\ Push(l, t)
     ELSE IF l = Levels
     THEN /\ fate' = [fate EXCEPT ![t] = "exhausted"]
          /\ UNCHANGED <<queues, tries>>
     ELSE tries' = [tries EXCEPT ![t] = MaxTries[l + 1]] /\ Push(l + 1, t)
  /\ UNCHANGED <<pc, left, stopped>>
-----------------------------------------------------------------------------
LevelStep(l) == Tick(l) \/ Take(l) \/ Succeed(l) \/ Fail(l)

Next ==
  \/ \E t \in Tasks : Enqueue(t)
  \/ \E l \in 1 .. Levels : LevelStep(l) \/ Exit(l)
  \/ Stop

Spec == Init /\ [][Next]_vars

\* Tickers tick and task functions return; select does not ignore stopCh for ever.
Fairness ==
  \A l \in 1 .. Levels : WF_vars(LevelStep(l)) /\ SF_vars(Exit(l))

FairSpec == Spec /\ Fairness
-----------------------------------------------------------------------------
(* Properties *)

\* The places where a task is: a position of a queue or the hand of a level.
Places(t) ==
  {<<l, i>> \in (1 .. Levels) \X (0 .. Max({Caps[k] : k \in 1 .. Levels})) :
     IF i = 0 THEN hand[l] = t ELSE i <= Len(queues[l]) /\ queues[l][i] = t}

\* A task is in one place while it is pending and in none afterwards: retries and
\* promotions neither duplicate it nor lose it without the drop being logged.
TaskConserved ==
  \A t \in Tasks :
    Cardinality(Places(t)) = IF fate[t] \in {"queued", "running"} THEN 1 ELSE 0

\* Unless the retrier is stopped every task ends: it succeeds or its drop is logged.
TaskEnds ==
  \A t \in Tasks : fate[t] = "queued" ~> (stopped \/ fate[t] \in {"ok", "dropped", "exhausted"})
===============================================================================
