------------------------------ MODULE DelayQueue ------------------------------
(***************************************************************************)
(* The delay queue of the timer package (timer/delay_queue.go): a binary   *)
(* heap of tasks with an index from id to position, the check of every     *)
(* second, the suppression of duplicate firings, Stop.                     *)
(*                                                                         *)
(* The queue has been started.  Time advances in seconds.  Positions count *)
(* from 1.  The functions of container/heap are modelled from their use of *)
(* the methods of indexedTaskHeap.                                         *)
(***************************************************************************)
EXTENDS Naturals, Sequences, TLC

CONSTANTS
  Ids,        \* task ids
  Windows,    \* duplicate-suppression windows in use, in seconds
  Deadlines,  \* deadlines in use
  MaxTime,    \* bound on the clock
  None        \* no tick

\* The constants of the delay queue.
DelayAssumption ==
  Windows \subseteq Nat /\ Deadlines \subseteq Nat /\ MaxTime \in Nat /\ None \notin Nat

VARIABLES
  h,          \* the indexed heap: [tasks, index]
  dedupWindow, lastFired,
  clock,
  tickC,      \* the ticker's channel: the time of a tick not yet received, or None
  run,        \* the goroutine of run: "running", "exited"
  stopCh,
  \* History
  firedAt,    \* when an id last fired in this window, unless forgotten on request
  checked,    \* the time of the last checkExpired
  fired       \* the ids it gave to the callback, if it was the last step

timeVars == <<clock, tickC, run, stopCh>>
firedVars == <<lastFired, firedAt>>
vars == <<h, dedupWindow, firedVars, timeVars, checked, fired>>

Nowhere == [i \in {} |-> 0]

Init ==
  /\ h = [tasks |-> <<>>, index |-> Nowhere]
  /\ dedupWindow \in Windows /\ lastFired = Nowhere
  /\ clock = 0 /\ tickC = None /\ run = "running" /\ stopCh = FALSE
  /\ firedAt = Nowhere /\ checked = 0 /\ fired = {}

\* delete(m, i)
Without(m, i) == [j \in DOMAIN m \ {i} |-> m[j]]
-----------------------------------------------------------------------------
(* indexedTaskHeap *)

Less(hp, i, j) == hp.tasks[i].at < hp.tasks[j].at

SwapIndexingOne(hp, i, j) ==
  LET tasks == [hp.tasks EXCEPT ![i] = hp.tasks[j], ![j] = hp.tasks[i]] IN
  [tasks |-> tasks, index |-> tasks[i].id :> i @@ hp.index]

Swap(hp, i, j) ==
  LET tasks == [hp.tasks EXCEPT ![i] = hp.tasks[j], ![j] = hp.tasks[i]] IN
  [tasks |-> tasks, index |-> tasks[j].id :> j @@ tasks[i].id :> i @@ hp.index]

Push(hp, task) ==
  [tasks |-> Append(hp.tasks, task), index |-> task.id :> Len(hp.tasks) + 1 @@ hp.index]

Pop(hp) ==
  LET n == Len(hp.tasks) IN
  [tasks |-> SubSeq(hp.tasks, 1, n - 1), index |-> Without(hp.index, hp.tasks[n].id)]

(* container/heap *)

RECURSIVE up(_, _)
up(hp, j) ==
  LET i == j \div 2 IN
  IF j = 1 \/ ~Less(hp, j, i) THEN hp ELSE up(Swap(hp, i, j), i)

\* A node sinks below the smaller of its children among the first n.
RECURSIVE down(_, _, _)
down(hp, i, n) ==
  LET left == 2 * i
      j == IF left + 1 <= n /\ Less(hp, left + 1, left) THEN left + 1 ELSE left IN
  IF left > n \/ ~Less(hp, j, i) THEN hp ELSE down(Swap(hp, i, j), j, n)

\* What does not sink may have to rise.
Settle(hp, i, n) == LET sunk == down(hp, i, n) IN IF sunk # hp THEN sunk ELSE up(hp, i)

HeapFix(hp, i) == Settle(hp, i, Len(hp.tasks))

HeapPush(hp, task) == up(Push(hp, task), Len(hp.tasks) + 1)

HeapPop(hp) ==
  LET n == Len(hp.tasks) IN Pop(down(Swap(hp, 1, n), 1, n - 1))

HeapRemove(hp, i) ==
  LET n == Len(hp.tasks) IN
  Pop(IF n # i THEN Settle(Swap(hp, i, n), i, n - 1) ELSE hp)
-----------------------------------------------------------------------------
(* The methods, each under dq.mu *)

\* Add and Reschedule: update the task in place, or push it.
Schedule(i, expireTime) ==
  h' = IF i \in DOMAIN h.index
       THEN HeapFix([h EXCEPT !.tasks[h.index[i]].at = expireTime], h.index[i])
       ELSE HeapPush(h, [id |-> i, at |-> expireTime])

\* clearLastFiredLocked
ClearLastFired(i) == lastFired' = Without(lastFired, i) /\ firedAt' = Without(firedAt, i)

Add(i, expireTime) ==
  /\ Schedule(i, expireTime)
  /\ fired' = {}
  /\ UNCHANGED <<dedupWindow, firedVars, timeVars, checked>>

Reschedule(i, expireTime) ==
  /\ ClearLastFired(i)
  /\ Schedule(i, expireTime)
  /\ fired' = {}
  /\ UNCHANGED <<dedupWindow, timeVars, checked>>

Remove(i) ==
  /\ ClearLastFired(i)
  /\ h' = IF i \in DOMAIN h.index THEN HeapRemove(h, h.index[i]) ELSE h
  /\ fired' = {}
  /\ UNCHANGED <<dedupWindow, timeVars, checked>>

SetDedupWindow(d) ==
  /\ dedupWindow' = d
  /\ lastFired' = Nowhere /\ firedAt' = Nowhere
  /\ fired' = {}
  /\ UNCHANGED <<h, timeVars, checked>>

\* isDedupedLocked, for an id and the firings so far.
IsDeduped(last, i, now) ==
  dedupWindow > 0 /\ i \in DOMAIN last /\ now - last[i] < dedupWindow

\* The loop of checkExpired: pop what is due and fire it.
RECURSIVE Expire(_, _)
Expire(s, now) ==
  IF s.h.tasks = <<>> \/ s.h.tasks[1].at > now THEN s
  ELSE LET i == s.h.tasks[1].id IN
       Expire(
         IF IsDeduped(s.last, i, now) THEN [s EXCEPT !.h = HeapPop(@)]
         ELSE [h |-> HeapPop(s.h),
               last |-> IF dedupWindow > 0 THEN i :> now @@ s.last ELSE s.last,
               fired |-> s.fired \cup {i}],
         now)

\* cleanLastFiredLocked: what is too old suppresses nothing.
CleanLastFired(last, now) ==
  IF dedupWindow > 0
  THEN [i \in {j \in DOMAIN last : now - last[j] < dedupWindow} |-> last[i]] ELSE last

\* checkExpired, for a tick received by run; its time may be old.
CheckExpired ==
  LET s == Expire([h |-> h, last |-> lastFired, fired |-> {}], tickC) IN
  /\ run = "running" /\ tickC # None
  /\ h' = s.h /\ fired' = s.fired /\ checked' = tickC
  /\ lastFired' = CleanLastFired(s.last, tickC)
  /\ firedAt' = IF dedupWindow > 0 THEN [i \in s.fired |-> tickC] @@ firedAt ELSE firedAt
  /\ tickC' = None
  /\ UNCHANGED <<dedupWindow, clock, run, stopCh>>

Stop ==
  /\ stopCh' = TRUE
  /\ UNCHANGED <<h, dedupWindow, firedVars, clock, tickC, run, checked, fired>>

\* The select of run may prefer the stop to a tick; the deferred ticker.Stop.
Exit ==
  /\ run = "running" /\ stopCh
  /\ run' = "exited" /\ tickC' = None
  /\ UNCHANGED <<h, dedupWindow, firedVars, clock, stopCh, checked, fired>>

\* The ticker drops a tick that finds its channel full.
Advance ==
  /\ clock < MaxTime /\ clock' = clock + 1
  /\ tickC' = IF run = "running" /\ tickC = None THEN clock' ELSE tickC
  /\ UNCHANGED <<h, dedupWindow, firedVars, run, stopCh, checked, fired>>

Next ==
  \/ \E i \in Ids, expireTime \in Deadlines : Add(i, expireTime) \/ Reschedule(i, expireTime)
  \/ \E i \in Ids : Remove(i)
  \/ \E d \in Windows : SetDedupWindow(d)
  \/ CheckExpired \/ Stop \/ Exit \/ Advance

Spec == Init /\ [][Next]_vars
-----------------------------------------------------------------------------
(* What the queue implements *)

Queued == {h.tasks[k] : k \in DOMAIN h.tasks}

\* Add and Reschedule move the task of their id and no other, Remove removes it, and
\* a check takes exactly the tasks that are due, wherever they are in the heap.
Promised == INSTANCE Schedule WITH
  Times <- 0 .. MaxTime \cup Windows \cup Deadlines, due <- Queued, window <- dedupWindow,
  last <- firedAt
===============================================================================
