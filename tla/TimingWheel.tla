----------------------------- MODULE TimingWheel -----------------------------
(***************************************************************************)
(* The timing wheel of the timer package (timer/timing_wheel.go): Add,     *)
(* Remove, Reschedule, SetDedupWindow, the tick and the suppression of     *)
(* duplicate firings, Stop.                                                *)
(*                                                                         *)
(* Time advances in fractions of a second (Unit per second).  The wheel    *)
(* has been started; its ticker fires every second and the tick is handled *)
(* before time goes on.  The wheel spans WheelSlots seconds, one hour in   *)
(* the code.                                                               *)
(***************************************************************************)
EXTENDS Integers, FiniteSets, FiniteSetsExt

CONSTANTS
  Ids,           \* timer ids
  None,          \* no time
  WheelSlots,    \* wheelSlots
  Unit,          \* time steps per second
  Windows,       \* duplicate-suppression windows in use, in time steps
  MaxTime        \* bound on the clock

\* The constants of the wheel.
WheelAssumption ==
  /\ WheelSlots \in Nat \ {0} /\ Unit \in Nat \ {0}
  /\ Windows \subseteq Nat /\ MaxTime \in Nat /\ None \notin Int

VARIABLES
  now,          \* the clock
  run,          \* the goroutine of run: "idle", "due" (the ticker fired), "tick", "exited"
  sinceTick,    \* time steps since the ticker fired
  slots, current, dedupWindow, lastFired,
  tasks,        \* the ids tick has taken out of their slot and not yet submitted
  replacing,    \* the deadline of a Reschedule between its two critical sections
  stopCh,
  \* History
  scheduled     \* the deadline an id was put into its slot for

clockVars == <<now, run, sinceTick>>
wheelVars == <<slots, current>>
vars == <<clockVars, wheelVars, dedupWindow, lastFired, tasks, replacing, stopCh, scheduled>>

Slots == 0 .. WheelSlots - 1
Never == [i \in Ids |-> None]

Init ==
  /\ now = 0 /\ run = "idle" /\ sinceTick = 0
  /\ slots = [s \in Slots |-> {}] /\ current = 0
  /\ dedupWindow \in Windows /\ lastFired = Never
  /\ tasks = {} /\ replacing = Never /\ stopCh = FALSE
  /\ scheduled = Never
-----------------------------------------------------------------------------
SlotsAheadRoundedUp(delay) == IF delay <= 0 THEN 0 ELSE delay \div Unit + 1

SlotsAhead(delay) == IF delay <= 0 THEN 0 ELSE IF delay < Unit THEN 1 ELSE delay \div Unit

\* removeFromSlotsLocked: the first occurrence.
RemoveFromSlotsLocked(i) ==
  LET holding == {s \in Slots : i \in slots[s]} IN
  IF holding = {} THEN slots ELSE [slots EXCEPT ![Min(holding)] = @ \ {i}]

\* A firing that the window does not suppress: isDeduped, then submitTask.
Recent(i) == lastFired[i] # None /\ now - lastFired[i] < dedupWindow

Submit(i) ==
  lastFired' = IF dedupWindow > 0 /\ ~Recent(i) THEN [lastFired EXCEPT ![i] = now] ELSE lastFired

\* clearLastFired.
Forget(i) == lastFired' = [lastFired EXCEPT ![i] = None]

\* Add, under tw.mu: a deadline that has passed fires at once, one beyond the wheel
\* is an error.
AddLocked(i, expireTime) ==
  LET delay == expireTime - now
      slot == (current + SlotsAhead(delay)) % WheelSlots IN
  IF delay <= 0
  THEN /\ Submit(i)
       /\ UNCHANGED <<slots, scheduled>>
  ELSE IF delay > WheelSlots * Unit
  THEN UNCHANGED <<slots, scheduled, lastFired>>
  ELSE /\ slots' = [RemoveFromSlotsLocked(i) EXCEPT ![slot] = @ \cup {i}]
       /\ scheduled' = [scheduled EXCEPT ![i] = expireTime]
       /\ UNCHANGED lastFired

Add(i, expireTime) ==
  /\ replacing[i] = None
  /\ AddLocked(i, expireTime)
  /\ UNCHANGED <<clockVars, current, dedupWindow, tasks, replacing, stopCh>>

Remove(i) ==
  /\ replacing[i] = None
  /\ Forget(i)
  /\ slots' = RemoveFromSlotsLocked(i)
  /\ UNCHANGED <<clockVars, current, dedupWindow, tasks, replacing, stopCh, scheduled>>

\* Reschedule: clearLastFired, then Add.
BeginReschedule(i, expireTime) ==
  /\ replacing[i] = None
  /\ replacing' = [replacing EXCEPT ![i] = expireTime]
  /\ Forget(i)
  /\ UNCHANGED <<clockVars, wheelVars, dedupWindow, tasks, stopCh, scheduled>>

EndReschedule(i) ==
  /\ replacing[i] # None
  /\ AddLocked(i, replacing[i])
  /\ replacing' = [replacing EXCEPT ![i] = None]
  /\ UNCHANGED <<clockVars, current, dedupWindow, tasks, stopCh>>

SetDedupWindow(d) ==
  /\ dedupWindow' = d
  /\ lastFired' = Never
  /\ UNCHANGED <<clockVars, wheelVars, tasks, replacing, stopCh, scheduled>>

Stop ==
  /\ stopCh' = TRUE
  /\ UNCHANGED <<clockVars, wheelVars, dedupWindow, lastFired, tasks, replacing, scheduled>>
-----------------------------------------------------------------------------
\* The next slot of the wheel, which Tick empties.
NextSlot == (current + 1) % WheelSlots

\* tick, under tw.mu: take the tasks of the next slot ...
Tick ==
  /\ run = "due" /\ run' = "tick"
  /\ current' = NextSlot
  /\ tasks' = slots[NextSlot]
  /\ slots' = [slots EXCEPT ![NextSlot] = {}]
  /\ UNCHANGED <<now, sinceTick, dedupWindow, lastFired, replacing, stopCh, scheduled>>

\* ... submit them after the unlock ...
Fire(i) ==
  /\ run = "tick" /\ i \in tasks
  /\ tasks' = tasks \ {i}
  /\ Submit(i)
  /\ UNCHANGED <<clockVars, wheelVars, dedupWindow, replacing, stopCh, scheduled>>

\* ... and drop what is too old to suppress anything (cleanLastFired).
EndTick ==
  /\ run = "tick" /\ tasks = {} /\ run' = "idle"
  /\ lastFired' = [i \in Ids |-> IF Recent(i) \/ dedupWindow <= 0 THEN lastFired[i] ELSE None]
  /\ UNCHANGED <<now, sinceTick, wheelVars, dedupWindow, tasks, replacing, stopCh, scheduled>>

\* run: the stop channel may win over a ticker that has fired.
Exit ==
  /\ stopCh /\ run \in {"idle", "due"}
  /\ run' = "exited"
  /\ UNCHANGED <<now, sinceTick, wheelVars, dedupWindow, lastFired, tasks, replacing, stopCh, scheduled>>

Advance ==
  /\ run \in {"idle", "exited"} /\ now < MaxTime
  /\ now' = now + 1
  /\ sinceTick' = (sinceTick + 1) % Unit
  /\ run' = IF run = "idle" /\ sinceTick' = 0 THEN "due" ELSE run
  /\ UNCHANGED <<wheelVars, dedupWindow, lastFired, tasks, replacing, stopCh, scheduled>>

\* From just past to just beyond the span of the wheel.
Deadlines == (now - 1) .. (now + WheelSlots * Unit + 1)

Next ==
  \/ \E i \in Ids, expireTime \in Deadlines : Add(i, expireTime) \/ BeginReschedule(i, expireTime)
  \/ \E i \in Ids : Remove(i) \/ EndReschedule(i) \/ Fire(i)
  \/ \E d \in Windows : SetDedupWindow(d)
  \/ Stop \/ Tick \/ EndTick \/ Exit \/ Advance

Spec == Init /\ [][Next]_vars
-----------------------------------------------------------------------------
(* Properties *)

\* While the wheel runs, a schedule leaves it no later than a second after its
\* deadline and less than two seconds before it (slotsAhead truncates and the next
\* tick may be near), a delay of the full span of the wheel included.
OnTime ==
  /\ run # "exited" =>
       \A i \in Ids, s \in Slots : i \in slots[s] => now <= scheduled[i] + Unit
  /\ run = "due" => \A i \in slots[NextSlot] : scheduled[i] - now < 2 * Unit
===============================================================================
