-------------------------------- MODULE MCTimer --------------------------------
(***************************************************************************)
(* The timer packages for TLC: a behaviour is one of the Redis queue, one  *)
(* of the timing wheel, one of the delay queue or one of the id generators *)
(* of two nodes; the others rest in an initial state.  The Redis queue and *)
(* the generators may stop when the ids and the readings of the clock are  *)
(* used up.                                                                *)
(*                                                                         *)
(* The delay queue runs twice: with all its operations and two ids, and as *)
(* a heap of up to six tasks, the fewest for which removing a task lets    *)
(* the one that replaces it rise, that is checked once.                    *)
(***************************************************************************)
EXTENDS RedisQueue, TimerIds, TLC

CONSTANTS Ids, WheelSlots, Unit, Windows, MaxTime, FewIds, ManyIds

VARIABLES
  subject,   \* what the behaviour is about
  now, run, sinceTick, slots, current, dedupWindow, lastFired, tasks, replacing, stopCh,
  scheduled,
  heap, delayWindow, delayFired, delayClock, tickC, delayRun, delayStop, firedAt, checked, fired

wheelVars == <<now, run, sinceTick, slots, current, dedupWindow, lastFired, tasks, replacing,
               stopCh, scheduled>>
delayVars == <<heap, delayWindow, delayFired, delayClock, tickC, delayRun, delayStop, firedAt,
               checked, fired>>

Wheel == INSTANCE TimingWheel

Delays == INSTANCE DelayQueue WITH
  Ids <- FewIds, Windows <- {0, 2}, Deadlines <- 1 .. 4, MaxTime <- 4,
  h <- heap, dedupWindow <- delayWindow, lastFired <- delayFired, clock <- delayClock,
  run <- delayRun, stopCh <- delayStop

Heap == INSTANCE DelayQueue WITH
  Ids <- ManyIds, Windows <- {0}, Deadlines <- 1 .. 2, MaxTime <- 1,
  h <- heap, dedupWindow <- delayWindow, lastFired <- delayFired, clock <- delayClock,
  run <- delayRun, stopCh <- delayStop

HeapNext ==
  \/ /\ delayClock = 0
     /\ \E i \in ManyIds : Heap!Remove(i) \/ \E expireTime \in 1 .. 2 : Heap!Add(i, expireTime)
  \/ Heap!Advance \/ Heap!CheckExpired \/ UNCHANGED delayVars

\* The nodes have different numbers.
DistinctIDs == CHOOSE f \in [Nodes -> 0 .. 1] : \A m, n \in Nodes : m # n => f[m] # f[n]

ASSUME TimerAssumption == Wheel!WheelAssumption /\ Delays!DelayAssumption /\ IDs!IDAssumption

TimerInit ==
  /\ subject \in {"queue", "wheel", "delays", "heap", "ids"}
  /\ Init /\ Wheel!Init /\ Delays!Init /\ IDs!Init
  /\ subject # "wheel" => dedupWindow = CHOOSE w \in Windows : TRUE
  /\ subject # "delays" => delayWindow = 0

TimerNext ==
  /\ \/ /\ subject = "queue" /\ (Next \/ UNCHANGED queueVars)
        /\ UNCHANGED <<wheelVars, delayVars, idVars>>
     \/ subject = "wheel" /\ Wheel!Next /\ UNCHANGED <<queueVars, delayVars, idVars>>
     \/ subject = "delays" /\ Delays!Next /\ UNCHANGED <<queueVars, wheelVars, idVars>>
     \/ subject = "heap" /\ HeapNext /\ UNCHANGED <<queueVars, wheelVars, idVars>>
     \/ /\ subject = "ids" /\ (IDs!Next \/ UNCHANGED idVars)
        /\ UNCHANGED <<queueVars, wheelVars, delayVars>>
  /\ UNCHANGED subject

TimerSpec == TimerInit /\ [][TimerNext]_<<subject, queueVars, wheelVars, delayVars, idVars>>
-----------------------------------------------------------------------------
\* A timer in the wheel is taken at most one second after its deadline, and less
\* than two seconds before it.
OnTime == Wheel!OnTime

\* The heap of the delay queue behaves like a set of deadlines, of which a check takes
\* exactly the ones that are due and fires them at least the dedup window apart.
HeapIsASchedule ==
  /\ Delays!Promised!ScheduleInit
  /\ [][/\ subject = "delays" => Delays!Promised!ScheduleNext
        /\ subject = "heap" => Heap!Promised!ScheduleNext]_(Delays!Promised!scheduleVars)

===============================================================================
