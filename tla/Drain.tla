-------------------------------- MODULE Drain --------------------------------
(***************************************************************************)
(* Maintenance drain of an actor.System (actor/drain.go): the tracker that *)
(* counts admitted work, ReserveWork and MaintenanceWork, and the          *)
(* goroutines in Drain.  Every operation holds d.mu, except that Drain     *)
(* waits for the zero channel between two critical sections.               *)
(*                                                                         *)
(* A piece of work is an admitted envelope, a WorkReservation or a         *)
(* MaintenanceWork callback.  Work that starts a request passes its        *)
(* context: the context of an activation, or one carrying its permit.      *)
(***************************************************************************)
EXTENDS Integers, FiniteSets

CONSTANTS
  Work,       \* the pieces of work of one behaviour
  Drainers,   \* goroutines calling Drain
  None        \* the origin of a root request

DrainAssumption ==
  /\ IsFiniteSet(Work)
  /\ None \notin Work

VARIABLES
  \* drainTracker
  closed, pending, failures, durableFailures, baseline,
  zero,       \* the channel drainTracker.zero, by its number
  closedCh,   \* the zero channels that have been closed
  \* The work
  status,     \* where a piece of work is
  failed,     \* it ended with an error
  \* The goroutines in Drain
  drainer,    \* where a goroutine is
  waitsFor,   \* the channel it captured
  inherited,  \* history: the work in flight when it captured it
  resumed     \* history: ResumeAdmission was called since

countVars == <<failures, durableFailures, baseline>>
drainVars == <<drainer, waitsFor, inherited, resumed>>
vars == <<closed, pending, countVars, zero, closedCh, status, failed, drainVars>>

\* "tracked" is an envelope that has no activation yet, "running" one that has;
\* "reserved" and "maintenance" hold an active permit.
Live == {w \in Work : status[w] \in {"tracked", "running", "reserved", "maintenance"}}
Permitted == {w \in Work : status[w] \in {"running", "reserved", "maintenance"}}

Init ==
  /\ closed = FALSE /\ pending = 0
  /\ failures = 0 /\ durableFailures = 0 /\ baseline = 0
  /\ zero = 0 /\ closedCh = {0}
  /\ status = [w \in Work |-> "new"]
  /\ failed = [w \in Work |-> FALSE]
  /\ drainer = [d \in Drainers |-> "idle"]
  /\ waitsFor = [d \in Drainers |-> 0]
  /\ inherited = [d \in Drainers |-> {}]
  /\ resumed = [d \in Drainers |-> FALSE]
-----------------------------------------------------------------------------
\* One more piece of work: the first one makes a new zero channel.
AddPending ==
  /\ pending' = pending + 1
  /\ zero' = IF pending = 0 THEN zero + 1 ELSE zero
  /\ UNCHANGED closedCh

\* One piece less: the last one closes the zero channel.
DonePending ==
  /\ pending' = pending - 1
  /\ closedCh' = IF pending = 1 THEN closedCh \cup {zero} ELSE closedCh
  /\ UNCHANGED zero

Move(w, from, to) ==
  /\ status[w] = from
  /\ status' = [status EXCEPT ![w] = to]

\* trackAdmission of an envelope whose context comes from the work origin.
TrackAdmission(w, origin) ==
  /\ closed => origin \in Permitted
  /\ Move(w, "new", "tracked")
  /\ AddPending
  /\ UNCHANGED <<closed, countVars, failed, drainVars>>

\* The scheduler starts the activation.
Activate(w) ==
  /\ Move(w, "tracked", "running")
  /\ UNCHANGED <<closed, pending, countVars, zero, closedCh, failed, drainVars>>

\* finishTracked: an admission that failed is no failure of the drain (err FALSE),
\* a dropped envelope is one (err TRUE), a handler returns either.
FinishTracked(w, err) ==
  /\ \/ Move(w, "tracked", "finished")
     \/ Move(w, "running", "finished")
  /\ failures' = IF err THEN failures + 1 ELSE failures
  /\ failed' = [failed EXCEPT ![w] = err]
  /\ DonePending
  /\ UNCHANGED <<closed, durableFailures, baseline, drainVars>>

MayAlwaysReserve == TRUE

MayReserve == ~(closed /\ pending = 0)

ReserveWork(w) ==
  /\ MayReserve
  /\ Move(w, "new", "reserved")
  /\ AddPending
  /\ UNCHANGED <<closed, countVars, failed, drainVars>>

\* WorkReservation.Finish; a second call does nothing.
Finish(w, err) ==
  /\ Move(w, "reserved", "finished")
  /\ durableFailures' = IF err THEN durableFailures + 1 ELSE durableFailures
  /\ failed' = [failed EXCEPT ![w] = err]
  /\ DonePending
  /\ UNCHANGED <<closed, failures, baseline, drainVars>>

\* MaintenanceWork up to its callback, and its deferred end.
BeginMaintenance(w) ==
  /\ Move(w, "new", "maintenance")
  /\ AddPending
  /\ UNCHANGED <<closed, countVars, failed, drainVars>>

EndMaintenance(w) ==
  /\ Move(w, "maintenance", "finished")
  /\ DonePending
  /\ UNCHANGED <<closed, countVars, failed, drainVars>>

ResumeAdmission ==
  /\ closed' = FALSE
  /\ baseline' = failures
  /\ resumed' = [d \in Drainers |-> TRUE]
  /\ UNCHANGED <<pending, failures, durableFailures, zero, closedCh, status, failed, drainer,
                 waitsFor, inherited>>
-----------------------------------------------------------------------------
\* Drain, first critical section.
BeginDrain(d) ==
  /\ drainer[d] = "idle"
  /\ drainer' = [drainer EXCEPT ![d] = "waiting"]
  /\ closed' = TRUE
  /\ baseline' = IF closed THEN baseline ELSE failures
  /\ waitsFor' = [waitsFor EXCEPT ![d] = zero]
  /\ inherited' = [inherited EXCEPT ![d] = Live]
  /\ resumed' = [resumed EXCEPT ![d] = FALSE]
  /\ UNCHANGED <<pending, failures, durableFailures, zero, closedCh, status, failed>>

\* DrainState.Failures.
FailuresOfHandlers == failures - baseline

Failures == failures - baseline + durableFailures

WokenByCurrent(d) == waitsFor[d] = zero /\ zero \in closedCh

Woken(d) == waitsFor[d] \in closedCh

\* Drain, after <-zero: the verdict is read in a second critical section.
DrainReturns(d) ==
  /\ drainer[d] = "waiting"
  /\ Woken(d)
  /\ drainer' = [drainer EXCEPT ![d] = IF Failures # 0 THEN "failed" ELSE "drained"]
  /\ UNCHANGED <<closed, pending, countVars, zero, closedCh, status, failed, waitsFor,
                 inherited, resumed>>

\* Drain, ctx.Done().
DrainExpires(d) ==
  /\ drainer[d] = "waiting"
  /\ drainer' = [drainer EXCEPT ![d] = "expired"]
  /\ UNCHANGED <<closed, pending, countVars, zero, closedCh, status, failed, waitsFor,
                 inherited, resumed>>
-----------------------------------------------------------------------------
EndWork(w) ==
  \/ \E err \in BOOLEAN : FinishTracked(w, err) \/ Finish(w, err)
  \/ EndMaintenance(w)

Next ==
  \/ \E w \in Work :
       \/ \E origin \in Work \cup {None} : TrackAdmission(w, origin)
       \/ Activate(w) \/ ReserveWork(w) \/ BeginMaintenance(w) \/ EndWork(w)
  \/ ResumeAdmission
  \/ \E d \in Drainers : BeginDrain(d) \/ DrainReturns(d) \/ DrainExpires(d)

Spec == Init /\ [][Next]_vars

\* Handlers, reservations and callbacks end, and a woken Drain returns.
Fairness ==
  /\ \A w \in Work : WF_vars(EndWork(w))
  /\ \A d \in Drainers : WF_vars(DrainReturns(d))

FairSpec == Spec /\ Fairness
-----------------------------------------------------------------------------
(* Properties *)

\* Drain does not pretend success: unless it expires, the work that was in flight
\* when it closed admission has ended when it returns, whatever was admitted, resumed
\* or drained by others meanwhile; and when it returns nil, none of that work has
\* failed, unless admission was resumed underneath it.
DrainIsHonest ==
  \A d \in Drainers : \A w \in inherited[d] :
    /\ drainer[d] \in {"drained", "failed"} => status[w] = "finished"
    /\ drainer[d] = "drained" /\ ~resumed[d] => ~failed[w]

OnlyMaintenance == \A w \in Work : status'[w] # status[w] => status'[w] = "maintenance"

\* Once drained the system stays quiet: with admission closed and nothing in flight
\* only MaintenanceWork adds work, not a finished handler's or reservation's context.
DrainedStaysQuiet == [][closed /\ pending = 0 => OnlyMaintenance]_vars

\* A Drain is not kept waiting once work comes to an end.
DrainTerminates ==
  \A d \in Drainers : drainer[d] = "waiting" ~> drainer[d] # "waiting"
===============================================================================
