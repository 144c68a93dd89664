--------------------------- MODULE ServiceLifecycle ---------------------------
(***************************************************************************)
(* The registry of an actor.System and the life of its services            *)
(* (actor/system.go): Reserve, Handle, Start, Service.Stop with its        *)
(* finalizer goroutine, and System.Stop.                                   *)
(*                                                                         *)
(* nextAddress and nextGeneration are advanced together under s.mu, so the *)
(* n-th service has address n and generation n: a service is that number.  *)
(* The scheduler of a started service is the one of ServiceRuntime.tla; it *)
(* appears here as the fact that it runs or that rt.done is closed.        *)
(***************************************************************************)
EXTENDS Integers, FiniteSets, Nil

CONSTANTS
  Names,           \* service names
  MaxServices,     \* bound on the services reserved in one behaviour
  Reservers,       \* goroutines calling System.Reserve
  Protocols,       \* protocols a handler can be registered for
  StartAfterStop   \* Start may be called although Stop has been called

ASSUME LifecycleAssumption ==
  /\ MaxServices \in Nat \ {0}
  /\ None \notin 1 .. MaxServices
  /\ StartAfterStop \in BOOLEAN

Services == 1 .. MaxServices

VARIABLES
  \* System
  sysStopping,     \* System.stopping
  byName,          \* System.byName
  byAddress,       \* System.byAddress
  nextAddress,     \* System.nextAddress, and nextGeneration
  \* Service
  name, state, cancelled, runtime, handlers, finalized,
  finalizer,       \* where the goroutine of beginFinalize is
  awaitsRuntime,   \* its runtimeDone argument is not nil
  starting,        \* Start is between its state check and its store (holds svc.mu)
  stopCalled,      \* Stop has been called on the service
  \* Goroutines
  reserver,        \* where a goroutine in Reserve is, and the name it asks for
  sysStop,         \* where System.Stop is
  services,        \* its local copy of the registry
  toStop,          \* the services of the copy that it has still to stop
  waitFor          \* the service whose finalization it waits for

sysVars == <<sysStopping, byName, byAddress, nextAddress>>
svcVars == <<name, state, cancelled, runtime, handlers, finalized>>
finVars == <<finalizer, awaitsRuntime>>
goVars == <<reserver, sysStop, services, toStop, waitFor>>
vars == <<sysVars, svcVars, finVars, starting, stopCalled, goVars>>


Init ==
  /\ sysStopping = FALSE
  /\ byName = [n \in Names |-> None]
  /\ byAddress = {}
  /\ nextAddress = 0
  /\ name = [s \in Services |-> None]
  /\ state = [s \in Services |-> "free"]
  /\ cancelled = [s \in Services |-> FALSE]
  /\ runtime = [s \in Services |-> "nil"]
  /\ handlers = [s \in Services |-> {}]
  /\ finalized = [s \in Services |-> FALSE]
  /\ finalizer = [s \in Services |-> "none"]
  /\ awaitsRuntime = [s \in Services |-> FALSE]
  /\ starting = [s \in Services |-> FALSE]
  /\ stopCalled = [s \in Services |-> FALSE]
  /\ reserver = [g \in Reservers |-> None]
  /\ sysStop = "idle"
  /\ services = {} /\ toStop = {} /\ waitFor = None
-----------------------------------------------------------------------------
\* Reserve, first half: the stopping flag is read before s.mu is taken.
ReserveCheck(g, n) ==
  /\ reserver[g] = None
  /\ ~sysStopping
  /\ nextAddress + Cardinality({h \in Reservers : reserver[h] # None}) < MaxServices
  /\ reserver' = [reserver EXCEPT ![g] = n]
  /\ UNCHANGED <<sysVars, svcVars, finVars, starting, stopCalled, sysStop, services, toStop, waitFor>>

\* Addresses are given out in order and never used again.
NewAddress == nextAddress + 1

\* Reserve, second half, under s.mu: a name in use is an error.
ReserveRegister(g) ==
  LET n == reserver[g]
      s == NewAddress IN
  /\ n # None
  /\ reserver' = [reserver EXCEPT ![g] = None]
  /\ IF byName[n] # None
     THEN UNCHANGED <<sysVars, name, state>>
     ELSE /\ nextAddress' = s
          /\ byName' = [byName EXCEPT ![n] = s]
          /\ byAddress' = byAddress \cup {s}
          /\ name' = [name EXCEPT ![s] = n]
          /\ state' = [state EXCEPT ![s] = "reserved"]
          /\ UNCHANGED sysStopping
  /\ UNCHANGED <<cancelled, runtime, handlers, finalized, finVars, starting, stopCalled,
                 sysStop, services, toStop, waitFor>>

\* Service.Handle, under svc.mu, which Start holds too.
MayHandle(s) == state[s] = "reserved" /\ ~starting[s]

Handle(s, p) ==
  /\ MayHandle(s)
  /\ p \notin handlers[s]
  /\ handlers' = [handlers EXCEPT ![s] = @ \cup {p}]
  /\ UNCHANGED <<sysVars, name, state, cancelled, runtime, finalized, finVars, starting,
                 stopCalled, goVars>>

\* Service.Start, under svc.mu: the state check and the new runtime.
StartCheck(s) ==
  /\ state[s] = "reserved"
  /\ ~starting[s]
  /\ stopCalled[s] => StartAfterStop
  /\ starting' = [starting EXCEPT ![s] = TRUE]
  /\ runtime' = [runtime EXCEPT ![s] = "created"]
  /\ UNCHANGED <<sysVars, name, state, cancelled, handlers, finalized, finVars, stopCalled,
                 goVars>>

\* Service.Start: publish the running state and start the scheduler.  The
\* finalizer stores its state without svc.mu and may have run in between.
StartPublish(s) ==
  /\ starting[s]
  /\ starting' = [starting EXCEPT ![s] = FALSE]
  /\ state' = [state EXCEPT ![s] = "running"]
  /\ runtime' = [runtime EXCEPT ![s] = "running"]
  /\ UNCHANGED <<sysVars, name, cancelled, handlers, finalized, finVars, stopCalled, goVars>>

\* The scheduler of a service whose context is done ends (StopCompletes of
\* ServiceRuntime) and closes rt.done.
RuntimeExits(s) ==
  /\ runtime[s] = "running" /\ cancelled[s]
  /\ runtime' = [runtime EXCEPT ![s] = "done"]
  /\ UNCHANGED <<sysVars, name, state, cancelled, handlers, finalized, finVars, starting,
                 stopCalled, goVars>>

\* beginFinalize: finalizeOnce starts the goroutine of the first caller.
BeginFinalizeAtOnce(s, awaits) ==
  IF finalizer[s] = "none"
  THEN finalizer' = [finalizer EXCEPT ![s] = "wait"] /\ UNCHANGED awaitsRuntime
  ELSE UNCHANGED finVars

BeginFinalizeAwaits(s, awaits) ==
  IF finalizer[s] = "none"
  THEN /\ finalizer' = [finalizer EXCEPT ![s] = "wait"]
       /\ awaitsRuntime' = [awaitsRuntime EXCEPT ![s] = TRUE]
  ELSE UNCHANGED finVars

BeginFinalize(s, awaits) ==
  IF finalizer[s] = "none"
  THEN /\ finalizer' = [finalizer EXCEPT ![s] = "wait"]
       /\ awaitsRuntime' = [awaitsRuntime EXCEPT ![s] = awaits]
  ELSE UNCHANGED finVars

\* Service.Stop up to its wait, under svc.mu: a reserved service is cancelled but
\* keeps its state; the finalizer of any other waits for the runtime it has.
StopState(s) == IF state[s] = "running" THEN "stopping" ELSE state[s]

ServiceStop(s) ==
  /\ ~starting[s]
  /\ stopCalled' = [stopCalled EXCEPT ![s] = TRUE]
  /\ state' = [state EXCEPT ![s] = StopState(s)]
  /\ cancelled' = [cancelled EXCEPT ![s] = @ \/ state[s] \in {"reserved", "running"}]
  /\ IF state[s] = "stopped" THEN UNCHANGED finVars
     ELSE BeginFinalize(s, state[s] # "reserved")
  /\ UNCHANGED <<name, runtime, handlers, finalized, starting>>

\* A goroutine of the application stops one service.
Stop(s) ==
  /\ state[s] # "free"
  /\ ServiceStop(s)
  /\ UNCHANGED <<sysVars, goVars>>

\* unpublish, under s.mu.
RemoveEntries(s) ==
  /\ byName' = [n \in Names |-> IF n = name[s] /\ byName[n] = s THEN None ELSE byName[n]]
  /\ byAddress' = byAddress \ {s}

\* The finalizer: unpublish once the runtime is done ...
Unpublish(s) ==
  /\ finalizer[s] = "wait"
  /\ awaitsRuntime[s] => runtime[s] = "done"
  /\ finalizer' = [finalizer EXCEPT ![s] = "unpublished"]
  /\ RemoveEntries(s)
  /\ UNCHANGED <<sysStopping, nextAddress, svcVars, awaitsRuntime, starting, stopCalled, goVars>>

\* ... store the stopped state ...
StoreStopped(s) ==
  /\ finalizer[s] = "unpublished"
  /\ finalizer' = [finalizer EXCEPT ![s] = "stored"]
  /\ state' = [state EXCEPT ![s] = "stopped"]
  /\ UNCHANGED <<sysVars, name, cancelled, runtime, handlers, finalized, awaitsRuntime,
                 starting, stopCalled, goVars>>

\* ... and close svc.finalized, which makes every waiting Stop return nil.
CloseFinalized(s) ==
  /\ finalizer[s] = "stored"
  /\ finalizer' = [finalizer EXCEPT ![s] = "closed"]
  /\ finalized' = [finalized EXCEPT ![s] = TRUE]
  /\ UNCHANGED <<sysVars, name, state, cancelled, runtime, handlers, awaitsRuntime, starting,
                 stopCalled, goVars>>
-----------------------------------------------------------------------------
\* System.Stop: set the flag, ...
SystemStopFlag ==
  /\ sysStop = "idle"
  /\ sysStop' = "flagged"
  /\ sysStopping' = TRUE
  /\ UNCHANGED <<byName, byAddress, nextAddress, svcVars, finVars, starting, stopCalled,
                 reserver, services, toStop, waitFor>>

\* ... copy the registry under s.mu, ...
SystemStopSnapshot ==
  /\ sysStop = "flagged"
  /\ sysStop' = "loop"
  /\ services' = byAddress
  /\ toStop' = byAddress
  /\ UNCHANGED <<sysVars, svcVars, finVars, starting, stopCalled, reserver, waitFor>>

\* A stopped service makes Service.Stop return at once, any other makes it wait in
\* waitFinalized.
Awaits(s) == IF state[s] = "stopped" THEN None ELSE s

\* ... stop the services of the copy one after the other, ...
SystemStopService(s) ==
  /\ sysStop = "loop" /\ waitFor = None
  /\ s \in toStop
  /\ ServiceStop(s)
  /\ toStop' = toStop \ {s}
  /\ waitFor' = Awaits(s)
  /\ UNCHANGED <<sysVars, reserver, sysStop, services>>

SystemStopFinalized ==
  /\ sysStop = "loop" /\ waitFor # None
  /\ finalized[waitFor]
  /\ waitFor' = None
  /\ UNCHANGED <<sysVars, svcVars, finVars, starting, stopCalled, reserver, sysStop, services,
                 toStop>>

\* ... until ctx expires: the first error ends the loop ...
SystemStopExpires ==
  /\ sysStop = "loop" /\ waitFor # None
  /\ sysStop' = "expired"
  /\ UNCHANGED <<sysVars, svcVars, finVars, starting, stopCalled, reserver, services, toStop,
                 waitFor>>

\* ... or all of them are stopped: return nil.
SystemStopReturns ==
  /\ sysStop = "loop" /\ waitFor = None /\ toStop = {}
  /\ sysStop' = "returned"
  /\ UNCHANGED <<sysVars, svcVars, finVars, starting, stopCalled, reserver, services, toStop,
                 waitFor>>
-----------------------------------------------------------------------------
ServiceStep(s) ==
  \/ \E p \in Protocols : Handle(s, p)
  \/ StartCheck(s) \/ StartPublish(s) \/ RuntimeExits(s) \/ Stop(s)
  \/ Unpublish(s) \/ StoreStopped(s) \/ CloseFinalized(s)

SystemStopStep ==
  \/ SystemStopFlag \/ SystemStopSnapshot
  \/ \E s \in Services : SystemStopService(s)
  \/ SystemStopFinalized \/ SystemStopExpires \/ SystemStopReturns

Next ==
  \/ \E g \in Reservers :
       \/ \E n \in Names : ReserveCheck(g, n)
       \/ ReserveRegister(g)
  \/ \E s \in Services : ServiceStep(s)
  \/ SystemStopStep

Spec == Init /\ [][Next]_vars

\* Goroutines that have been started keep running, Start and System.Stop are left
\* neither half way nor waiting for something that has happened; a cancelled
\* runtime ends.  Nobody has to call Reserve, Start or Stop, nor does ctx expire.
Fairness ==
  /\ \A s \in Services :
       WF_vars(StartPublish(s) \/ RuntimeExits(s) \/ Unpublish(s) \/ StoreStopped(s) \/ CloseFinalized(s))
  /\ WF_vars(SystemStopSnapshot \/ SystemStopFinalized \/ SystemStopReturns)
  /\ SF_vars(\E s \in Services : SystemStopService(s))

FairSpec == Spec /\ Fairness
-----------------------------------------------------------------------------
(* Properties *)

\* Stop returns nil (svc.finalized is closed) only when no handler of the service
\* runs or will run: the scheduler has ended, or never started and never will.
StopWaitsForRuntime ==
  \A s \in Services : finalized[s] => runtime[s] # "running"

\* When System.Stop returns nil, every service of the system is stopped.
SystemStopStopsEveryService ==
  sysStop = "returned" => \A s \in Services : state[s] \in {"free", "stopped"}

\* System.Stop returns without the help of its context's expiry.
SystemStopTerminates ==
  sysStop = "flagged" ~> sysStop \in {"returned", "expired"}
===============================================================================
