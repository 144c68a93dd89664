----------------------------- MODULE NodeProofs -----------------------------
(***************************************************************************)
(* What holds of a node, for every number of services, tasks and           *)
(* goroutines: Stop waits for the runtime it stops, the ids that a node    *)
(* generates are its own and increase, and no drain reports success over   *)
(* lost work.                                                              *)
(***************************************************************************)
EXTENDS ServiceLifecycle, SystemDrain, TimerIds, TLAPS
-----------------------------------------------------------------------------
(* The life of the services: its inductive invariant *)

LifeTypes ==
  /\ nextAddress \in Nat
  /\ state \in [Services -> {"free", "reserved", "running", "stopping", "stopped"}]
  /\ runtime \in [Services -> {"nil", "created", "running", "done"}]
  /\ finalized \in [Services -> BOOLEAN]
  /\ finalizer \in [Services -> {"none", "wait", "unpublished", "stored", "closed"}]
  /\ awaitsRuntime \in [Services -> BOOLEAN]
  /\ starting \in [Services -> BOOLEAN] /\ stopCalled \in [Services -> BOOLEAN]

\* A service is free until its address is given out, and is stopped by name only after.
Reserved ==
  /\ \A s \in Services : s > nextAddress => state[s] = "free"
  /\ \A s \in Services : s \in byAddress \cup toStop => state[s] # "free"

\* What is known of one service: Start and Stop exclude each other, a runtime exists only
\* after Start, and the finalizer passes its wait only for a runtime that has ended.
Orderly(s) ==
  /\ state[s] \in {"free", "reserved"} /\ ~starting[s] => runtime[s] = "nil"
  /\ state[s] = "free" => finalizer[s] = "none"
  /\ starting[s] => state[s] = "reserved" /\ ~stopCalled[s]
  /\ finalizer[s] # "none" => stopCalled[s]
  /\ finalizer[s] # "none" /\ ~awaitsRuntime[s] => runtime[s] = "nil"
  /\ finalizer[s] \in {"unpublished", "stored", "closed"} /\ awaitsRuntime[s] => runtime[s] = "done"
  /\ finalized[s] => finalizer[s] = "closed"

LifeInv == LifeTypes /\ Reserved /\ \A s \in Services : Orderly(s)

\* A system without services satisfies the invariant.
LEMMA LifeInit == Init => LifeInv
  <1> SUFFICES ASSUME Init PROVE LifeInv
    BY Zenon
  <1>1. LifeTypes /\ Reserved
    BY Zenon DEF Init, LifeTypes, Reserved
  <1>2. \A s \in Services : Orderly(s)
    BY Zenon DEF Init, Orderly
  <1> QED
    BY <1>1, <1>2, Zenon DEF LifeInv

\* The state of a service that a step does not touch.
Untouched(u) ==
  /\ state'[u] = state[u] /\ runtime'[u] = runtime[u] /\ finalized'[u] = finalized[u]
  /\ finalizer'[u] = finalizer[u] /\ awaitsRuntime'[u] = awaitsRuntime[u]
  /\ starting'[u] = starting[u] /\ stopCalled'[u] = stopCalled[u]

\* The types, taken out of the invariant.
LEMMA LifeTyped ==
  ASSUME LifeInv
  PROVE  /\ nextAddress \in Nat
         /\ state \in [Services -> {"free", "reserved", "running", "stopping", "stopped"}]
         /\ runtime \in [Services -> {"nil", "created", "running", "done"}]
         /\ finalized \in [Services -> BOOLEAN]
         /\ finalizer \in [Services -> {"none", "wait", "unpublished", "stored", "closed"}]
         /\ awaitsRuntime \in [Services -> BOOLEAN]
         /\ starting \in [Services -> BOOLEAN] /\ stopCalled \in [Services -> BOOLEAN]
  BY Zenon DEF LifeInv, LifeTypes

\* A step that touches one service keeps what is known of the others.
LEMMA OrderlyElsewhere ==
  ASSUME LifeInv, NEW s, Orderly(s)', \A u \in Services : u # s => Untouched(u)
  PROVE  \A u \in Services : Orderly(u)'
  <1>1. ASSUME NEW u \in Services, u # s PROVE Orderly(u)'
    <2>1. Orderly(u) /\ Untouched(u)
      BY <1>1, Zenon DEF LifeInv
    <2> QED
      BY <2>1, Zenon DEF Orderly, Untouched
  <1> QED
    BY <1>1, Zenon

\* Reserve gives out the next address, whose service was free.
LEMMA ReserveKeeps ==
  ASSUME LifeInv, NEW g \in Reservers, ReserveRegister(g)
  PROVE  LifeInv'
  <1> DEFINE s == nextAddress + 1
  <1>1. /\ UNCHANGED <<runtime, finalized, finalizer, awaitsRuntime, starting, stopCalled, toStop>>
        /\ \/ UNCHANGED <<nextAddress, byAddress, state>>
           \/ /\ nextAddress' = s /\ byAddress' = byAddress \cup {s}
              /\ state' = [state EXCEPT ![s] = "reserved"]
    BY Zenon DEF ReserveRegister, NewAddress, sysVars, finVars
  <1>2. CASE UNCHANGED <<nextAddress, byAddress, state>>
    BY <1>1, <1>2, Zenon DEF LifeInv, LifeTypes, Reserved, Orderly
  <1>3. CASE /\ nextAddress' = s /\ byAddress' = byAddress \cup {s}
             /\ state' = [state EXCEPT ![s] = "reserved"]
    <2>1. /\ nextAddress \in Nat
          /\ state \in [Services -> {"free", "reserved", "running", "stopping", "stopped"}]
      BY LifeTyped, Zenon
    <2>2. s \in Services => state[s] = "free" /\ state'[s] = "reserved"
      <3>1. s > nextAddress
        BY <2>1
      <3> QED
        BY <1>3, <2>1, <3>1, Zenon DEF LifeInv, Reserved
    <2>3. /\ state' \in [Services -> {"free", "reserved", "running", "stopping", "stopped"}]
          /\ \A u \in Services : u # s => state'[u] = state[u]
      BY <1>3, <2>1, Zenon
    <2>4. LifeTypes'
      <3>1. nextAddress' \in Nat
        BY <1>3, <2>1
      <3> QED
        BY <1>1, <2>3, <3>1, Zenon DEF LifeInv, LifeTypes
    <2>5. Reserved'
      <3>1. ASSUME NEW u \in Services, u > nextAddress' PROVE state'[u] = "free"
        <4>1. u # s /\ u > nextAddress
          BY <1>3, <2>1, <3>1 DEF Services
        <4> QED
          BY <2>3, <4>1, Zenon DEF LifeInv, Reserved
      <3>2. ASSUME NEW u \in Services, u \in byAddress' \cup toStop' PROVE state'[u] # "free"
        <4>1. CASE u = s
          BY <2>2, <4>1, Zenon
        <4>2. CASE u # s
          BY <1>1, <1>3, <2>3, <3>2, <4>2, Zenon DEF LifeInv, Reserved
        <4> QED
          BY <4>1, <4>2, Zenon
      <3> QED
        BY <3>1, <3>2, Zenon DEF Reserved
    <2>6. ASSUME NEW u \in Services PROVE Orderly(u)'
      <3>1. Orderly(u)
        BY Zenon DEF LifeInv
      <3>2. CASE u = s
        BY <1>1, <2>2, <3>1, <3>2, Zenon DEF Orderly
      <3>3. CASE u # s
        BY <1>1, <2>3, <3>1, <3>3, Zenon DEF Orderly
      <3> QED
        BY <3>2, <3>3, Zenon
    <2> QED
      BY <2>4, <2>5, <2>6, Zenon DEF LifeInv
  <1> QED
    BY <1>1, <1>2, <1>3, Zenon

\* Start and the end of a runtime: Start is not called after Stop.
LEMMA StartKeeps ==
  ASSUME ~StartAfterStop, LifeInv, NEW s \in Services, StartCheck(s) \/ StartPublish(s) \/ RuntimeExits(s)
  PROVE  LifeInv'
  <1>1. UNCHANGED <<nextAddress, byAddress, toStop, finalized, finalizer, awaitsRuntime, stopCalled>>
    BY Zenon DEF StartCheck, StartPublish, RuntimeExits, sysVars, finVars, goVars
  <1>2. PICK r \in {"created", "running", "done"}, b \in BOOLEAN :
          /\ runtime' = [runtime EXCEPT ![s] = r] /\ starting' = [starting EXCEPT ![s] = b]
          /\ state' = IF r = "running" THEN [state EXCEPT ![s] = "running"] ELSE state
          /\ r = "created" => state[s] = "reserved" /\ ~starting[s] /\ ~stopCalled[s] /\ b
          /\ r = "running" => starting[s] /\ ~b
          /\ r = "done" => runtime[s] = "running" /\ b = starting[s]
    <2>1. CASE StartCheck(s)
      BY <2>1, Zenon DEF StartCheck
    <2>2. CASE StartPublish(s)
      BY <2>2, Zenon DEF StartPublish
    <2>3. CASE RuntimeExits(s)
      <3>1. starting \in [Services -> BOOLEAN]
        BY LifeTyped, Zenon
      <3>2. starting' = [starting EXCEPT ![s] = starting[s]] /\ starting[s] \in BOOLEAN
        BY <2>3, <3>1, Zenon DEF RuntimeExits
      <3> QED
        BY <2>3, <3>2, Zenon DEF RuntimeExits
    <2> QED
      BY <2>1, <2>2, <2>3, Zenon
  <1>3. /\ state'[s] = (IF r = "running" THEN "running" ELSE state[s]) /\ runtime'[s] = r
        /\ starting'[s] = b /\ \A u \in Services : u # s => Untouched(u)
    BY <1>1, <1>2, LifeTyped, Zenon DEF Untouched
  <1>4. Orderly(s)
    BY Zenon DEF LifeInv
  <1>5. Orderly(s)'
    BY <1>1, <1>2, <1>3, <1>4, Zenon DEF Orderly
  <1>6. \A u \in Services : Orderly(u)'
    BY <1>3, <1>5, OrderlyElsewhere, Zenon
  <1>7. LifeTypes'
    <2>1. /\ state' \in [Services -> {"free", "reserved", "running", "stopping", "stopped"}]
          /\ runtime' \in [Services -> {"nil", "created", "running", "done"}]
          /\ starting' \in [Services -> BOOLEAN]
      BY <1>2, LifeTyped, Zenon
    <2> QED
      BY <1>1, <2>1, Zenon DEF LifeInv, LifeTypes
  <1>8. state[s] # "free"
    BY <1>2, <1>4, Zenon DEF Orderly
  <1>9. \A u \in Services : state'[u] = "free" <=> state[u] = "free"
    BY <1>3, <1>8, Zenon DEF Untouched
  <1>10. Reserved'
    BY <1>1, <1>9, Zenon DEF LifeInv, Reserved
  <1> QED
    BY <1>6, <1>7, <1>10, Zenon DEF LifeInv

\* Service.Stop: the finalizer of a reserved service has no runtime to wait for.
LEMMA StopKeeps ==
  ASSUME LifeInv, NEW s \in Services, state[s] # "free", ServiceStop(s),
         UNCHANGED <<nextAddress, byAddress>>, toStop' \subseteq toStop
  PROVE  LifeInv'
  <1>1. /\ ~starting[s] /\ stopCalled' = [stopCalled EXCEPT ![s] = TRUE]
        /\ state' = [state EXCEPT ![s] = StopState(s)]
        /\ UNCHANGED <<runtime, finalized, starting>>
    BY Zenon DEF ServiceStop
  <1>2. \/ UNCHANGED <<finalizer, awaitsRuntime>>
        \/ /\ finalizer[s] = "none" /\ finalizer' = [finalizer EXCEPT ![s] = "wait"]
           /\ awaitsRuntime' = [awaitsRuntime EXCEPT ![s] = state[s] # "reserved"]
    BY Zenon DEF ServiceStop, BeginFinalize, finVars
  <1>3. /\ StopState(s) \in {"reserved", "running", "stopping", "stopped"}
        /\ StopState(s) = "reserved" => state[s] = "reserved"
    BY LifeTyped, Zenon DEF StopState
  <1>4. /\ state'[s] = StopState(s) /\ stopCalled'[s] = TRUE
        /\ \A u \in Services : u # s => Untouched(u)
        /\ \/ finalizer'[s] = finalizer[s] /\ awaitsRuntime'[s] = awaitsRuntime[s]
           \/ /\ finalizer[s] = "none" /\ finalizer'[s] = "wait"
              /\ awaitsRuntime'[s] = (state[s] # "reserved")
    BY <1>1, <1>2, LifeTyped, Zenon DEF Untouched
  <1>5. Orderly(s)
    BY Zenon DEF LifeInv
  <1>6. Orderly(s)'
    BY <1>1, <1>3, <1>4, <1>5, Zenon DEF Orderly
  <1>7. \A u \in Services : Orderly(u)'
    BY <1>4, <1>6, OrderlyElsewhere, Zenon
  <1>8. LifeTypes'
    <2>1. /\ state' \in [Services -> {"free", "reserved", "running", "stopping", "stopped"}]
          /\ stopCalled' \in [Services -> BOOLEAN]
      BY <1>1, <1>3, LifeTyped, Zenon
    <2>2. /\ finalizer' \in [Services -> {"none", "wait", "unpublished", "stored", "closed"}]
          /\ awaitsRuntime' \in [Services -> BOOLEAN]
      BY <1>2, LifeTyped, Zenon
    <2> QED
      BY <1>1, <2>1, <2>2, Zenon DEF LifeInv, LifeTypes
  <1>9. \A u \in Services : state'[u] = "free" <=> state[u] = "free"
    BY <1>3, <1>4, Zenon DEF Untouched
  <1>10. Reserved'
    BY <1>9, Zenon DEF LifeInv, Reserved
  <1> QED
    BY <1>7, <1>8, <1>10, Zenon DEF LifeInv

\* The finalizer leaves its wait only when the runtime it waits for has ended.
LEMMA FinalizerKeeps ==
  ASSUME LifeInv, NEW s \in Services, Unpublish(s) \/ StoreStopped(s) \/ CloseFinalized(s)
  PROVE  LifeInv'
  <1>1. /\ UNCHANGED <<nextAddress, toStop, runtime, awaitsRuntime, starting, stopCalled>>
        /\ byAddress' \subseteq byAddress
    BY Zenon DEF Unpublish, StoreStopped, CloseFinalized, RemoveEntries, svcVars, sysVars, goVars
  <1>2. PICK f \in {"unpublished", "stored", "closed"} :
          /\ finalizer[s] # "none" /\ finalizer' = [finalizer EXCEPT ![s] = f]
          /\ finalizer[s] = "wait" /\ awaitsRuntime[s] => runtime[s] = "done"
          /\ state' = state \/ state' = [state EXCEPT ![s] = "stopped"]
          /\ finalized' = finalized \/ (f = "closed" /\ finalized' = [finalized EXCEPT ![s] = TRUE])
          /\ finalizer[s] # "closed"
    <2>1. CASE Unpublish(s)
      BY <2>1, Zenon DEF Unpublish, svcVars
    <2>2. CASE StoreStopped(s)
      BY <2>2, Zenon DEF StoreStopped
    <2>3. CASE CloseFinalized(s)
      BY <2>3, Zenon DEF CloseFinalized
    <2> QED
      BY <2>1, <2>2, <2>3, Zenon
  <1>3. /\ finalizer'[s] = f /\ (state'[s] = state[s] \/ state'[s] = "stopped")
        /\ finalized'[s] = finalized[s] \/ f = "closed"
        /\ \A u \in Services : u # s => Untouched(u)
    BY <1>1, <1>2, LifeTyped, Zenon DEF Untouched
  <1>4. Orderly(s)
    BY Zenon DEF LifeInv
  <1>5. Orderly(s)'
    BY <1>1, <1>2, <1>3, <1>4, LifeTyped, Zenon DEF Orderly
  <1>6. \A u \in Services : Orderly(u)'
    BY <1>3, <1>5, OrderlyElsewhere, Zenon
  <1>7. LifeTypes'
    <2>1. /\ state' \in [Services -> {"free", "reserved", "running", "stopping", "stopped"}]
          /\ finalizer' \in [Services -> {"none", "wait", "unpublished", "stored", "closed"}]
          /\ finalized' \in [Services -> BOOLEAN]
      BY <1>2, LifeTyped, Zenon
    <2> QED
      BY <1>1, <2>1, Zenon DEF LifeInv, LifeTypes
  <1>8. state[s] # "free"
    BY <1>2, <1>4, Zenon DEF Orderly
  <1>9. \A u \in Services : state'[u] = "free" <=> state[u] = "free"
    BY <1>3, <1>8, Zenon DEF Untouched
  <1>10. Reserved'
    BY <1>1, <1>9, Zenon DEF LifeInv, Reserved
  <1> QED
    BY <1>6, <1>7, <1>10, Zenon DEF LifeInv

\* Steps that leave the services and their registry alone.
LEMMA BystanderKeeps ==
  ASSUME LifeInv, UNCHANGED <<nextAddress, byAddress, state, runtime, finalized, finalizer, awaitsRuntime,
                              starting, stopCalled>>,
         toStop' \subseteq toStop \cup byAddress
  PROVE  LifeInv'
  <1>1. LifeTypes'
    BY Zenon DEF LifeInv, LifeTypes
  <1>2. Reserved'
    BY Zenon DEF LifeInv, Reserved
  <1>3. \A s \in Services : Orderly(s)'
    BY Zenon DEF LifeInv, Orderly
  <1> QED
    BY <1>1, <1>2, <1>3, Zenon DEF LifeInv

\* Every step of the system keeps the invariant.
LEMMA LifeStep ==
  ASSUME ~StartAfterStop, LifeInv, [Next]_vars
  PROVE  LifeInv'
  <1>1. ASSUME \/ UNCHANGED vars
               \/ \E g \in Reservers, n \in Names : ReserveCheck(g, n)
               \/ \E s \in Services, p \in Protocols : Handle(s, p)
               \/ SystemStopFlag \/ SystemStopSnapshot
               \/ SystemStopFinalized \/ SystemStopExpires \/ SystemStopReturns
        PROVE  LifeInv'
    <2>1. /\ UNCHANGED <<nextAddress, byAddress, state, runtime, finalized, finalizer, awaitsRuntime,
                         starting, stopCalled>>
          /\ toStop' = toStop \/ toStop' = byAddress
      BY <1>1, Zenon DEF vars, ReserveCheck, Handle, SystemStopFlag, SystemStopSnapshot,
                         SystemStopFinalized, SystemStopExpires, SystemStopReturns, sysVars, svcVars,
                         finVars, goVars
    <2>2. toStop' \subseteq toStop \cup byAddress
      BY <2>1, Zenon
    <2> QED
      BY <2>1, <2>2, BystanderKeeps, Zenon
  <1>2. ASSUME NEW g \in Reservers, ReserveRegister(g) PROVE LifeInv'
    BY <1>2, ReserveKeeps, Zenon
  <1>3. ASSUME NEW s \in Services, StartCheck(s) \/ StartPublish(s) \/ RuntimeExits(s) PROVE LifeInv'
    BY <1>3, StartKeeps, Zenon
  <1>4. ASSUME NEW s \in Services, Stop(s) \/ SystemStopService(s) PROVE LifeInv'
    <2>1. ServiceStop(s) /\ UNCHANGED <<nextAddress, byAddress>> /\ toStop' \subseteq toStop
      BY <1>4, Zenon DEF Stop, SystemStopService, sysVars, goVars
    <2>2. state[s] # "free"
      BY <1>4, Zenon DEF Stop, SystemStopService, LifeInv, Reserved
    <2> QED
      BY <2>1, <2>2, StopKeeps, Zenon
  <1>5. ASSUME NEW s \in Services, Unpublish(s) \/ StoreStopped(s) \/ CloseFinalized(s) PROVE LifeInv'
    BY <1>5, FinalizerKeeps, Zenon
  <1> QED
    BY <1>1, <1>2, <1>3, <1>4, <1>5, Zenon DEF Next, ServiceStep, SystemStopStep

\* Stop of a service that is not started again returns nil only when its scheduler has
\* ended or never started.
THEOREM StopsWaitForRuntime ==
  ASSUME ~StartAfterStop
  PROVE  Spec => []StopWaitsForRuntime
  <1>1. LifeInv => StopWaitsForRuntime
    <2> SUFFICES ASSUME LifeInv, NEW s \in Services, finalized[s] PROVE runtime[s] # "running"
      BY Zenon DEF StopWaitsForRuntime
    <2>1. Orderly(s)
      BY Zenon DEF LifeInv
    <2> QED
      BY <2>1, Zenon DEF Orderly
  <1>2. LifeInv /\ [Next]_vars => LifeInv'
    BY LifeStep, Zenon
  <1> QED
    BY <1>1, <1>2, LifeInit, PTL DEF Spec
-----------------------------------------------------------------------------
(* Timer ids: the layout, and the inductive invariant of the generators *)

\* A digit below the base b never makes up for a smaller leading part.
LEMMA LeadingPart ==
  ASSUME NEW b \in Nat \ {0}, NEW q \in Nat, NEW r \in Nat, q < r,
         NEW s \in 0 .. b - 1, NEW t \in 0 .. b - 1
  PROVE  q * b \in Nat /\ r * b \in Nat /\ q * b + s < r * b + t
  <1>1. q * b \in Nat /\ r * b \in Nat
    OBVIOUS
  <1>2. PICK d \in Nat : r = q + 1 + d
    <2>1. r - q - 1 \in Nat /\ r = q + 1 + (r - q - 1)
      OBVIOUS
    <2> QED
      BY <2>1, Zenon
  <1>3. r * b = q * b + b + d * b
    BY <1>2
  <1>4. d * b \in Nat
    BY <1>2
  <1> QED
    BY <1>1, <1>3, <1>4

\* The three parts of an id can be read back from it: a digit below the base b and the
\* leading part determine each other.
LEMMA PartsUnique ==
  ASSUME NEW b \in Nat \ {0}, NEW q \in Nat, NEW r \in Nat,
         NEW s \in 0 .. b - 1, NEW t \in 0 .. b - 1, q * b + s = r * b + t
  PROVE  q = r /\ s = t
  <1>1. ~(q < r)
    <2> SUFFICES ASSUME q < r PROVE FALSE
      OBVIOUS
    <2>1. q * b \in Nat /\ r * b \in Nat /\ q * b + s < r * b + t
      BY LeadingPart
    <2> QED
      BY <2>1
  <1>2. ~(r < q)
    <2> SUFFICES ASSUME r < q PROVE FALSE
      OBVIOUS
    <2>1. q * b \in Nat /\ r * b \in Nat /\ r * b + t < q * b + s
      BY LeadingPart
    <2> QED
      BY <2>1
  <1>3. q = r
    BY <1>1, <1>2
  <1>4. q * b \in Nat
    OBVIOUS
  <1> QED
    BY <1>3, <1>4

\* An id of a later millisecond, or of the same one with a larger sequence, is larger.
LEMMA LayoutIncreases ==
  ASSUME IDs!IDAssumption, NEW k \in 0 .. NodeCount - 1, NEW e \in Nat, NEW f \in Nat,
         NEW s \in 0 .. SeqCount - 1, NEW t \in 0 .. SeqCount - 1,
         e < f \/ (e = f /\ s < t)
  PROVE  /\ IDs!Layout(e, k, s) \in Nat /\ IDs!Layout(f, k, t) \in Nat
         /\ IDs!Layout(e, k, s) < IDs!Layout(f, k, t)
  <1>1. NodeCount \in Nat \ {0} /\ SeqCount \in Nat \ {0}
    BY DEF IDs!IDAssumption
  <1>2. e * NodeCount + k \in Nat /\ f * NodeCount + k \in Nat
    BY <1>1
  <1>3. (e * NodeCount + k) * SeqCount \in Nat /\ (f * NodeCount + k) * SeqCount \in Nat
    BY <1>1, <1>2
  <1>4. (e * NodeCount + k) * SeqCount + s < (f * NodeCount + k) * SeqCount + t
    <2>1. CASE e < f
      <3>1. e * NodeCount + k < f * NodeCount + k
        BY <1>1, <2>1, LeadingPart
      <3> HIDE <2>1
      <3> QED
        BY <1>1, <1>2, <3>1, LeadingPart
    <2>2. CASE e = f /\ s < t
      BY <1>3, <2>2
    <2> QED
      BY <2>1, <2>2, Zenon
  <1> QED
    BY <1>3, <1>4 DEF IDs!Layout

\* The last id of a generator is at most the one its fields describe; before the epoch
\* it has returned none.
IDInv ==
  /\ lastMs \in [Nodes -> Nat] /\ sequence \in [Nodes -> 0 .. SeqCount - 1]
  /\ returned \in [Nodes -> Nat] /\ lastID \in [Nodes -> Int]
  /\ \A n \in Nodes :
       IF lastMs[n] < EpochMs
       THEN lastID[n] = -1
       ELSE lastID[n] <= IDs!Layout(lastMs[n] - EpochMs, nodeID[n], sequence[n])

\* Every id of a node carries its node id.
Stamped ==
  /\ generated \in [Nodes -> SUBSET Nat]
  /\ \A n \in Nodes : \A id \in generated[n] :
       \E e \in Nat, s \in 0 .. SeqCount - 1 : id = IDs!Layout(e, nodeID[n], s)

\* A call of Next moves its generator on: to a later millisecond, or to the next
\* sequence of the same one.
LEMMA FieldsMoveOn ==
  ASSUME IDs!IDAssumption, IDInv, NEW n \in Nodes, NEW now \in Clock, NEW again \in Clock,
         NEW later \in Clock, IDs!NextID(n, now, again, later)
  PROVE  \E ms \in Nat, seq \in 0 .. SeqCount - 1 :
           /\ ms > lastMs[n] \/ (ms = lastMs[n] /\ seq > sequence[n])
           /\ lastMs' = [lastMs EXCEPT ![n] = ms] /\ sequence' = [sequence EXCEPT ![n] = seq]
           /\ IF ms < EpochMs
              THEN UNCHANGED <<returned, lastID, generated>>
              ELSE LET id == IDs!Layout(ms - EpochMs, nodeID[n], seq) IN
                   /\ returned' = [returned EXCEPT ![n] = @ + 1]
                   /\ lastID' = [lastID EXCEPT ![n] = id]
                   /\ generated' = [generated EXCEPT ![n] = @ \cup {id}]
  <1> DEFINE read == IDs!Reading(n, now, again)
             ms == IF IDs!Exhausted(n, read) THEN later ELSE read
             seq == IF read = lastMs[n] THEN IDs!NextSequence(n) ELSE 0
  <1>1. /\ SeqCount \in Nat \ {0} /\ lastMs[n] \in Nat /\ sequence[n] \in 0 .. SeqCount - 1
        /\ now \in Nat /\ again \in Nat /\ later \in Nat
    BY DEF IDs!IDAssumption, IDInv
  <1>2. read \in Nat /\ read >= lastMs[n]
    BY <1>1 DEF IDs!Reading
  <1>3. /\ IDs!NextSequence(n) \in 0 .. SeqCount - 1
        /\ IDs!NextSequence(n) # 0 => IDs!NextSequence(n) = sequence[n] + 1
    BY <1>1 DEF IDs!NextSequence
  <1>4. IDs!Exhausted(n, read) => later > lastMs[n]
    BY Zenon DEF IDs!NextID
  <1>5. ms \in Nat /\ seq \in 0 .. SeqCount - 1
    <2> HIDE DEF read
    <2> QED
      BY <1>1, <1>2, <1>3
  <1>6. ms > lastMs[n] \/ (ms = lastMs[n] /\ seq > sequence[n])
    <2> HIDE DEF read
    <2> QED
      BY <1>1, <1>2, <1>3, <1>4 DEF IDs!Exhausted
  <1>7. /\ lastMs' = [lastMs EXCEPT ![n] = ms] /\ sequence' = [sequence EXCEPT ![n] = seq]
        /\ IF ms < EpochMs
           THEN UNCHANGED <<returned, lastID, generated>>
           ELSE LET id == IDs!Layout(ms - EpochMs, nodeID[n], seq) IN
                /\ returned' = [returned EXCEPT ![n] = @ + 1]
                /\ lastID' = [lastID EXCEPT ![n] = id]
                /\ generated' = [generated EXCEPT ![n] = @ \cup {id}]
    BY Zenon DEF IDs!NextID
  <1> HIDE DEF ms, seq
  <1> QED
    BY <1>5, <1>6, <1>7, Zenon

\* A call of Next keeps the invariant, and an id that it returns is larger than the last.
LEMMA NextIDKeeps ==
  ASSUME IDs!IDAssumption, IDInv, NEW n \in Nodes, NEW now \in Clock, NEW again \in Clock,
         NEW later \in Clock, IDs!NextID(n, now, again, later)
  PROVE  IDInv' /\ IDs!ReturnsLarger /\ (Stamped => Stamped')
  <1>1. PICK ms \in Nat, seq \in 0 .. SeqCount - 1 :
          /\ ms > lastMs[n] \/ (ms = lastMs[n] /\ seq > sequence[n])
          /\ lastMs' = [lastMs EXCEPT ![n] = ms] /\ sequence' = [sequence EXCEPT ![n] = seq]
          /\ IF ms < EpochMs
             THEN UNCHANGED <<returned, lastID, generated>>
             ELSE LET id == IDs!Layout(ms - EpochMs, nodeID[n], seq) IN
                  /\ returned' = [returned EXCEPT ![n] = @ + 1]
                  /\ lastID' = [lastID EXCEPT ![n] = id]
                  /\ generated' = [generated EXCEPT ![n] = @ \cup {id}]
    BY FieldsMoveOn, Zenon
  <1>2. /\ EpochMs \in Nat /\ nodeID[n] \in 0 .. NodeCount - 1
        /\ lastMs[n] \in Nat /\ sequence[n] \in 0 .. SeqCount - 1 /\ lastID[n] \in Int
    BY DEF IDs!IDAssumption, IDInv
  <1>t. /\ lastMs \in [Nodes -> Nat] /\ sequence \in [Nodes -> 0 .. SeqCount - 1]
        /\ returned \in [Nodes -> Nat] /\ lastID \in [Nodes -> Int]
    BY Zenon DEF IDInv
  <1>3. /\ lastMs' \in [Nodes -> Nat] /\ sequence' \in [Nodes -> 0 .. SeqCount - 1]
        /\ lastMs'[n] = ms /\ sequence'[n] = seq
        /\ \A m \in Nodes : m # n => lastMs'[m] = lastMs[m] /\ sequence'[m] = sequence[m]
    BY <1>1, <1>t
  <1>4. CASE ms < EpochMs
    <2>1. UNCHANGED <<returned, lastID, generated>> /\ lastMs[n] < EpochMs
      BY <1>1, <1>2, <1>4
    <2>2. IDs!ReturnsLarger /\ (Stamped => Stamped')
      BY <2>1, Zenon DEF IDs!ReturnsLarger, Stamped
    <2>3. ASSUME NEW m \in Nodes
          PROVE  IF lastMs'[m] < EpochMs
                 THEN lastID'[m] = -1
                 ELSE lastID'[m] <= IDs!Layout(lastMs'[m] - EpochMs, nodeID[m], sequence'[m])
      <3>1. CASE m = n
        BY <1>3, <1>4, <2>1, <3>1 DEF IDInv
      <3>2. CASE m # n
        BY <1>3, <2>1, <3>2, Zenon DEF IDInv
      <3> QED
        BY <3>1, <3>2, Zenon
    <2> QED
      BY <1>t, <1>3, <2>1, <2>2, <2>3, Zenon DEF IDInv
  <1>5. CASE ~(ms < EpochMs)
    <2> DEFINE id == IDs!Layout(ms - EpochMs, nodeID[n], seq)
    <2>0. ms - EpochMs \in Nat
      BY <1>2, <1>5
    <2>1. id \in Nat
      <3>1. NodeCount \in Nat /\ SeqCount \in Nat
        BY DEF IDs!IDAssumption
      <3>2. (ms - EpochMs) * NodeCount + nodeID[n] \in Nat
        BY <1>2, <2>0, <3>1
      <3>3. ((ms - EpochMs) * NodeCount + nodeID[n]) * SeqCount \in Nat
        BY <3>1, <3>2
      <3> QED
        BY <3>1, <3>3 DEF IDs!Layout
    <2>2. id > lastID[n]
      <3>1. CASE lastMs[n] < EpochMs
        <4>1. lastID[n] = -1
          BY <3>1, Zenon DEF IDInv
        <4> HIDE DEF id
        <4> QED
          BY <2>1, <4>1
      <3>2. CASE ~(lastMs[n] < EpochMs)
        <4>1. lastID[n] <= IDs!Layout(lastMs[n] - EpochMs, nodeID[n], sequence[n])
          BY <3>2, Zenon DEF IDInv
        <4>2. /\ lastMs[n] - EpochMs \in Nat
              /\ \/ lastMs[n] - EpochMs < ms - EpochMs
                 \/ lastMs[n] - EpochMs = ms - EpochMs /\ sequence[n] < seq
          BY <1>1, <1>2, <1>5, <3>2
        <4>3. /\ IDs!Layout(lastMs[n] - EpochMs, nodeID[n], sequence[n]) \in Nat
              /\ IDs!Layout(lastMs[n] - EpochMs, nodeID[n], sequence[n]) < id
          BY <1>2, <2>0, <4>2, LayoutIncreases
        <4> HIDE DEF id
        <4> QED
          BY <1>2, <2>1, <4>1, <4>3
      <3> QED
        BY <3>1, <3>2, Zenon
    <2>3. /\ returned' = [returned EXCEPT ![n] = @ + 1] /\ lastID' = [lastID EXCEPT ![n] = id]
          /\ generated' = [generated EXCEPT ![n] = @ \cup {id}]
      BY <1>1, <1>5, Zenon
    <2> HIDE DEF id
    <2>4. /\ returned' \in [Nodes -> Nat] /\ lastID' \in [Nodes -> Int] /\ lastID'[n] = id
          /\ \A m \in Nodes : m # n => returned'[m] = returned[m] /\ lastID'[m] = lastID[m]
      BY <1>t, <2>1, <2>3
    <2>5. IDs!ReturnsLarger
      BY <2>2, <2>4 DEF IDs!ReturnsLarger
    <2>6. ASSUME NEW m \in Nodes
          PROVE  IF lastMs'[m] < EpochMs
                 THEN lastID'[m] = -1
                 ELSE lastID'[m] <= IDs!Layout(lastMs'[m] - EpochMs, nodeID[m], sequence'[m])
      <3>1. CASE m = n
        <4>1. lastID'[m] = IDs!Layout(lastMs'[m] - EpochMs, nodeID[m], sequence'[m])
          BY <1>3, <2>4, <3>1, Zenon DEF id
        <4> QED
          BY <1>3, <1>5, <2>1, <2>4, <3>1, <4>1
      <3>2. CASE m # n
        BY <1>3, <2>4, <3>2, Zenon DEF IDInv
      <3> QED
        BY <3>1, <3>2, Zenon
    <2>7. ASSUME Stamped PROVE Stamped'
      <3>1. generated \in [Nodes -> SUBSET Nat]
        BY <2>7, Zenon DEF Stamped
      <3>2. /\ generated' \in [Nodes -> SUBSET Nat] /\ generated'[n] = generated[n] \cup {id}
            /\ \A m \in Nodes : m # n => generated'[m] = generated[m]
        BY <2>1, <2>3, <3>1
      <3>3. \E e \in Nat, s \in 0 .. SeqCount - 1 : id = IDs!Layout(e, nodeID[n], s)
        BY <2>0, Zenon DEF id
      <3>4. ASSUME NEW m \in Nodes, NEW i \in generated'[m]
            PROVE  \E e \in Nat, s \in 0 .. SeqCount - 1 : i = IDs!Layout(e, nodeID[m], s)
        <4>1. i \in generated[m] \/ (m = n /\ i = id)
          BY <3>2, <3>4, Zenon
        <4> QED
          BY <2>7, <3>3, <4>1, Zenon DEF Stamped
      <3> QED
        BY <3>2, <3>4, Zenon DEF Stamped
    <2> QED
      BY <1>3, <2>4, <2>5, <2>6, <2>7, Zenon DEF IDInv
  <1> QED
    BY <1>4, <1>5, Zenon

\* New generators satisfy the invariant.
LEMMA IDInit ==
  ASSUME IDs!IDAssumption
  PROVE  IDs!Init => IDInv /\ Stamped
  <1> SUFFICES ASSUME IDs!Init PROVE IDInv /\ Stamped
    OBVIOUS
  <1>1. /\ NodeCount \in Nat \ {0} /\ SeqCount \in Nat \ {0} /\ EpochMs \in Nat
        /\ nodeID \in [Nodes -> 0 .. NodeCount - 1]
    BY Zenon DEF IDs!IDAssumption
  <1>2. Stamped
    BY DEF IDs!Init, Stamped
  <1>3. /\ lastMs \in [Nodes -> Nat] /\ sequence \in [Nodes -> 0 .. SeqCount - 1]
        /\ returned \in [Nodes -> Nat] /\ lastID \in [Nodes -> Int]
    BY <1>1 DEF IDs!Init
  <1>4. ASSUME NEW n \in Nodes
        PROVE  IF lastMs[n] < EpochMs
               THEN lastID[n] = -1
               ELSE lastID[n] <= IDs!Layout(lastMs[n] - EpochMs, nodeID[n], sequence[n])
    <2>1. lastMs[n] = 0 /\ lastID[n] = -1 /\ sequence[n] = 0 /\ nodeID[n] \in Nat
      BY <1>1 DEF IDs!Init
    <2>2. nodeID[n] * SeqCount \in Nat
      BY <1>1, <2>1
    <2>3. EpochMs = 0 => IDs!Layout(0, nodeID[n], 0) = nodeID[n] * SeqCount
      BY <1>1, <2>1, <2>2 DEF IDs!Layout
    <2> QED
      BY <1>1, <2>1, <2>2, <2>3
  <1> QED
    BY <1>2, <1>3, <1>4, Zenon DEF IDInv

\* A step of the generators: one call of Next, or none.
LEMMA IDStep ==
  ASSUME IDs!IDAssumption, IDInv, [IDs!Next]_(IDs!vars)
  PROVE  IDInv' /\ (Stamped => Stamped') /\ [IDs!ReturnsLarger]_(IDs!vars)
  <1>1. CASE IDs!Next
    BY <1>1, NextIDKeeps, Zenon DEF IDs!Next
  <1>2. CASE UNCHANGED IDs!vars
    <2>1. UNCHANGED <<lastMs, sequence, returned, lastID, generated>>
      BY <1>2, Zenon DEF IDs!vars
    <2> QED
      BY <1>2, <2>1, Zenon DEF IDInv, Stamped
  <1> QED
    BY <1>1, <1>2, Zenon

\* Next of a generator never returns an id twice nor a smaller one after a larger one,
\* whatever the clock does.
THEOREM GeneratedIdsIncrease ==
  ASSUME IDs!IDAssumption
  PROVE  IDs!Spec => IdsIncrease
  <1>1. IDs!Init => IDInv
    BY IDInit, Zenon
  <1>2. IDInv /\ [IDs!Next]_(IDs!vars) => IDInv' /\ [IDs!ReturnsLarger]_idVars
    BY IDStep, Zenon DEF IDs!vars, idVars
  <1> QED
    BY <1>1, <1>2, PTL DEF IDs!Spec, IdsIncrease

\* Two nodes whose names give them different snowflake node ids share no id.
IdsOfNodesDiffer ==
  \A m, n \in Nodes : nodeID[m] # nodeID[n] => generated[m] \cap generated[n] = {}

\* The generators of nodes with different node ids never return the same id, at whatever
\* time and with whatever sequence they return it.
THEOREM NodesShareNoId ==
  ASSUME IDs!IDAssumption
  PROVE  IDs!Spec => []IdsOfNodesDiffer
  <1>1. IDs!Init => IDInv /\ Stamped
    BY IDInit, Zenon
  <1>2. IDInv /\ Stamped /\ [IDs!Next]_(IDs!vars) => (IDInv /\ Stamped)'
    BY IDStep, Zenon
  <1>3. Stamped => IdsOfNodesDiffer
    <2> SUFFICES ASSUME Stamped, NEW m \in Nodes, NEW n \in Nodes,
                        NEW id \in generated[m], id \in generated[n]
                 PROVE  nodeID[m] = nodeID[n]
      BY Zenon DEF IdsOfNodesDiffer
    <2>1. PICK e \in Nat, s \in 0 .. SeqCount - 1 : id = IDs!Layout(e, nodeID[m], s)
      BY Zenon DEF Stamped
    <2>2. PICK f \in Nat, t \in 0 .. SeqCount - 1 : id = IDs!Layout(f, nodeID[n], t)
      BY Zenon DEF Stamped
    <2>3. /\ NodeCount \in Nat \ {0} /\ SeqCount \in Nat \ {0}
          /\ nodeID[m] \in 0 .. NodeCount - 1 /\ nodeID[n] \in 0 .. NodeCount - 1
      BY DEF IDs!IDAssumption
    <2>4. e * NodeCount + nodeID[m] \in Nat /\ f * NodeCount + nodeID[n] \in Nat
      BY <2>3
    <2>5. (e * NodeCount + nodeID[m]) * SeqCount + s = (f * NodeCount + nodeID[n]) * SeqCount + t
      BY <2>1, <2>2, Zenon DEF IDs!Layout
    <2>6. e * NodeCount + nodeID[m] = f * NodeCount + nodeID[n]
      <3> DEFINE q == e * NodeCount + nodeID[m]
                 r == f * NodeCount + nodeID[n]
      <3>1. q \in Nat /\ r \in Nat /\ q * SeqCount + s = r * SeqCount + t
        BY <2>4, <2>5, Zenon
      <3> HIDE DEF q, r
      <3>2. q = r
        BY <2>3, <3>1, PartsUnique, SMT
      <3> QED
        BY <3>2, Zenon DEF q, r
    <2>7. ASSUME NEW a \in 0 .. NodeCount - 1, NEW b \in 0 .. NodeCount - 1,
                 e * NodeCount + a = f * NodeCount + b
          PROVE  a = b
      <3>1. NodeCount \in Nat \ {0}
        BY <2>3, Zenon
      <3> QED
        BY <2>7, <3>1, PartsUnique, SMT
    <2> QED
      BY <2>3, <2>6, <2>7, Zenon
  <1> QED
    BY <1>1, <1>2, <1>3, PTL DEF IDs!Spec
-----------------------------------------------------------------------------
(* The drain tracker *)

\* How the subsets of a finite set are counted. The lemmas take this as a hypothesis,
\* which the theorems at the end discharge.
CountsBelow(T) ==
  \A S \in SUBSET T :
    /\ Cardinality(S) \in Nat
    /\ Cardinality(S) = 0 <=> S = {}
    /\ \A x : x \notin S => Cardinality(S \cup {x}) = Cardinality(S) + 1
    /\ \A x \in S : Cardinality(S \ {x}) = Cardinality(S) - 1
-----------------------------------------------------------------------------
(* The drain tracker: its inductive invariant *)

InFlight == Drained!Live

DrainTypes ==
  /\ closed \in BOOLEAN /\ zero \in Nat /\ closedCh \in SUBSET Nat
  /\ failures \in Nat /\ durableFailures \in Nat /\ baseline \in Nat /\ baseline <= failures
  /\ status \in [Work -> {"new", "tracked", "running", "reserved", "maintenance", "finished"}]
  /\ failed \in [Work -> BOOLEAN]
  /\ drainer \in [Drainers -> {"idle", "waiting", "drained", "failed", "expired"}]
  /\ waitsFor \in [Drainers -> Nat] /\ inherited \in [Drainers -> SUBSET Work]
  /\ resumed \in [Drainers -> BOOLEAN]

\* d.pending counts the work in flight, and the current zero channel is closed exactly
\* while there is none.
Counted ==
  /\ pending = Cardinality(InFlight)
  /\ zero \in closedCh <=> pending = 0
  /\ \A ch \in closedCh : ch <= zero

\* The work a Drain found in flight has ended, or the Drain holds the current channel.
Held ==
  \A d \in Drainers : \A w \in inherited[d] :
    \/ status[w] = "finished"
    \/ w \in InFlight /\ waitsFor[d] = zero /\ drainer[d] \notin {"drained", "failed"}

\* Unless admission is resumed underneath it, a Drain keeps admission closed, so the
\* baseline of the failures it will report does not move.
Told ==
  /\ \A w \in Work : failed[w] => status[w] = "finished"
  /\ \A d \in Drainers : drainer[d] # "idle" /\ ~resumed[d] =>
       /\ closed
       /\ \A w \in inherited[d] : failed[w] =>
            drainer[d] # "drained" /\ (failures > baseline \/ durableFailures > 0)

DrainInv == DrainTypes /\ Counted /\ Held /\ Told

\* A tracker without work satisfies the invariant.
LEMMA DrainInit ==
  ASSUME CountsBelow(Work)
  PROVE  Drained!Init => DrainInv
  <1> SUFFICES ASSUME Drained!Init PROVE DrainInv
    OBVIOUS
  <1> USE DEF Drained!Init
  <1>1. InFlight = {}
    BY DEF InFlight, Drained!Live
  <1>2. Cardinality({}) = 0
    BY Zenon DEF CountsBelow
  <1>3. DrainTypes
    <2>1. closed \in BOOLEAN
      BY Zenon
    <2>2. /\ zero \in Nat /\ closedCh \in SUBSET Nat
          /\ failures \in Nat /\ durableFailures \in Nat /\ baseline \in Nat /\ baseline <= failures
      BY SMT
    <2>3. /\ status \in [Work -> {"new", "tracked", "running", "reserved", "maintenance", "finished"}]
          /\ drainer \in [Drainers -> {"idle", "waiting", "drained", "failed", "expired"}]
      BY SMT
    <2>4. waitsFor \in [Drainers -> Nat] /\ inherited \in [Drainers -> SUBSET Work]
      BY SMT
    <2>5. failed \in [Work -> BOOLEAN] /\ resumed \in [Drainers -> BOOLEAN]
      BY Zenon
    <2> QED
      BY <2>1, <2>2, <2>3, <2>4, <2>5, Zenon DEF DrainTypes
  <1>4. Counted
    <2>1. pending = Cardinality(InFlight)
      BY <1>1, <1>2, Zenon
    <2>2. zero \in closedCh /\ pending = 0 /\ \A ch \in closedCh : ch <= zero
      BY SMT
    <2> QED
      BY <2>1, <2>2, Zenon DEF Counted
  <1>5. Held /\ Told
    BY DEF Held, Told
  <1> QED
    BY <1>3, <1>4, <1>5, Zenon DEF DrainInv

\* There is no work in flight exactly when none is counted.
LEMMA InFlightCounts ==
  ASSUME CountsBelow(Work)
  PROVE  /\ InFlight \in SUBSET Work /\ Cardinality(InFlight) \in Nat
         /\ Cardinality(InFlight) = 0 <=> InFlight = {}
  <1>1. InFlight \in SUBSET Work
    BY DEF InFlight, Drained!Live
  <1> QED
    BY <1>1, Zenon DEF CountsBelow

\* One more piece of work: the count, and a new channel for the first one.
LEMMA AddCounts ==
  ASSUME CountsBelow(Work), DrainTypes, Counted, Drained!AddPending,
         NEW w \in Work, w \notin InFlight, InFlight' = InFlight \cup {w}
  PROVE  /\ Counted' /\ zero' \in Nat /\ closedCh' = closedCh
         /\ InFlight # {} => zero' = zero
  <1>1. /\ Cardinality(InFlight) \in Nat /\ (Cardinality(InFlight) = 0 <=> InFlight = {})
        /\ Cardinality(InFlight') = Cardinality(InFlight) + 1
    BY InFlightCounts, Zenon DEF CountsBelow
  <1>2. /\ pending = Cardinality(InFlight) /\ (zero \in closedCh <=> pending = 0)
        /\ \A ch \in closedCh : ch <= zero
    BY Zenon DEF Counted
  <1>3. /\ pending' = pending + 1 /\ zero' = IF pending = 0 THEN zero + 1 ELSE zero
        /\ closedCh' = closedCh
    BY Zenon DEF Drained!AddPending
  <1>4. zero \in Nat /\ closedCh \in SUBSET Nat
    BY Zenon DEF DrainTypes
  <1>5. zero' \in Nat /\ zero' \notin closedCh /\ \A ch \in closedCh : ch <= zero'
    BY <1>1, <1>2, <1>3, <1>4
  <1>6. pending' = Cardinality(InFlight') /\ pending' # 0
    BY <1>1, <1>2, <1>3
  <1>7. InFlight # {} => zero' = zero
    BY <1>1, <1>2, <1>3, Zenon
  <1> QED
    BY <1>3, <1>5, <1>6, <1>7, Zenon DEF Counted

\* One piece of work less: the count, and the channel that the last one closes.
LEMMA DoneCounts ==
  ASSUME CountsBelow(Work), DrainTypes, Counted, Drained!DonePending,
         NEW w \in InFlight, InFlight' = InFlight \ {w}
  PROVE  Counted' /\ closedCh' \in SUBSET Nat /\ zero' = zero
  <1>1. /\ Cardinality(InFlight) \in Nat /\ (Cardinality(InFlight) = 0 <=> InFlight = {})
        /\ Cardinality(InFlight') = Cardinality(InFlight) - 1
    BY InFlightCounts, Zenon DEF CountsBelow
  <1>2. /\ pending = Cardinality(InFlight) /\ (zero \in closedCh <=> pending = 0)
        /\ \A ch \in closedCh : ch <= zero
    BY Zenon DEF Counted
  <1>3. /\ pending' = pending - 1 /\ zero' = zero
        /\ closedCh' = IF pending = 1 THEN closedCh \cup {zero} ELSE closedCh
    BY Zenon DEF Drained!DonePending
  <1>4. zero \in Nat /\ closedCh \in SUBSET Nat
    BY Zenon DEF DrainTypes
  <1>5. pending # 0 /\ pending \in Nat /\ pending' = Cardinality(InFlight')
    BY <1>1, <1>2, <1>3
  <1>6. (zero \in closedCh' <=> pending' = 0) /\ (\A ch \in closedCh' : ch <= zero)
    BY <1>2, <1>3, <1>4, <1>5
  <1> QED
    BY <1>3, <1>4, <1>5, <1>6, Zenon DEF Counted

\* New work is admitted: the Drains that wait for older work keep their channel.
LEMMA AdmitKeeps ==
  ASSUME CountsBelow(Work), DrainInv, NEW w \in Work, NEW to \in {"tracked", "reserved", "maintenance"},
         Drained!Move(w, "new", to), Drained!AddPending,
         UNCHANGED <<closed, failures, durableFailures, baseline, failed, drainer, waitsFor, inherited, resumed>>
  PROVE  DrainInv'
  <1>1. status[w] = "new" /\ status' = [status EXCEPT ![w] = to]
    BY Zenon DEF Drained!Move
  <1>2. /\ status' \in [Work -> {"new", "tracked", "running", "reserved", "maintenance", "finished"}]
        /\ \A v \in Work : v # w => status'[v] = status[v]
        /\ status'[w] = to
    BY <1>1 DEF DrainInv, DrainTypes
  <1>3. w \notin InFlight /\ InFlight' = InFlight \cup {w}
    BY <1>1, <1>2 DEF InFlight, Drained!Live
  <1>4. Counted' /\ zero' \in Nat /\ closedCh' = closedCh /\ (InFlight # {} => zero' = zero)
    BY <1>3, AddCounts, Zenon DEF DrainInv
  <1>5. DrainTypes'
    BY <1>2, <1>4, Zenon DEF DrainInv, DrainTypes
  <1>6. Held'
    <2>1. ASSUME NEW d \in Drainers, NEW v \in inherited'[d]
          PROVE  \/ status'[v] = "finished"
                 \/ v \in InFlight' /\ waitsFor'[d] = zero' /\ drainer'[d] \notin {"drained", "failed"}
      <3>1. inherited'[d] = inherited[d] /\ v \in Work
        BY <2>1 DEF DrainInv, DrainTypes
      <3>2. \/ status[v] = "finished"
            \/ v \in InFlight /\ waitsFor[d] = zero /\ drainer[d] \notin {"drained", "failed"}
        BY <2>1, <3>1, Zenon DEF DrainInv, Held
      <3>3. v # w
        BY <1>1, <1>3, <3>2
      <3> QED
        BY <1>2, <1>3, <1>4, <3>1, <3>2, <3>3, Zenon
    <2> QED
      BY <2>1, Zenon DEF Held
  <1>7. Told'
    <2>1. ASSUME NEW v \in Work, failed'[v] PROVE status'[v] = "finished"
      BY <1>1, <1>2, <2>1 DEF DrainInv, Told
    <2> QED
      BY <2>1, Zenon DEF DrainInv, Told
  <1> QED
    BY <1>4, <1>5, <1>6, <1>7, Zenon DEF DrainInv

\* The scheduler starts an activation.
LEMMA ActivateKeeps ==
  ASSUME DrainInv, NEW w \in Work, Drained!Activate(w)
  PROVE  DrainInv'
  <1>1. /\ status[w] = "tracked" /\ status' = [status EXCEPT ![w] = "running"]
        /\ UNCHANGED <<closed, pending, failures, durableFailures, baseline, zero, closedCh, failed,
                       drainer, waitsFor, inherited, resumed>>
    BY Zenon DEF Drained!Activate, Drained!Move, Drained!countVars, Drained!drainVars
  <1>2. /\ status' \in [Work -> {"new", "tracked", "running", "reserved", "maintenance", "finished"}]
        /\ \A v \in Work : v # w => status'[v] = status[v]
        /\ status'[w] = "running"
    BY <1>1 DEF DrainInv, DrainTypes
  <1>3. InFlight' = InFlight
    BY <1>1, <1>2 DEF InFlight, Drained!Live
  <1>4. \A v \in Work : status'[v] = "finished" <=> status[v] = "finished"
    BY <1>1, <1>2
  <1>5. DrainTypes' /\ Counted'
    BY <1>1, <1>2, <1>3, Zenon DEF DrainInv, DrainTypes, Counted
  <1>6. Held'
    <2>1. \A d \in Drainers : inherited[d] \subseteq Work
      BY DEF DrainInv, DrainTypes
    <2> QED
      BY <1>1, <1>3, <1>4, <2>1, Zenon DEF DrainInv, Held
  <1>7. Told'
    BY <1>1, <1>4, Zenon DEF DrainInv, Told
  <1> QED
    BY <1>5, <1>6, <1>7, Zenon DEF DrainInv

\* A piece of work ends: when it is the last one, nobody's work is in flight any more.
LEMMA WorkEndKeeps ==
  ASSUME CountsBelow(Work), DrainInv, NEW w \in Work, Drained!EndWork(w)
  PROVE  DrainInv'
  <1>1. /\ status[w] \in {"tracked", "running", "reserved", "maintenance"}
        /\ status' = [status EXCEPT ![w] = "finished"] /\ Drained!DonePending
        /\ UNCHANGED <<closed, baseline, drainer, waitsFor, inherited, resumed>>
    BY Zenon DEF Drained!EndWork, Drained!FinishTracked, Drained!Finish, Drained!EndMaintenance,
                 Drained!Move, Drained!countVars, Drained!drainVars
  <1>2. PICK err \in BOOLEAN :
          /\ failed' = [failed EXCEPT ![w] = err] \/ (failed' = failed /\ ~err)
          /\ failures' = failures \/ failures' = failures + 1
          /\ durableFailures' = durableFailures \/ durableFailures' = durableFailures + 1
          /\ err => failures' = failures + 1 \/ durableFailures' = durableFailures + 1
    <2>1. ASSUME NEW err \in BOOLEAN, Drained!FinishTracked(w, err) \/ Drained!Finish(w, err)
          PROVE  /\ failed' = [failed EXCEPT ![w] = err]
                 /\ failures' = failures \/ failures' = failures + 1
                 /\ durableFailures' = durableFailures \/ durableFailures' = durableFailures + 1
                 /\ err => failures' = failures + 1 \/ durableFailures' = durableFailures + 1
      BY <2>1 DEF Drained!FinishTracked, Drained!Finish
    <2>2. Drained!EndMaintenance(w) => UNCHANGED <<failed, failures, durableFailures>>
      BY Zenon DEF Drained!EndMaintenance, Drained!countVars
    <2> QED
      BY <2>1, <2>2, Zenon DEF Drained!EndWork
  <1>3. /\ status' \in [Work -> {"new", "tracked", "running", "reserved", "maintenance", "finished"}]
        /\ \A v \in Work : v # w => status'[v] = status[v]
        /\ status'[w] = "finished"
    BY <1>1 DEF DrainInv, DrainTypes
  <1>4. w \in InFlight /\ InFlight' = InFlight \ {w}
    BY <1>1, <1>3 DEF InFlight, Drained!Live
  <1>5. Counted' /\ closedCh' \in SUBSET Nat /\ zero' = zero
    BY <1>1, <1>4, DoneCounts, Zenon DEF DrainInv
  <1>6. /\ failures \in Nat /\ durableFailures \in Nat /\ baseline \in Nat /\ baseline <= failures
        /\ failed \in [Work -> BOOLEAN]
    BY Zenon DEF DrainInv, DrainTypes
  <1>7. /\ failures' \in Nat /\ durableFailures' \in Nat /\ baseline <= failures'
        /\ failures > baseline \/ durableFailures > 0 \/ err =>
             failures' > baseline \/ durableFailures' > 0
    BY <1>2, <1>6
  <1>8. /\ failed' \in [Work -> BOOLEAN] /\ \A v \in Work : v # w => failed'[v] = failed[v]
        /\ failed'[w] => err \/ failed[w]
    BY <1>2, <1>6
  <1>9. DrainTypes'
    BY <1>1, <1>3, <1>5, <1>7, <1>8, Zenon DEF DrainInv, DrainTypes
  <1>10. \A d \in Drainers : inherited[d] \subseteq Work
    BY DEF DrainInv, DrainTypes
  <1>11. Held'
    <2>1. ASSUME NEW d \in Drainers, NEW v \in inherited[d]
          PROVE  \/ status'[v] = "finished"
                 \/ v \in InFlight' /\ waitsFor[d] = zero' /\ drainer[d] \notin {"drained", "failed"}
      <3>1. v \in Work
        BY <1>10, <2>1
      <3>2. \/ status[v] = "finished"
            \/ v \in InFlight /\ waitsFor[d] = zero /\ drainer[d] \notin {"drained", "failed"}
        BY <2>1, Zenon DEF DrainInv, Held
      <3> QED
        BY <1>3, <1>4, <1>5, <3>1, <3>2, Zenon
    <2> QED
      BY <1>1, <2>1, Zenon DEF Held
  <1>12. Told'
    <2>1. ~failed[w]
      BY <1>1 DEF DrainInv, Told
    <2>2. ASSUME NEW v \in Work, failed'[v] PROVE status'[v] = "finished"
      BY <1>3, <1>8, <2>2, Zenon DEF DrainInv, Told
    <2>3. ASSUME NEW d \in Drainers, drainer[d] # "idle", ~resumed[d], NEW v \in inherited[d], failed'[v]
          PROVE  drainer[d] # "drained" /\ (failures' > baseline \/ durableFailures' > 0)
      <3>1. CASE v = w
        <4>1. err
          BY <1>8, <2>1, <2>3, <3>1, Zenon
        <4>2. drainer[d] # "drained"
          BY <1>1, <2>3, <3>1 DEF DrainInv, Held
        <4> QED
          BY <1>7, <4>1, <4>2, Zenon
      <3>2. CASE v # w
        <4>1. failed[v]
          BY <1>8, <1>10, <2>3, <3>2
        <4>2. drainer[d] # "drained" /\ (failures > baseline \/ durableFailures > 0)
          BY <2>3, <4>1, Zenon DEF DrainInv, Told
        <4> QED
          BY <1>7, <4>2, Zenon
      <3> QED
        BY <3>1, <3>2, Zenon
    <2>4. \A d \in Drainers : drainer[d] # "idle" /\ ~resumed[d] => closed
      BY Zenon DEF DrainInv, Told
    <2> QED
      BY <1>1, <2>2, <2>3, <2>4, Zenon DEF Told
  <1> QED
    BY <1>5, <1>9, <1>11, <1>12, Zenon DEF DrainInv

\* Drain and ResumeAdmission move no work.
LEMMA DrainerKeeps ==
  ASSUME CountsBelow(Work), DrainInv,
         \/ Drained!ResumeAdmission
         \/ \E d \in Drainers : Drained!BeginDrain(d) \/ Drained!DrainReturns(d) \/ Drained!DrainExpires(d)
  PROVE  DrainInv'
  <1>1. UNCHANGED <<pending, failures, durableFailures, zero, closedCh, status, failed>>
    BY Zenon DEF Drained!ResumeAdmission, Drained!BeginDrain, Drained!DrainReturns,
                 Drained!DrainExpires, Drained!countVars
  <1>2. InFlight' = InFlight
    BY <1>1, Zenon DEF InFlight, Drained!Live
  <1>3. Counted'
    BY <1>1, <1>2, Zenon DEF DrainInv, Counted
  <1>4. /\ closed \in BOOLEAN /\ failures \in Nat /\ baseline \in Nat /\ baseline <= failures
        /\ zero \in Nat /\ InFlight \in SUBSET Work
        /\ drainer \in [Drainers -> {"idle", "waiting", "drained", "failed", "expired"}]
        /\ waitsFor \in [Drainers -> Nat] /\ inherited \in [Drainers -> SUBSET Work]
        /\ resumed \in [Drainers -> BOOLEAN]
    BY DEF DrainInv, DrainTypes, InFlight, Drained!Live
  <1>5. CASE Drained!ResumeAdmission
    <2>1. /\ closed' = FALSE /\ baseline' = failures /\ resumed' = [d \in Drainers |-> TRUE]
          /\ UNCHANGED <<drainer, waitsFor, inherited>>
      BY <1>5, Zenon DEF Drained!ResumeAdmission
    <2>2. DrainTypes'
      <3>1. baseline' \in Nat /\ baseline' <= failures
        BY <1>4, <2>1
      <3>2. closed' \in BOOLEAN /\ resumed' \in [Drainers -> BOOLEAN]
        BY <2>1, Zenon
      <3> QED
        BY <1>1, <2>1, <3>1, <3>2, Zenon DEF DrainInv, DrainTypes
    <2>3. Held'
      BY <1>1, <1>2, <2>1, Zenon DEF DrainInv, Held
    <2>4. \A d \in Drainers : resumed'[d]
      BY <2>1
    <2>5. Told'
      BY <1>1, <2>4, Zenon DEF DrainInv, Told
    <2> QED
      BY <1>3, <2>2, <2>3, <2>5, Zenon DEF DrainInv
  <1>6. ASSUME NEW d \in Drainers, Drained!BeginDrain(d) PROVE DrainInv'
    <2>1. /\ drainer[d] = "idle" /\ drainer' = [drainer EXCEPT ![d] = "waiting"] /\ closed' = TRUE
          /\ baseline' = IF closed THEN baseline ELSE failures
          /\ waitsFor' = [waitsFor EXCEPT ![d] = zero]
          /\ inherited' = [inherited EXCEPT ![d] = InFlight]
          /\ resumed' = [resumed EXCEPT ![d] = FALSE]
      BY <1>6, Zenon DEF Drained!BeginDrain, InFlight
    <2>2. /\ baseline' \in Nat /\ baseline' <= failures
          /\ drainer' \in [Drainers -> {"idle", "waiting", "drained", "failed", "expired"}]
          /\ waitsFor' \in [Drainers -> Nat] /\ inherited' \in [Drainers -> SUBSET Work]
          /\ resumed' \in [Drainers -> BOOLEAN]
      BY <1>4, <2>1
    <2>3. /\ drainer'[d] = "waiting" /\ waitsFor'[d] = zero /\ inherited'[d] = InFlight
          /\ \A e \in Drainers : e # d =>
               /\ drainer'[e] = drainer[e] /\ waitsFor'[e] = waitsFor[e]
               /\ inherited'[e] = inherited[e] /\ resumed'[e] = resumed[e]
      BY <1>4, <2>1
    <2>4. DrainTypes'
      BY <1>1, <2>1, <2>2, Zenon DEF DrainInv, DrainTypes
    <2>5. ASSUME NEW e \in Drainers, NEW w \in inherited'[e]
          PROVE  \/ status'[w] = "finished"
                 \/ w \in InFlight' /\ waitsFor'[e] = zero' /\ drainer'[e] \notin {"drained", "failed"}
      <3>1. CASE e = d
        BY <1>1, <1>2, <2>3, <2>5, <3>1
      <3>2. CASE e # d
        BY <1>1, <1>2, <2>3, <2>5, <3>2, Zenon DEF DrainInv, Held
      <3> QED
        BY <3>1, <3>2, Zenon
    <2>6. ASSUME NEW e \in Drainers, drainer'[e] # "idle", ~resumed'[e],
                 NEW w \in inherited'[e], failed'[w]
          PROVE  drainer'[e] # "drained" /\ (failures' > baseline' \/ durableFailures' > 0)
      <3>1. CASE e = d
        <4>1. w \in InFlight /\ failed[w]
          BY <1>1, <2>3, <2>6, <3>1, Zenon
        <4>2. w \in Work /\ status[w] # "finished"
          BY <4>1 DEF InFlight, Drained!Live
        <4> QED
          BY <4>1, <4>2, Zenon DEF DrainInv, Told
      <3>2. CASE e # d
        <4>1. /\ closed /\ drainer[e] # "drained" /\ (failures > baseline \/ durableFailures > 0)
          BY <1>1, <2>3, <2>6, <3>2, Zenon DEF DrainInv, Told
        <4> QED
          BY <1>1, <2>1, <2>3, <3>2, <4>1, Zenon
      <3> QED
        BY <3>1, <3>2, Zenon
    <2>7. Held'
      BY <2>5, Zenon DEF Held
    <2>8. Told'
      BY <1>1, <2>1, <2>6, Zenon DEF DrainInv, Told
    <2> QED
      BY <1>3, <2>4, <2>7, <2>8, Zenon DEF DrainInv
  <1>7. ASSUME NEW d \in Drainers, Drained!DrainReturns(d) \/ Drained!DrainExpires(d) PROVE DrainInv'
    <2>1. /\ drainer[d] = "waiting" /\ UNCHANGED <<closed, baseline, waitsFor, inherited, resumed>>
          /\ \/ drainer' = [drainer EXCEPT ![d] = "expired"]
             \/ /\ waitsFor[d] \in closedCh
                /\ drainer' = [drainer EXCEPT ![d] = IF Drained!Failures # 0 THEN "failed" ELSE "drained"]
      BY <1>7, Zenon DEF Drained!DrainReturns, Drained!DrainExpires, Drained!Woken, Drained!countVars
    <2>2. /\ drainer' \in [Drainers -> {"idle", "waiting", "drained", "failed", "expired"}]
          /\ \A e \in Drainers : e # d => drainer'[e] = drainer[e]
          /\ drainer'[d] \in {"drained", "failed"} => waitsFor[d] \in closedCh
          /\ drainer'[d] = "drained" => Drained!Failures = 0
      BY <1>4, <2>1
    <2>3. DrainTypes'
      BY <1>1, <2>1, <2>2, Zenon DEF DrainInv, DrainTypes
    <2>4. waitsFor[d] \in closedCh => \A w \in inherited[d] : status[w] = "finished"
      <3>1. waitsFor[d] = zero /\ zero \in closedCh => InFlight = {}
        BY InFlightCounts, Zenon DEF DrainInv, Counted
      <3> QED
        BY <3>1, Zenon DEF DrainInv, Held
    <2>5. Held'
      <3>1. ASSUME NEW e \in Drainers, NEW w \in inherited[e]
            PROVE  \/ status[w] = "finished"
                   \/ w \in InFlight /\ waitsFor[e] = zero /\ drainer'[e] \notin {"drained", "failed"}
        <4>1. CASE e # d
          BY <2>2, <3>1, <4>1, Zenon DEF DrainInv, Held
        <4>2. CASE e = d /\ waitsFor[d] \in closedCh
          BY <2>4, <3>1, <4>2, Zenon
        <4>3. CASE e = d /\ waitsFor[d] \notin closedCh
          BY <2>2, <3>1, <4>3, Zenon DEF DrainInv, Held
        <4> QED
          BY <4>1, <4>2, <4>3, Zenon
      <3> QED
        BY <1>1, <1>2, <2>1, <3>1, Zenon DEF Held
    <2>6. Told'
      <3>1. ASSUME NEW e \in Drainers, drainer'[e] # "idle", ~resumed[e]
            PROVE  /\ closed
                   /\ \A w \in inherited[e] : failed[w] =>
                        drainer'[e] # "drained" /\ (failures > baseline \/ durableFailures > 0)
        <4>1. CASE e # d
          BY <2>2, <3>1, <4>1, Zenon DEF DrainInv, Told
        <4>2. CASE e = d
          <5>1. closed /\ \A w \in inherited[d] : failed[w] => failures > baseline \/ durableFailures > 0
            BY <2>1, <3>1, <4>2, Zenon DEF DrainInv, Told
          <5>2. Drained!Failures = 0 => ~(failures > baseline \/ durableFailures > 0)
            BY DEF Drained!Failures, DrainInv, DrainTypes
          <5> QED
            BY <2>2, <4>2, <5>1, <5>2, Zenon
        <4> QED
          BY <4>1, <4>2, Zenon
      <3> QED
        BY <1>1, <2>1, <3>1, Zenon DEF DrainInv, Told
    <2> QED
      BY <1>3, <2>3, <2>5, <2>6, Zenon DEF DrainInv
  <1> QED
    BY <1>5, <1>6, <1>7, Zenon

\* Every step of the tracker keeps the invariant.
LEMMA DrainStep ==
  ASSUME CountsBelow(Work), DrainInv, [Drained!Next]_(Drained!vars)
  PROVE  DrainInv'
  <1>1. CASE UNCHANGED Drained!vars
    <2>1. UNCHANGED <<closed, pending, failures, durableFailures, baseline, zero, closedCh, status,
                      failed, drainer, waitsFor, inherited, resumed>>
      BY <1>1, Zenon DEF Drained!vars, Drained!countVars, Drained!drainVars
    <2>2. InFlight' = InFlight
      BY <2>1, Zenon DEF InFlight, Drained!Live
    <2>3. DrainTypes' /\ Counted'
      BY <2>1, <2>2, Zenon DEF DrainInv, DrainTypes, Counted
    <2>4. Held' /\ Told'
      BY <2>1, <2>2, Zenon DEF DrainInv, Held, Told
    <2> QED
      BY <2>3, <2>4, Zenon DEF DrainInv
  <1>2. ASSUME NEW w \in Work,
               \/ \E origin \in Work \cup {None} : Drained!TrackAdmission(w, origin)
               \/ Drained!ReserveWork(w) \/ Drained!BeginMaintenance(w)
        PROVE  DrainInv'
    <2>1. /\ \/ Drained!Move(w, "new", "tracked") \/ Drained!Move(w, "new", "reserved")
             \/ Drained!Move(w, "new", "maintenance")
          /\ Drained!AddPending
          /\ UNCHANGED <<closed, failures, durableFailures, baseline, failed, drainer, waitsFor, inherited,
                         resumed>>
      BY <1>2, Zenon DEF Drained!TrackAdmission, Drained!ReserveWork, Drained!BeginMaintenance,
                         Drained!countVars, Drained!drainVars
    <2> QED
      BY <2>1, AdmitKeeps
  <1>3. ASSUME NEW w \in Work, Drained!Activate(w) PROVE DrainInv'
    BY <1>3, ActivateKeeps, Zenon
  <1>4. ASSUME NEW w \in Work, Drained!EndWork(w) PROVE DrainInv'
    BY <1>4, WorkEndKeeps, Zenon
  <1>5. CASE \/ Drained!ResumeAdmission
             \/ \E d \in Drainers :
                  Drained!BeginDrain(d) \/ Drained!DrainReturns(d) \/ Drained!DrainExpires(d)
    BY <1>5, DrainerKeeps, Zenon
  <1> QED
    BY <1>1, <1>2, <1>3, <1>4, <1>5, Zenon DEF Drained!Next

-----------------------------------------------------------------------------
(* The theorems about the drain tracker *)

INSTANCE FiniteSetTheorems

\* The subsets of a finite set are counted one by one.
LEMMA FiniteCounts ==
  ASSUME NEW T, IsFiniteSet(T)
  PROVE  CountsBelow(T)
  <1>1. ASSUME NEW S \in SUBSET T PROVE IsFiniteSet(S) /\ Cardinality(S) \in Nat
    BY FS_Subset, FS_CardinalityType, Zenon
  <1>2. ASSUME NEW S \in SUBSET T PROVE Cardinality(S) = 0 <=> S = {}
    BY <1>1, FS_EmptySet, Zenon
  <1>3. ASSUME NEW S \in SUBSET T, NEW x, x \notin S
        PROVE  Cardinality(S \cup {x}) = Cardinality(S) + 1
    BY <1>1, <1>3, FS_AddElement, Zenon
  <1>4. ASSUME NEW S \in SUBSET T, NEW x \in S PROVE Cardinality(S \ {x}) = Cardinality(S) - 1
    BY <1>1, <1>4, FS_RemoveElement, Zenon
  <1> QED
    BY <1>1, <1>2, <1>3, <1>4, Zenon DEF CountsBelow

\* The invariant of the tracker holds in every reachable state.
LEMMA DrainInvariance ==
  ASSUME Drained!DrainAssumption
  PROVE  Drained!Spec => []DrainInv
  <1>1. CountsBelow(Work)
    BY FiniteCounts, Zenon DEF Drained!DrainAssumption, Drained!IsFiniteSet, IsFiniteSet
  <1>2. DrainInv /\ [Drained!Next]_(Drained!vars) => DrainInv'
    BY <1>1, DrainStep, Zenon
  <1> QED
    BY <1>1, <1>2, DrainInit, PTL DEF Drained!Spec

\* A Drain that returns has seen the end of the work that was in flight when it closed
\* admission, and one that returns nil has seen none of it fail.
THEOREM DrainsAreHonest ==
  ASSUME Drained!DrainAssumption
  PROVE  Drained!Spec => []DrainIsHonest
  <1>1. DrainInv => DrainIsHonest
    <2> SUFFICES ASSUME DrainInv, NEW d \in Drainers, NEW w \in inherited[d]
                 PROVE  /\ drainer[d] \in {"drained", "failed"} => status[w] = "finished"
                        /\ drainer[d] = "drained" /\ ~resumed[d] => ~failed[w]
      BY Zenon DEF DrainIsHonest, Drained!DrainIsHonest
    <2>1. drainer[d] \in {"drained", "failed"} => status[w] = "finished"
      BY Zenon DEF DrainInv, Held
    <2>2. drainer[d] = "drained" /\ ~resumed[d] => ~failed[w]
      BY DEF DrainInv, Told
    <2> QED
      BY <2>1, <2>2, Zenon
  <1> QED
    BY <1>1, DrainInvariance, PTL

\* With admission closed and nothing in flight only MaintenanceWork adds work.
THEOREM DrainedIsQuiet ==
  ASSUME Drained!DrainAssumption
  PROVE  Drained!Spec => DrainedStaysQuiet
  <1>1. ASSUME DrainInv, Drained!Next, closed, pending = 0 PROVE Drained!OnlyMaintenance
    <2>1. InFlight = {}
      <3>1. CountsBelow(Work)
        BY FiniteCounts, Zenon DEF Drained!DrainAssumption, Drained!IsFiniteSet, IsFiniteSet
      <3> QED
        BY <1>1, <3>1, InFlightCounts, Zenon DEF DrainInv, Counted
    <2>2. status \in [Work -> {"new", "tracked", "running", "reserved", "maintenance", "finished"}]
      BY <1>1, Zenon DEF DrainInv, DrainTypes
    <2>3. \A w \in Work : status[w] \notin {"tracked", "running", "reserved", "maintenance"}
      BY <2>1 DEF InFlight, Drained!Live
    <2>4. Drained!Permitted = {}
      BY <2>3 DEF Drained!Permitted
    <2>5. ASSUME NEW w \in Work
          PROVE  /\ \A origin : ~ Drained!TrackAdmission(w, origin)
                 /\ ~ Drained!Activate(w) /\ ~ Drained!ReserveWork(w) /\ ~ Drained!EndWork(w)
      <3>1. \A origin : ~ Drained!TrackAdmission(w, origin)
        BY <1>1, <2>4, Zenon DEF Drained!TrackAdmission
      <3>2. ~ Drained!ReserveWork(w)
        BY <1>1, Zenon DEF Drained!ReserveWork, Drained!MayReserve
      <3>3. ~ Drained!Activate(w) /\ ~ Drained!EndWork(w)
        BY <2>3, Zenon DEF Drained!Activate, Drained!EndWork, Drained!FinishTracked, Drained!Finish,
                           Drained!EndMaintenance, Drained!Move
      <3> QED
        BY <3>1, <3>2, <3>3, Zenon
    <2>6. status' = status \/ \E w \in Work : status' = [status EXCEPT ![w] = "maintenance"]
      <3>1. ASSUME NEW w \in Work, Drained!BeginMaintenance(w)
            PROVE  status' = [status EXCEPT ![w] = "maintenance"]
        BY <3>1, Zenon DEF Drained!BeginMaintenance, Drained!Move
      <3>2. ASSUME NEW d \in Drainers, \/ Drained!BeginDrain(d) \/ Drained!DrainReturns(d)
                                       \/ Drained!DrainExpires(d)
            PROVE  status' = status
        BY <3>2, Zenon DEF Drained!BeginDrain, Drained!DrainReturns, Drained!DrainExpires
      <3>3. Drained!ResumeAdmission => status' = status
        BY Zenon DEF Drained!ResumeAdmission
      <3> QED
        BY <1>1, <2>5, <3>1, <3>2, <3>3, Zenon DEF Drained!Next
    <2> QED
      BY <2>2, <2>6 DEF Drained!OnlyMaintenance
  <1>2. DrainInv /\ [Drained!Next]_(Drained!vars) =>
          [closed /\ pending = 0 => Drained!OnlyMaintenance]_drainVars
    BY <1>1, Zenon DEF drainVars, Drained!vars, Drained!countVars, Drained!drainVars
  <1> QED
    BY <1>2, DrainInvariance, PTL DEF Drained!Spec, DrainedStaysQuiet
=============================================================================
