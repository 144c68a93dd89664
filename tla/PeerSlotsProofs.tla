-------------------------- MODULE PeerSlotsProofs ---------------------------
(***************************************************************************)
(* What holds of the slot in which a cluster node keeps the sender to a    *)
(* peer, for every number of callers, connection attempts and reloads.     *)
(***************************************************************************)
EXTENDS Integers, FiniteSets, ClusterSlots, TLAPS
-----------------------------------------------------------------------------
(* The slots of a remote node: the inductive invariant *)

SlotType ==
  [peer : Dials \cup {None}, endpoint : Endpoints \cup {None}, connecting : Dials \cup {None},
   state : {"disconnected", "connecting", "ready", "backoff", "closing"}, backoff : BOOLEAN]

SlotTypes ==
  /\ slot \in [SlotIds -> SlotType] /\ inMap \in SlotIds \cup {None}
  /\ dial \in [Dials -> {"free", "new", "dialing", "connected", "failed", "discard", "done"}]
  /\ peer \in [Dials -> {"none", "open", "done", "closed"}]
  /\ dialFor \in [Dials -> [slot : SlotIds \cup {None}, endpoint : Endpoints \cup {None}]]
  /\ endpoint \in Endpoints \cup {None}
  /\ reloadCloses \in Dials \cup {None} /\ stopCloses \in Dials \cup {None}

CallerTypes ==
  /\ callerPc \in [Callers -> {"idle", "endpoint", "slot", "loop", "spawn", "wait", "ok", "failed"}]
  /\ want \in [Callers -> Endpoints \cup {None}] /\ at \in [Callers -> SlotIds \cup {None}]
  /\ waits \in [Callers -> Dials \cup {None}]

\* Reload and Stop hold the peer they close until it is closed.
Managers ==
  /\ reload # "close" => reloadCloses = None
  /\ stop # "close" => stopCloses = None
  /\ stop # "idle" => stopping

\* No caller is inside peerFor during Reload.  Once it has read the registry its address
\* is the current one, and its slot is the slot of the map unless Stop has detached that.
CallersKnow ==
  /\ reload # "idle" => \A c \in Callers : callerPc[c] \in {"idle", "ok", "failed"}
  /\ \A c \in Callers :
       /\ callerPc[c] \in {"slot", "loop", "spawn", "wait"} => want[c] = endpoint /\ endpoint # None
       /\ callerPc[c] \in {"loop", "spawn", "wait"} =>
            at[c] \in SlotIds /\ (at[c] = inMap \/ stop \notin {"idle", "detach"})

\* An announced attempt belongs to the one caller that is about to start it.
Announced ==
  \A c \in Callers : callerPc[c] = "spawn" =>
    /\ waits[c] \in Dials /\ dial[waits[c]] = "new" /\ dialFor[waits[c]].slot = at[c]
    /\ \A b \in Callers : callerPc[b] = "spawn" /\ waits[b] = waits[c] => b = c

\* The attempt a slot waits for is under way for that slot, which has no peer.
Attempts ==
  \A s \in SlotIds : slot[s].connecting # None =>
    /\ dial[slot[s].connecting] \in {"new", "dialing", "connected", "failed"}
    /\ dialFor[slot[s].connecting].slot = s /\ slot[s].peer = None

\* Only the slot of the map has a peer, or is given one by a goroutine that dials.
InTheMap ==
  \A s \in SlotIds :
    /\ slot[s].peer # None => s = inMap
    /\ slot[s].connecting # None /\ slot[s].state # "closing" /\ dial[slot[s].connecting] # "new"
         => s = inMap

\* Until Reload detaches it, the slot of the map is for the address of the registry.
Current ==
  /\ endpoint = None /\ reload # "detach" => inMap = None
  /\ inMap # None /\ reload # "detach" =>
       /\ slot[inMap].peer # None => dialFor[slot[inMap].peer].endpoint = endpoint
       /\ slot[inMap].connecting # None => dialFor[slot[inMap].connecting].endpoint = endpoint

\* There is no peer before the handshake, and no attempt without a slot.
NoPeerYet ==
  \A d \in Dials :
    /\ dial[d] \in {"free", "new", "dialing", "failed"} => peer[d] = "none"
    /\ dial[d] # "free" => dialFor[d].slot \in SlotIds

SlotInv ==
  /\ SlotTypes /\ CallerTypes /\ Managers /\ CallersKnow /\ Announced
  /\ Attempts /\ InTheMap /\ Current /\ NoPeerYet /\ Slots!NoPeerLost

\* A node without a connection satisfies the invariant.
LEMMA SlotInit == Slots!Init => SlotInv
  <1> SUFFICES ASSUME Slots!Init PROVE SlotInv
    OBVIOUS
  <1>1. \A s \in SlotIds : slot[s].peer = None /\ slot[s].connecting = None
    BY DEF Slots!Init, Slots!NewSlot
  <1>2. SlotTypes
    <2>1. slot \in [SlotIds -> SlotType]
      <3>1. Slots!NewSlot \in SlotType
        BY DEF Slots!NewSlot, SlotType
      <3>2. slot = [s \in SlotIds |-> Slots!NewSlot]
        BY Zenon DEF Slots!Init
      <3> QED
        BY <3>1, <3>2, Zenon
    <2>2. dialFor \in [Dials -> [slot : SlotIds \cup {None}, endpoint : Endpoints \cup {None}]]
      BY DEF Slots!Init
    <2>3. /\ inMap = None /\ reloadCloses = None /\ stopCloses = None /\ endpoint \in Endpoints
          /\ dial = [d \in Dials |-> "free"] /\ peer = [d \in Dials |-> "none"]
      BY Zenon DEF Slots!Init
    <2> QED
      BY <2>1, <2>2, <2>3 DEF SlotTypes
  <1>3. CallerTypes /\ Managers /\ CallersKnow /\ Announced
    BY DEF Slots!Init, CallerTypes, Managers, CallersKnow, Announced
  <1>4. Attempts /\ InTheMap
    BY <1>1, Zenon DEF Attempts, InTheMap
  <1>5. Current /\ NoPeerYet /\ Slots!NoPeerLost
    BY DEF Slots!Init, Current, NoPeerYet, Slots!NoPeerLost
  <1> QED
    BY <1>2, <1>3, <1>4, <1>5, Zenon DEF SlotInv

\* A caller moves on without touching a slot.
LEMMA CallerMoves ==
  ASSUME SlotInv, NEW c \in Callers, CallerTypes', CallersKnow',
         UNCHANGED <<endpoint, stopping, inMap, slot, dial, dialFor, peer, reload, reloadCloses,
                     stop, stopCloses>>,
         callerPc'[c] # "spawn",
         \A b \in Callers : b # c => callerPc'[b] = callerPc[b] /\ at'[b] = at[b] /\ waits'[b] = waits[b]
  PROVE  SlotInv'
  <1>1. SlotTypes' /\ Managers' /\ Attempts' /\ InTheMap' /\ Current' /\ NoPeerYet'
    BY Zenon DEF SlotInv, SlotTypes, Managers, Attempts, InTheMap, Current, NoPeerYet
  <1>2. Slots!NoPeerLost'
    BY Zenon DEF SlotInv, Slots!NoPeerLost
  <1>3. Announced'
    <2>1. Announced
      BY Zenon DEF SlotInv
    <2> QED
      BY <2>1 DEF Announced
  <1> QED
    BY <1>1, <1>2, <1>3, Zenon DEF SlotInv

\* What a return of peerFor does to the callers.
LEMMA ReturnIs ==
  ASSUME CallerTypes, CallersKnow, NEW c \in Callers, NEW result \in {"ok", "failed", "endpoint"},
         Slots!Return(c, result), UNCHANGED <<endpoint, inMap, reload, stop>>,
         result = "endpoint" => reload = "idle"
  PROVE  /\ CallerTypes' /\ CallersKnow' /\ callerPc'[c] # "spawn"
         /\ \A b \in Callers : b # c => callerPc'[b] = callerPc[b] /\ at'[b] = at[b] /\ waits'[b] = waits[b]
  <1>1. /\ callerPc' = [callerPc EXCEPT ![c] = result] /\ want' = [want EXCEPT ![c] = None]
        /\ at' = [at EXCEPT ![c] = None] /\ waits' = [waits EXCEPT ![c] = None]
    BY Zenon DEF Slots!Return
  <1>2. CallerTypes'
    BY <1>1 DEF CallerTypes
  <1>3. /\ callerPc'[c] = result
        /\ \A b \in Callers : b # c => /\ callerPc'[b] = callerPc[b] /\ want'[b] = want[b]
                                       /\ at'[b] = at[b] /\ waits'[b] = waits[b]
    BY <1>1, Zenon DEF CallerTypes
  <1>4. CallersKnow'
    BY <1>3 DEF CallersKnow
  <1> QED
    BY <1>2, <1>3, <1>4

\* peerFor begins, reads the registry, uses a peer, is woken or gives up.
LEMMA MoveKeeps ==
  ASSUME SlotInv, NEW c \in Callers,
         \/ Slots!BeginPeerFor(c) \/ Slots!ReadEndpoint(c) \/ Slots!UsePeer(c)
         \/ Slots!Woken(c) \/ Slots!GiveUp(c)
  PROVE  SlotInv'
  <1>t. CallerTypes /\ CallersKnow
    BY Zenon DEF SlotInv
  <1>0. UNCHANGED <<endpoint, stopping, inMap, slot, dial, dialFor, peer, reload, reloadCloses,
                    stop, stopCloses>>
    <2> USE DEF Slots!dialVars, Slots!reloadVars, Slots!stopVars
    <2>1. CASE Slots!BeginPeerFor(c) \/ Slots!ReadEndpoint(c)
      BY <2>1, Zenon DEF Slots!BeginPeerFor, Slots!ReadEndpoint
    <2>2. CASE Slots!UsePeer(c) \/ Slots!Woken(c) \/ Slots!GiveUp(c)
      BY <2>2, Zenon DEF Slots!UsePeer, Slots!Woken, Slots!GiveUp
    <2> QED
      BY <2>1, <2>2, Zenon
  <1>1. ASSUME NEW result \in {"ok", "failed", "endpoint"}, Slots!Return(c, result),
               result = "endpoint" => reload = "idle"
        PROVE  SlotInv'
    <2>1. /\ CallerTypes' /\ CallersKnow' /\ callerPc'[c] # "spawn"
          /\ \A b \in Callers : b # c => callerPc'[b] = callerPc[b] /\ at'[b] = at[b] /\ waits'[b] = waits[b]
      BY <1>t, <1>0, <1>1, ReturnIs, Zenon
    <2> QED
      BY <1>0, <2>1, CallerMoves, Zenon
  <1>2. CASE Slots!BeginPeerFor(c)
    <2>1. reload = "idle" /\ (Slots!Return(c, "failed") \/ Slots!Return(c, "endpoint"))
      BY <1>2 DEF Slots!BeginPeerFor, Slots!MuFree
    <2> QED
      BY <1>1, <2>1, Zenon
  <1>3. CASE Slots!UsePeer(c) \/ Slots!GiveUp(c)
    <2>1. Slots!Return(c, "ok") \/ Slots!Return(c, "failed")
      BY <1>3, Zenon DEF Slots!UsePeer, Slots!GiveUp
    <2> QED
      BY <1>1, <2>1, Zenon
  <1>4. CASE Slots!ReadEndpoint(c)
    <2>1. /\ callerPc[c] = "endpoint"
          /\ callerPc' = [callerPc EXCEPT ![c] = IF endpoint = None THEN "failed" ELSE "slot"]
          /\ want' = [want EXCEPT ![c] = endpoint] /\ UNCHANGED <<at, waits>>
      BY <1>4, Zenon DEF Slots!ReadEndpoint
    <2>2. /\ callerPc'[c] = (IF endpoint = None THEN "failed" ELSE "slot") /\ want'[c] = endpoint
          /\ \A b \in Callers : b # c => callerPc'[b] = callerPc[b] /\ want'[b] = want[b]
      BY <1>t, <2>1 DEF CallerTypes
    <2>3. CallerTypes'
      <3>1. endpoint \in Endpoints \cup {None}
        BY Zenon DEF SlotInv, SlotTypes
      <3> QED
        BY <1>t, <2>1, <3>1 DEF CallerTypes
    <2>4. CallersKnow'
      BY <1>0, <1>t, <2>1, <2>2 DEF CallersKnow
    <2>5. callerPc'[c] # "spawn"
      BY <2>2
    <2> QED
      BY <1>0, <2>1, <2>2, <2>3, <2>4, <2>5, CallerMoves, Zenon
  <1>5. CASE Slots!Woken(c)
    <2>1. /\ callerPc[c] = "wait" /\ callerPc' = [callerPc EXCEPT ![c] = "loop"]
          /\ waits' = [waits EXCEPT ![c] = None] /\ UNCHANGED <<at, want>>
      BY <1>5, Zenon DEF Slots!Woken
    <2>2. /\ callerPc'[c] = "loop"
          /\ \A b \in Callers : b # c => callerPc'[b] = callerPc[b] /\ waits'[b] = waits[b]
      BY <1>t, <2>1 DEF CallerTypes
    <2>3. CallerTypes'
      BY <1>t, <2>1 DEF CallerTypes
    <2>4. CallersKnow'
      BY <1>0, <1>t, <2>1, <2>2 DEF CallersKnow
    <2>5. callerPc'[c] # "spawn"
      BY <2>2
    <2> QED
      BY <1>0, <2>1, <2>2, <2>3, <2>4, <2>5, CallerMoves, Zenon
  <1> QED
    BY <1>2, <1>3, <1>4, <1>5, Zenon

\* A slot after a closed peer has been dropped from it.
LEMMA ReapedIs ==
  ASSUME SlotTypes, NEW s \in SlotIds
  PROVE  /\ Slots!Reaped(s) \in SlotType
         /\ Slots!Reaped(s).connecting = slot[s].connecting
         /\ \/ Slots!Reaped(s).peer = slot[s].peer /\ Slots!Reaped(s).state = slot[s].state
            \/ Slots!Reaped(s).peer = None /\ peer[slot[s].peer] \in {"done", "closed"}
         /\ slot[s].peer # None /\ peer[slot[s].peer] \in {"done", "closed"} => Slots!Reaped(s).peer = None
         /\ Slots!Reaped(s).peer # None => Slots!Reaped(s).peer = slot[s].peer
         /\ slot[s].peer = None =>
              Slots!Reaped(s).peer = None /\ Slots!Reaped(s).state = slot[s].state
  <1>1. slot[s] \in SlotType
    BY Zenon DEF SlotTypes
  <1>2. CASE slot[s].peer # None /\ Slots!IsClosed(slot[s].peer)
    <2>1. Slots!Reaped(s) = [slot[s] EXCEPT !.peer = None, !.state = "backoff",
                                            !.backoff = IF slot[s].state = "backoff" THEN slot[s].backoff ELSE TRUE]
      BY <1>2, Zenon DEF Slots!Reaped
    <2> QED
      BY <1>1, <1>2, <2>1, Zenon DEF SlotType, Slots!IsClosed
  <1>3. CASE ~(slot[s].peer # None /\ Slots!IsClosed(slot[s].peer))
    <2>1. Slots!Reaped(s) = slot[s]
      BY <1>3, Zenon DEF Slots!Reaped
    <2> QED
      BY <1>1, <1>3, <2>1, Zenon DEF Slots!IsClosed
  <1> QED
    BY <1>2, <1>3, Zenon

\* Dropping a closed peer from a slot keeps what the invariant says about the slots.
LEMMA ReapKeeps ==
  ASSUME SlotInv, NEW s \in SlotIds, slot' = [slot EXCEPT ![s] = Slots!Reaped(s)],
         UNCHANGED <<endpoint, inMap, dial, dialFor, peer, reload, reloadCloses, stopCloses>>
  PROVE  SlotTypes' /\ Attempts' /\ InTheMap' /\ Current' /\ NoPeerYet' /\ Slots!NoPeerLost'
  <1>t. SlotTypes /\ Attempts /\ InTheMap /\ Current /\ NoPeerYet /\ Slots!NoPeerLost
    BY Zenon DEF SlotInv
  <1>0. slot \in [SlotIds -> SlotType]
    BY <1>t, Zenon DEF SlotTypes
  <1>1. /\ Slots!Reaped(s) \in SlotType
        /\ Slots!Reaped(s).connecting = slot[s].connecting
        /\ \/ Slots!Reaped(s).peer = slot[s].peer /\ Slots!Reaped(s).state = slot[s].state
           \/ Slots!Reaped(s).peer = None /\ peer[slot[s].peer] \in {"done", "closed"}
        /\ Slots!Reaped(s).peer # None => Slots!Reaped(s).peer = slot[s].peer
        /\ slot[s].peer = None =>
             Slots!Reaped(s).peer = None /\ Slots!Reaped(s).state = slot[s].state
    BY <1>t, ReapedIs, Zenon
  <1>2. slot' \in [SlotIds -> SlotType] /\ slot'[s] = Slots!Reaped(s)
    BY <1>0, <1>1, Zenon
  <1>3. \A x \in SlotIds : x # s => slot'[x] = slot[x]
    BY <1>0, Zenon
  <1>4. SlotTypes' /\ NoPeerYet'
    BY <1>t, <1>2, Zenon DEF SlotTypes, NoPeerYet
  <1>5. Attempts'
    <2> SUFFICES ASSUME NEW x \in SlotIds, slot'[x].connecting # None
                 PROVE  /\ dial[slot'[x].connecting] \in {"new", "dialing", "connected", "failed"}
                        /\ dialFor[slot'[x].connecting].slot = x /\ slot'[x].peer = None
      BY Zenon DEF Attempts
    <2>1. slot'[x].connecting = slot[x].connecting /\ (slot[x].peer = None => slot'[x].peer = None)
      BY <1>1, <1>2, <1>3, Zenon
    <2> QED
      BY <1>t, <2>1, Zenon DEF Attempts
  <1>6. InTheMap'
    <2>1. ASSUME NEW x \in SlotIds, slot'[x].peer # None PROVE x = inMap
      BY <1>t, <1>1, <1>2, <1>3, <2>1, Zenon DEF InTheMap
    <2>2. ASSUME NEW x \in SlotIds, slot'[x].connecting # None, slot'[x].state # "closing",
                 dial[slot'[x].connecting] # "new"
          PROVE  x = inMap
      <3>1. slot'[x].connecting = slot[x].connecting
        BY <1>1, <1>2, <1>3, Zenon
      <3>2. slot[x].peer = None
        BY <1>t, <2>2, <3>1, Zenon DEF Attempts
      <3>3. slot'[x].state = slot[x].state
        BY <1>1, <1>2, <1>3, <3>2, Zenon
      <3> QED
        BY <1>t, <2>2, <3>1, <3>3, Zenon DEF InTheMap
    <2> QED
      BY <2>1, <2>2, Zenon DEF InTheMap
  <1>7. Current'
    <2>1. ASSUME inMap # None
          PROVE  slot'[inMap].connecting = slot[inMap].connecting
                 /\ (slot'[inMap].peer # None => slot'[inMap].peer = slot[inMap].peer)
      <3>1. inMap \in SlotIds
        BY <1>t, <2>1, Zenon DEF SlotTypes
      <3> QED
        BY <1>1, <1>2, <1>3, <3>1, Zenon
    <2> QED
      BY <1>t, <2>1, Zenon DEF Current
  <1>8. Slots!NoPeerLost'
    <2> SUFFICES ASSUME NEW d \in Dials, peer[d] = "open", dial[d] = "done",
                        d \notin {reloadCloses, stopCloses}
                 PROVE  inMap # None /\ slot'[inMap].peer = d
      BY Zenon DEF Slots!NoPeerLost
    <2>1. inMap # None /\ slot[inMap].peer = d
      BY <1>t, Zenon DEF Slots!NoPeerLost
    <2>2. inMap \in SlotIds
      BY <1>t, <2>1, Zenon DEF SlotTypes
    <2> QED
      BY <1>1, <1>2, <1>3, <2>1, <2>2
  <1> QED
    BY <1>4, <1>5, <1>6, <1>7, <1>8, Zenon

\* peerFor drops a closed peer and waits for the attempt under way, or fails.
LEMMA WaitKeeps ==
  ASSUME SlotInv, NEW c \in Callers, Slots!WaitConnecting(c) \/ Slots!FailBackoff(c)
  PROVE  SlotInv'
  <1>t. SlotTypes /\ CallerTypes /\ CallersKnow /\ Managers /\ Announced
    BY Zenon DEF SlotInv
  <1>1. /\ UNCHANGED <<endpoint, stopping, inMap, dial, dialFor, peer, reload, reloadCloses, stop,
                       stopCloses>>
        /\ callerPc[c] = "loop" /\ slot' = [slot EXCEPT ![at[c]] = Slots!Reaped(at[c])]
        /\ \/ Slots!Return(c, "failed")
           \/ /\ callerPc' = [callerPc EXCEPT ![c] = "wait"]
              /\ waits' = [waits EXCEPT ![c] = slot[at[c]].connecting] /\ UNCHANGED <<want, at>>
    <2> USE DEF Slots!dialVars, Slots!reloadVars, Slots!stopVars
    <2>1. CASE Slots!WaitConnecting(c)
      BY <2>1, Zenon DEF Slots!WaitConnecting
    <2>2. CASE Slots!FailBackoff(c)
      BY <2>2, Zenon DEF Slots!FailBackoff
    <2> QED
      BY <2>1, <2>2, Zenon
  <1>2. at[c] \in SlotIds
    BY <1>t, <1>1 DEF CallersKnow
  <1>3. SlotTypes' /\ Attempts' /\ InTheMap' /\ Current' /\ NoPeerYet' /\ Slots!NoPeerLost'
    BY <1>1, <1>2, ReapKeeps, Zenon
  <1>4. /\ CallerTypes' /\ CallersKnow' /\ callerPc'[c] # "spawn"
        /\ \A b \in Callers : b # c => callerPc'[b] = callerPc[b] /\ at'[b] = at[b] /\ waits'[b] = waits[b]
    <2>1. CASE Slots!Return(c, "failed")
      BY <1>t, <1>1, <2>1, ReturnIs, Zenon
    <2>2. CASE /\ callerPc' = [callerPc EXCEPT ![c] = "wait"]
               /\ waits' = [waits EXCEPT ![c] = slot[at[c]].connecting] /\ UNCHANGED <<want, at>>
      <3>1. slot[at[c]].connecting \in Dials \cup {None}
        BY <1>t, <1>2 DEF SlotTypes, SlotType
      <3>2. CallerTypes'
        BY <1>t, <2>2, <3>1 DEF CallerTypes
      <3>3. /\ callerPc'[c] = "wait"
            /\ \A b \in Callers : b # c => callerPc'[b] = callerPc[b] /\ waits'[b] = waits[b]
        BY <1>t, <2>2 DEF CallerTypes
      <3>4. CallersKnow'
        BY <1>t, <1>1, <2>2, <3>3 DEF CallersKnow
      <3> QED
        BY <2>2, <3>2, <3>3, <3>4
    <2> QED
      BY <1>1, <2>1, <2>2, Zenon
  <1>5. Announced'
    BY <1>t, <1>1, <1>4 DEF Announced
  <1>6. Managers'
    BY <1>t, <1>1, Zenon DEF Managers
  <1> QED
    BY <1>3, <1>4, <1>5, <1>6, Zenon DEF SlotInv

\* peerManager.slot: the slot of the map, or a new one.
LEMMA TakeKeeps ==
  ASSUME None \notin SlotIds, SlotInv, NEW c \in Callers, Slots!TakeSlot(c)
  PROVE  SlotInv'
  <1>t. /\ SlotTypes /\ CallerTypes /\ CallersKnow /\ Managers /\ Announced
        /\ Attempts /\ InTheMap /\ Current /\ NoPeerYet /\ Slots!NoPeerLost
    BY Zenon DEF SlotInv
  <1>1. /\ UNCHANGED <<endpoint, stopping, dial, dialFor, peer, want, waits, reload, reloadCloses, stop,
                       stopCloses>>
        /\ callerPc[c] = "slot" /\ callerPc' = [callerPc EXCEPT ![c] = "loop"]
    BY Zenon DEF Slots!TakeSlot, Slots!dialVars, Slots!reloadVars, Slots!stopVars
  <1>2. PICK s \in SlotIds :
          /\ inMap' = s /\ at' = [at EXCEPT ![c] = s]
          /\ \/ inMap = s /\ slot' = slot
             \/ inMap = None /\ slot' = [slot EXCEPT ![s] = Slots!NewSlot]
    <2>1. inMap \in SlotIds \cup {None}
      BY <1>t, Zenon DEF SlotTypes
    <2> QED
      BY <2>1, Zenon DEF Slots!TakeSlot, Slots!FreeSlots
  <1>3. /\ callerPc'[c] = "loop" /\ at'[c] = s
        /\ \A b \in Callers : b # c => callerPc'[b] = callerPc[b] /\ at'[b] = at[b]
    BY <1>t, <1>1, <1>2 DEF CallerTypes
  <1>4. CallerTypes'
    BY <1>t, <1>1, <1>2 DEF CallerTypes
  <1>5. CallersKnow'
    <2>1. ASSUME NEW b \in Callers
          PROVE  /\ callerPc'[b] \in {"slot", "loop", "spawn", "wait"} => want[b] = endpoint /\ endpoint # None
                 /\ callerPc'[b] \in {"loop", "spawn", "wait"} =>
                      at'[b] \in SlotIds /\ (at'[b] = s \/ stop \notin {"idle", "detach"})
      <3>1. CASE b = c
        BY <1>t, <1>1, <1>3, <3>1 DEF CallersKnow
      <3>2. CASE b # c
        <4>1. at[b] = inMap /\ at[b] \in SlotIds => at[b] = s
          BY <1>2
        <4> QED
          BY <1>t, <1>3, <3>2, <4>1 DEF CallersKnow
      <3> QED
        BY <3>1, <3>2, Zenon
    <2>2. reload = "idle"
      BY <1>t, <1>1 DEF CallersKnow
    <2> QED
      BY <1>1, <1>2, <2>1, <2>2 DEF CallersKnow
  <1>6. Announced'
    BY <1>t, <1>1, <1>3 DEF Announced
  <1>7. Managers' /\ NoPeerYet'
    BY <1>t, <1>1, Zenon DEF Managers, NoPeerYet
  <1>8. CASE inMap = s /\ slot' = slot
    <2>1. SlotTypes' /\ Attempts' /\ InTheMap' /\ Current' /\ Slots!NoPeerLost'
      BY <1>t, <1>1, <1>2, <1>8, Zenon DEF SlotTypes, Attempts, InTheMap, Current, Slots!NoPeerLost
    <2> QED
      BY <1>4, <1>5, <1>6, <1>7, <2>1, Zenon DEF SlotInv
  <1>9. CASE inMap = None /\ slot' = [slot EXCEPT ![s] = Slots!NewSlot]
    <2>1. Slots!NewSlot \in SlotType /\ Slots!NewSlot.peer = None /\ Slots!NewSlot.connecting = None
      BY DEF Slots!NewSlot, SlotType
    <2>2. /\ slot' \in [SlotIds -> SlotType] /\ slot'[s].peer = None /\ slot'[s].connecting = None
          /\ \A x \in SlotIds : x # s => slot'[x] = slot[x]
      BY <1>t, <1>9, <2>1, Zenon DEF SlotTypes
    <2>3. SlotTypes'
      BY <1>t, <1>1, <1>2, <2>2, Zenon DEF SlotTypes
    <2>4. Attempts'
      BY <1>t, <1>1, <2>2, Zenon DEF Attempts
    <2>5. InTheMap'
      <3>1. \A x \in SlotIds : x # None
        OBVIOUS
      <3> QED
        BY <1>t, <1>1, <1>2, <1>9, <2>2, <3>1, Zenon DEF InTheMap
    <2>6. Current'
      <3>1. endpoint # None
        BY <1>t, <1>1 DEF CallersKnow
      <3> QED
        BY <1>1, <1>2, <2>2, <3>1, Zenon DEF Current
    <2>7. Slots!NoPeerLost'
      BY <1>t, <1>1, <1>9, Zenon DEF Slots!NoPeerLost
    <2> QED
      BY <1>4, <1>5, <1>6, <1>7, <2>3, <2>4, <2>5, <2>6, <2>7, Zenon DEF SlotInv
  <1> QED
    BY <1>2, <1>8, <1>9, Zenon

\* peerFor announces an attempt for its slot, which has no peer then.
LEMMA AnnounceKeeps ==
  ASSUME None \notin SlotIds \cup Dials, SlotInv, NEW c \in Callers, Slots!Announce(c)
  PROVE  SlotInv'
  <1>t. /\ SlotTypes /\ CallerTypes /\ CallersKnow /\ Managers /\ Announced
        /\ Attempts /\ InTheMap /\ Current /\ NoPeerYet /\ Slots!NoPeerLost
    BY Zenon DEF SlotInv
  <1> DEFINE a == at[c]
  <1>1. /\ UNCHANGED <<endpoint, stopping, inMap, want, at, reload, reloadCloses, stop, stopCloses>>
        /\ callerPc[c] = "loop" /\ callerPc' = [callerPc EXCEPT ![c] = "spawn"]
        /\ ~Slots!Usable(a, want[c])
    BY Zenon DEF Slots!Announce, Slots!reloadVars, Slots!stopVars
  <1>2. PICK d \in Slots!FreeDials :
          /\ slot' = [slot EXCEPT ![a] =
               [Slots!Reaped(a) EXCEPT !.connecting = d, !.state = "connecting", !.endpoint = want[c]]]
          /\ dial' = [dial EXCEPT ![d] = "new"] /\ peer' = [peer EXCEPT ![d] = "none"]
          /\ dialFor' = [dialFor EXCEPT ![d] = [slot |-> a, endpoint |-> want[c]]]
          /\ waits' = [waits EXCEPT ![c] = d]
    BY Zenon DEF Slots!Announce
  <1>3. /\ d \in Dials /\ dial[d] \in {"free", "done"} /\ d # None
        /\ \A s \in SlotIds : slot[s].peer # d
        /\ \A b \in Callers : waits[b] # d
    BY Zenon DEF Slots!FreeDials
  <1>4. a \in SlotIds /\ want[c] = endpoint /\ endpoint \in Endpoints \cup {None} /\ reload = "idle"
    <2>1. a \in SlotIds /\ want[c] = endpoint
      BY <1>t, <1>1 DEF CallersKnow
    <2>2. reload = "idle"
      BY <1>t, <1>1 DEF CallersKnow
    <2> QED
      BY <1>t, <2>1, <2>2, Zenon DEF SlotTypes
  <1>5. slot[a].peer # None => peer[slot[a].peer] \in {"done", "closed"}
    <2> SUFFICES ASSUME slot[a].peer # None PROVE peer[slot[a].peer] \in {"done", "closed"}
      OBVIOUS
    <2>1. inMap = a /\ inMap # None
      BY <1>t, <1>4, Zenon DEF InTheMap
    <2>2. dialFor[slot[a].peer].endpoint = want[c]
      BY <1>t, <1>4, <2>1 DEF Current
    <2> QED
      BY <1>1, <2>2, Zenon DEF Slots!Usable, Slots!IsClosed
  <1>6. Slots!Reaped(a) \in SlotType /\ Slots!Reaped(a).peer = None
    BY <1>t, <1>4, <1>5, ReapedIs, Zenon
  <1> HIDE DEF a
  <1>7. /\ slot' \in [SlotIds -> SlotType]
        /\ slot'[a].peer = None /\ slot'[a].connecting = d
        /\ \A x \in SlotIds : x # a => slot'[x] = slot[x]
    <2> DEFINE new == [Slots!Reaped(a) EXCEPT !.connecting = d, !.state = "connecting", !.endpoint = want[c]]
    <2>1. new \in SlotType /\ new.peer = None /\ new.connecting = d
      <3> DEFINE r == Slots!Reaped(a)
      <3>1. r \in SlotType /\ r.peer = None
        BY <1>6, Zenon
      <3> HIDE DEF r
      <3>2. LET m == [r EXCEPT !.connecting = d, !.state = "connecting", !.endpoint = want[c]]
            IN  m \in SlotType /\ m.peer = None /\ m.connecting = d
        BY <1>3, <1>4, <3>1, Zenon DEF SlotType
      <3> QED
        BY <3>2, Zenon DEF r
    <2>2. slot' = [slot EXCEPT ![a] = new] /\ slot \in [SlotIds -> SlotType]
      BY <1>t, <1>2, Zenon DEF SlotTypes
    <2> HIDE DEF new
    <2> QED
      BY <1>4, <2>1, <2>2, Zenon
  <1>8. /\ dial' \in [Dials -> {"free", "new", "dialing", "connected", "failed", "discard", "done"}]
        /\ dial'[d] = "new" /\ \A e \in Dials : e # d => dial'[e] = dial[e]
    BY <1>t, <1>2, <1>3 DEF SlotTypes
  <1>9. /\ peer' \in [Dials -> {"none", "open", "done", "closed"}]
        /\ peer'[d] = "none" /\ \A e \in Dials : e # d => peer'[e] = peer[e]
    BY <1>t, <1>2, <1>3 DEF SlotTypes
  <1>10. /\ dialFor' \in [Dials -> [slot : SlotIds \cup {None}, endpoint : Endpoints \cup {None}]]
         /\ dialFor'[d].slot = a /\ dialFor'[d].endpoint = endpoint
         /\ \A e \in Dials : e # d => dialFor'[e] = dialFor[e]
    BY <1>t, <1>2, <1>3, <1>4 DEF SlotTypes
  <1>11. /\ callerPc'[c] = "spawn" /\ waits'[c] = d
         /\ \A b \in Callers : b # c => callerPc'[b] = callerPc[b] /\ waits'[b] = waits[b]
    BY <1>t, <1>1, <1>2 DEF CallerTypes
  <1>12. SlotTypes'
    BY <1>t, <1>1, <1>7, <1>8, <1>9, <1>10, Zenon DEF SlotTypes
  <1>13. CallerTypes'
    BY <1>t, <1>1, <1>2, <1>3 DEF CallerTypes
  <1>14. CallersKnow' /\ Managers'
    <2>1. Managers'
      BY <1>t, <1>1, Zenon DEF Managers
    <2>2. CallersKnow'
      BY <1>t, <1>1, <1>4, <1>11 DEF CallersKnow
    <2> QED
      BY <2>1, <2>2, Zenon
  <1>15. Announced'
    <2>1. ASSUME NEW b \in Callers, callerPc'[b] = "spawn", b # c
          PROVE  /\ waits'[b] = waits[b] /\ waits[b] \in Dials /\ waits[b] # d /\ callerPc[b] = "spawn"
                 /\ dial'[waits[b]] = "new" /\ dialFor'[waits[b]].slot = at[b]
      <3>1. waits'[b] = waits[b] /\ callerPc[b] = "spawn" /\ waits[b] # d
        BY <1>3, <1>11, <2>1
      <3>2. waits[b] \in Dials /\ dial[waits[b]] = "new" /\ dialFor[waits[b]].slot = at[b]
        BY <1>t, <3>1, Zenon DEF Announced
      <3> QED
        BY <1>8, <1>10, <3>1, <3>2
    <2>2. ASSUME NEW b \in Callers, callerPc'[b] = "spawn"
          PROVE  /\ waits'[b] \in Dials /\ dial'[waits'[b]] = "new" /\ dialFor'[waits'[b]].slot = at[b]
                 /\ \A e \in Callers : callerPc'[e] = "spawn" /\ waits'[e] = waits'[b] => e = b
      <3>1. CASE b = c
        <4>1. waits'[b] = d /\ \A e \in Callers : callerPc'[e] = "spawn" /\ waits'[e] = d => e = b
          BY <1>11, <2>1, <3>1, Zenon
        <4>2. dialFor'[d].slot = at[b]
          BY <1>10, <3>1, Zenon DEF a
        <4> QED
          BY <1>3, <1>8, <4>1, <4>2
      <3>2. CASE b # c
        <4>1. /\ waits'[b] = waits[b] /\ waits[b] \in Dials /\ waits[b] # d /\ callerPc[b] = "spawn"
              /\ dial'[waits[b]] = "new" /\ dialFor'[waits[b]].slot = at[b]
          BY <2>1, <2>2, <3>2, Zenon
        <4>2. ASSUME NEW e \in Callers, callerPc'[e] = "spawn", waits'[e] = waits[b] PROVE e = b
          <5>1. e # c
            BY <1>11, <4>1, <4>2, Zenon
          <5>2. callerPc[e] = "spawn" /\ waits[e] = waits[b]
            BY <2>1, <4>2, <5>1, Zenon
          <5> QED
            BY <1>t, <4>1, <5>2, Zenon DEF Announced
        <4> QED
          BY <4>1, <4>2
      <3> QED
        BY <3>1, <3>2, Zenon
    <2> QED
      BY <1>1, <2>2, Zenon DEF Announced
  <1>16. \A x \in SlotIds : slot[x].connecting # d /\ (slot[x].connecting # None => slot[x].connecting \in Dials)
    <2>1. ASSUME NEW x \in SlotIds PROVE slot[x].connecting \in Dials \cup {None}
      BY <1>t, <2>1 DEF SlotTypes, SlotType
    <2>2. ASSUME NEW x \in SlotIds PROVE slot[x].connecting # d
      BY <1>t, <1>3 DEF Attempts
    <2> QED
      BY <2>1, <2>2, Zenon
  <1>17. Attempts'
    <2> SUFFICES ASSUME NEW x \in SlotIds, slot'[x].connecting # None
                 PROVE  /\ dial'[slot'[x].connecting] \in {"new", "dialing", "connected", "failed"}
                        /\ dialFor'[slot'[x].connecting].slot = x /\ slot'[x].peer = None
      BY Zenon DEF Attempts
    <2>1. CASE x = a
      BY <1>7, <1>8, <1>10, <2>1
    <2>2. CASE x # a
      <3>1. /\ slot'[x] = slot[x] /\ slot[x].connecting # None
            /\ slot[x].connecting \in Dials /\ slot[x].connecting # d
        BY <1>7, <1>16, <2>2, Zenon
      <3> QED
        <4>1. /\ dial'[slot[x].connecting] = dial[slot[x].connecting]
              /\ dialFor'[slot[x].connecting] = dialFor[slot[x].connecting]
          BY <1>8, <1>10, <3>1, Zenon
        <4>2. /\ dial[slot[x].connecting] \in {"new", "dialing", "connected", "failed"}
              /\ dialFor[slot[x].connecting].slot = x /\ slot[x].peer = None
          BY <1>t, <3>1, Zenon DEF Attempts
        <4> QED
          BY <3>1, <4>1, <4>2
    <2> QED
      BY <2>1, <2>2, Zenon
  <1>18. InTheMap'
    <2> SUFFICES ASSUME NEW x \in SlotIds
                 PROVE  /\ slot'[x].peer # None => x = inMap
                        /\ slot'[x].connecting # None /\ slot'[x].state # "closing"
                             /\ dial'[slot'[x].connecting] # "new" => x = inMap
      BY <1>1, Zenon DEF InTheMap
    <2>1. CASE x = a
      BY <1>7, <1>8, <2>1, Zenon
    <2>2. CASE x # a
      <3>1. slot'[x] = slot[x] /\ (slot[x].connecting # None => dial'[slot[x].connecting] = dial[slot[x].connecting])
        BY <1>7, <1>8, <1>16, <2>2, Zenon
      <3> QED
        BY <1>t, <3>1, Zenon DEF InTheMap
    <2> QED
      BY <2>1, <2>2, Zenon
  <1>19. Current'
    <2>1. endpoint # None
      BY <1>t, <1>1 DEF CallersKnow
    <2> SUFFICES ASSUME inMap # None
                 PROVE  /\ slot'[inMap].peer # None => dialFor'[slot'[inMap].peer].endpoint = endpoint
                        /\ slot'[inMap].connecting # None =>
                             dialFor'[slot'[inMap].connecting].endpoint = endpoint
      BY <1>1, <2>1, Zenon DEF Current
    <2>2. inMap \in SlotIds
      BY <1>t, Zenon DEF SlotTypes
    <2>3. CASE inMap = a
      BY <1>7, <1>10, <2>3
    <2>4. CASE inMap # a
      <3>1. slot'[inMap] = slot[inMap] /\ slot[inMap].peer # d /\ slot[inMap].connecting # d
        BY <1>3, <1>7, <1>16, <2>2, <2>4, Zenon
      <3>2. slot[inMap].peer \in Dials \cup {None} /\ slot[inMap].connecting \in Dials \cup {None}
        BY <1>t, <2>2 DEF SlotTypes, SlotType
      <3>3. /\ slot[inMap].peer # None => dialFor'[slot[inMap].peer] = dialFor[slot[inMap].peer]
            /\ slot[inMap].connecting # None => dialFor'[slot[inMap].connecting] = dialFor[slot[inMap].connecting]
        BY <1>10, <3>1, <3>2, Zenon
      <3> QED
        BY <1>t, <1>4, <3>1, <3>3 DEF Current
    <2> QED
      BY <2>3, <2>4, Zenon
  <1>20. NoPeerYet'
    BY <1>t, <1>4, <1>8, <1>9, <1>10 DEF NoPeerYet
  <1>21. Slots!NoPeerLost'
    <2> SUFFICES ASSUME NEW e \in Dials, peer'[e] = "open", dial'[e] = "done",
                        e \notin {reloadCloses, stopCloses}
                 PROVE  inMap # None /\ slot'[inMap].peer = e
      BY <1>1, Zenon DEF Slots!NoPeerLost
    <2>1. peer[e] = "open" /\ dial[e] = "done"
      BY <1>8, <1>9
    <2>2. inMap # None /\ slot[inMap].peer = e
      BY <1>t, <2>1, Zenon DEF Slots!NoPeerLost
    <2>3. inMap # a /\ inMap \in SlotIds
      <3>1. e # None
        OBVIOUS
      <3> QED
        BY <1>t, <1>5, <2>1, <2>2, <3>1 DEF SlotTypes, a
    <2> QED
      BY <1>7, <2>2, <2>3, Zenon
  <1> QED
    BY <1>12, <1>13, <1>14, <1>15, <1>17, <1>18, <1>19, <1>20, <1>21, Zenon DEF SlotInv

\* The attempt is started, or withdrawn because the node is stopping.
LEMMA SpawnKeeps ==
  ASSUME None \notin SlotIds \cup Dials, SlotInv, NEW c \in Callers, Slots!Spawn(c)
  PROVE  SlotInv'
  <1>t. /\ SlotTypes /\ CallerTypes /\ CallersKnow /\ Managers /\ Announced
        /\ Attempts /\ InTheMap /\ Current /\ NoPeerYet /\ Slots!NoPeerLost
    BY Zenon DEF SlotInv
  <1> DEFINE a == at[c]
             d == waits[c]
  <1>1. /\ UNCHANGED <<endpoint, stopping, inMap, dialFor, peer, reload, reloadCloses, stop, stopCloses>>
        /\ callerPc[c] = "spawn"
        /\ \/ /\ slot' = IF slot[a].connecting = d
                         THEN [slot EXCEPT ![a].connecting = None, ![a].state = "closing"]
                         ELSE slot
              /\ dial' = [dial EXCEPT ![d] = "done"] /\ Slots!Return(c, "failed")
           \/ /\ ~stopping
              /\ dial' = [dial EXCEPT ![d] = "dialing"] /\ callerPc' = [callerPc EXCEPT ![c] = "wait"]
              /\ UNCHANGED <<slot, want, at, waits>>
    BY Zenon DEF Slots!Spawn, Slots!reloadVars, Slots!stopVars
  <1>2. /\ a \in SlotIds /\ d \in Dials /\ dial[d] = "new" /\ dialFor[d].slot = a /\ peer[d] = "none"
        /\ \A b \in Callers : callerPc[b] = "spawn" /\ waits[b] = d => b = c
    <2>1. /\ d \in Dials /\ dial[d] = "new" /\ dialFor[d].slot = a
          /\ \A b \in Callers : callerPc[b] = "spawn" /\ waits[b] = d => b = c
      BY <1>t, <1>1, Zenon DEF Announced
    <2>2. a \in SlotIds
      BY <1>t, <1>1 DEF CallersKnow
    <2>3. peer[d] = "none"
      BY <1>t, <2>1 DEF NoPeerYet
    <2> QED
      BY <2>1, <2>2, <2>3, Zenon
  <1>3. \A x \in SlotIds : slot[x].connecting = d => x = a
    <2>1. d # None
      BY <1>2
    <2> QED
      BY <1>t, <1>2, <2>1, Zenon DEF Attempts
  <1>4. \A x \in SlotIds : slot[x] \in SlotType /\ slot[x].connecting \in Dials \cup {None}
    <2>1. \A x \in SlotIds : slot[x] \in SlotType
      BY <1>t, Zenon DEF SlotTypes
    <2> QED
      BY <2>1 DEF SlotType
  <1> HIDE DEF a, d
  <1>5. /\ dial' \in [Dials -> {"free", "new", "dialing", "connected", "failed", "discard", "done"}]
        /\ dial'[d] \in {"done", "dialing"} /\ \A e \in Dials : e # d => dial'[e] = dial[e]
    BY <1>t, <1>1, <1>2 DEF SlotTypes
  <1>6. Managers' /\ NoPeerYet'
    <2>1. Managers'
      BY <1>t, <1>1, Zenon DEF Managers
    <2>2. NoPeerYet'
      <3>1. \A e \in Dials : e # d => dial'[e] = dial[e] /\ peer'[e] = peer[e] /\ dialFor'[e] = dialFor[e]
        BY <1>1, <1>5, Zenon
      <3>2. peer'[d] = "none" /\ dialFor'[d].slot \in SlotIds
        BY <1>1, <1>2
      <3> QED
        BY <1>t, <3>1, <3>2 DEF NoPeerYet
    <2> QED
      BY <2>1, <2>2, Zenon
  <1>7. ASSUME callerPc'[c] # "spawn",
               \A b \in Callers : b # c => callerPc'[b] = callerPc[b] /\ at'[b] = at[b] /\ waits'[b] = waits[b]
        PROVE  Announced'
    <2> SUFFICES ASSUME NEW b \in Callers, callerPc'[b] = "spawn"
                 PROVE  /\ waits'[b] \in Dials /\ dial'[waits'[b]] = "new"
                        /\ dialFor'[waits'[b]].slot = at'[b]
                        /\ \A e \in Callers : callerPc'[e] = "spawn" /\ waits'[e] = waits'[b] => e = b
      BY Zenon DEF Announced
    <2>1. b # c /\ callerPc[b] = "spawn" /\ waits'[b] = waits[b] /\ at'[b] = at[b]
      BY <1>7, Zenon
    <2>2. /\ waits[b] \in Dials /\ dial[waits[b]] = "new" /\ dialFor[waits[b]].slot = at[b]
          /\ \A e \in Callers : callerPc[e] = "spawn" /\ waits[e] = waits[b] => e = b
      BY <1>t, <2>1, Zenon DEF Announced
    <2>3. dial'[waits[b]] = "new"
      <3>1. waits[b] # d
        BY <1>2, <2>1, Zenon
      <3> QED
        BY <1>5, <2>2, <3>1
    <2>4. ASSUME NEW e \in Callers, callerPc'[e] = "spawn", waits'[e] = waits[b] PROVE e = b
      BY <1>7, <2>2, <2>4, Zenon
    <2> QED
      BY <1>1, <2>1, <2>2, <2>3, <2>4
  <1>8. CASE /\ slot' = IF slot[a].connecting = d
                        THEN [slot EXCEPT ![a].connecting = None, ![a].state = "closing"]
                        ELSE slot
             /\ dial' = [dial EXCEPT ![d] = "done"] /\ Slots!Return(c, "failed")
    <2>1. /\ CallerTypes' /\ CallersKnow' /\ callerPc'[c] # "spawn"
          /\ \A b \in Callers : b # c => callerPc'[b] = callerPc[b] /\ at'[b] = at[b] /\ waits'[b] = waits[b]
      BY <1>t, <1>1, <1>8, ReturnIs, Zenon
    <2>2. Announced'
      BY <1>7, <2>1, Zenon
    <2>3. /\ slot' \in [SlotIds -> SlotType]
          /\ slot'[a].peer = slot[a].peer /\ slot'[a].connecting # d
          /\ slot'[a].connecting = None \/ slot'[a] = slot[a]
          /\ \A x \in SlotIds : x # a => slot'[x] = slot[x]
      <3>0. slot \in [SlotIds -> SlotType]
        BY <1>t, Zenon DEF SlotTypes
      <3>1. CASE slot[a].connecting = d
        <4> DEFINE new == [slot[a] EXCEPT !.connecting = None, !.state = "closing"]
        <4>1. new \in SlotType /\ new.peer = slot[a].peer /\ new.connecting = None
          BY <1>2, <1>4, Zenon DEF SlotType
        <4>2. slot' = [slot EXCEPT ![a] = new]
          BY <1>2, <1>8, <3>0, <3>1, Zenon
        <4>3. d # None
          BY <1>2
        <4> HIDE DEF new
        <4> QED
          BY <1>2, <3>0, <4>1, <4>2, <4>3, Zenon
      <3>2. CASE slot[a].connecting # d
        BY <1>8, <3>0, <3>2, Zenon
      <3> QED
        BY <3>1, <3>2, Zenon
    <2>4. SlotTypes'
      BY <1>t, <1>1, <1>5, <2>3, Zenon DEF SlotTypes
    <2>5. \A x \in SlotIds : /\ slot'[x].peer = slot[x].peer
                             /\ slot'[x].connecting # None => slot'[x] = slot[x] /\ slot[x].connecting # d
      BY <1>3, <2>3, Zenon
    <2>6. Attempts' /\ InTheMap'
      <3> SUFFICES ASSUME NEW x \in SlotIds, slot'[x].connecting # None
                   PROVE  /\ dial'[slot'[x].connecting] \in {"new", "dialing", "connected", "failed"}
                          /\ dialFor'[slot'[x].connecting].slot = x /\ slot'[x].peer = None
                          /\ slot'[x].state # "closing" /\ dial'[slot'[x].connecting] # "new" => x = inMap
        BY <1>t, <1>1, <2>5, Zenon DEF Attempts, InTheMap
      <3>1. slot'[x] = slot[x] /\ slot[x].connecting # d /\ slot[x].connecting \in Dials
        BY <1>4, <2>5, Zenon
      <3>2. dial'[slot[x].connecting] = dial[slot[x].connecting] /\ slot[x].connecting # None
        BY <1>5, <3>1, Zenon
      <3> QED
        BY <1>t, <1>1, <3>1, <3>2 DEF Attempts, InTheMap
    <2>7. Current'
      <3>1. inMap # None => inMap \in SlotIds
        BY <1>t, Zenon DEF SlotTypes
      <3> QED
        BY <1>t, <1>1, <2>5, <3>1, Zenon DEF Current
    <2>8. Slots!NoPeerLost'
      <3> SUFFICES ASSUME NEW e \in Dials, peer[e] = "open", dial'[e] = "done",
                          e \notin {reloadCloses, stopCloses}
                   PROVE  inMap # None /\ slot'[inMap].peer = e
        BY <1>1, Zenon DEF Slots!NoPeerLost
      <3>1. dial[e] = "done"
        BY <1>2, <1>5
      <3>2. inMap # None /\ slot[inMap].peer = e
        BY <1>t, <3>1, Zenon DEF Slots!NoPeerLost
      <3>3. inMap \in SlotIds
        BY <1>t, <3>2, Zenon DEF SlotTypes
      <3> QED
        BY <2>5, <3>2, <3>3, Zenon
    <2> QED
      BY <1>6, <2>1, <2>2, <2>4, <2>6, <2>7, <2>8, Zenon DEF SlotInv
  <1>9. CASE /\ ~stopping
             /\ dial' = [dial EXCEPT ![d] = "dialing"] /\ callerPc' = [callerPc EXCEPT ![c] = "wait"]
             /\ UNCHANGED <<slot, want, at, waits>>
    <2>1. /\ callerPc'[c] = "wait" /\ \A b \in Callers : b # c => callerPc'[b] = callerPc[b]
      BY <1>t, <1>9 DEF CallerTypes
    <2>2. Announced'
      BY <1>7, <1>9, <2>1
    <2>3. CallerTypes'
      BY <1>t, <1>9 DEF CallerTypes
    <2>4. CallersKnow'
      BY <1>t, <1>1, <1>9, <2>1 DEF CallersKnow
    <2>5. a = inMap
      BY <1>t, <1>1, <1>9 DEF CallersKnow, Managers, a
    <2>6. dial'[d] = "dialing"
      BY <1>t, <1>2, <1>9 DEF SlotTypes
    <2>7. SlotTypes' /\ Current'
      BY <1>t, <1>1, <1>5, <1>9, Zenon DEF SlotTypes, Current
    <2>8. Attempts' /\ InTheMap'
      <3>1. ASSUME NEW x \in SlotIds, slot[x].connecting # None
            PROVE  /\ dial'[slot[x].connecting] \in {"new", "dialing", "connected", "failed"}
                   /\ slot[x].state # "closing" /\ dial'[slot[x].connecting] # "new" => x = inMap
        <4>1. CASE slot[x].connecting = d
          BY <1>3, <2>5, <2>6, <4>1
        <4>2. CASE slot[x].connecting # d
          <5>1. dial'[slot[x].connecting] = dial[slot[x].connecting]
            BY <1>4, <1>5, <3>1, <4>2, Zenon
          <5> QED
            BY <1>t, <3>1, <5>1, Zenon DEF Attempts, InTheMap
        <4> QED
          BY <4>1, <4>2, Zenon
      <3>2. slot' = slot /\ dialFor' = dialFor /\ inMap' = inMap
        BY <1>1, <1>9, Zenon
      <3>3. Attempts'
        BY <1>t, <3>1, <3>2, Zenon DEF Attempts
      <3>4. InTheMap'
        BY <1>t, <3>1, <3>2, Zenon DEF InTheMap
      <3> QED
        BY <3>3, <3>4, Zenon
    <2>9. Slots!NoPeerLost'
      <3>1. \A e \in Dials : dial'[e] = "done" => dial[e] = "done"
        BY <1>5, <2>6
      <3> QED
        BY <1>t, <1>1, <1>9, <3>1, Zenon DEF Slots!NoPeerLost
    <2> QED
      BY <1>6, <2>2, <2>3, <2>4, <2>7, <2>8, <2>9, Zenon DEF SlotInv
  <1> QED
    BY <1>1, <1>8, <1>9, Zenon DEF a, d

\* A connection goroutine or a peer moves on without touching a slot.
LEMMA DialMoves ==
  ASSUME SlotInv, NEW d \in Dials,
         UNCHANGED <<endpoint, stopping, inMap, slot, dialFor, callerPc, want, at, waits, reload,
                     reloadCloses, stop, stopCloses>>,
         dial' \in [Dials -> {"free", "new", "dialing", "connected", "failed", "discard", "done"}],
         peer' \in [Dials -> {"none", "open", "done", "closed"}],
         \A e \in Dials : e # d => dial'[e] = dial[e] /\ peer'[e] = peer[e],
         dial'[d] = "new" <=> dial[d] = "new", dial[d] = "free" => dial'[d] = "free",
         dial[d] \in {"dialing", "connected", "failed"} => dial'[d] \in {"dialing", "connected", "failed"},
         dial'[d] \in {"free", "new", "dialing", "failed"} => peer'[d] = "none",
         peer'[d] = "open" /\ dial'[d] = "done" => peer[d] = "open" /\ dial[d] = "done"
  PROVE  SlotInv'
  <1>t. /\ SlotTypes /\ CallerTypes /\ CallersKnow /\ Managers /\ Announced
        /\ Attempts /\ InTheMap /\ Current /\ NoPeerYet /\ Slots!NoPeerLost
    BY Zenon DEF SlotInv
  <1>1. SlotTypes' /\ CallerTypes' /\ Managers' /\ Current'
    BY <1>t, Zenon DEF SlotTypes, CallerTypes, Managers, Current
  <1>2. CallersKnow'
    BY <1>t, Zenon DEF CallersKnow
  <1>3. \A e \in Dials : dial'[e] = "new" <=> dial[e] = "new"
    OBVIOUS
  <1>4. Announced'
    <2>1. Announced /\ UNCHANGED <<callerPc, waits, at, dialFor>>
      BY <1>t, Zenon
    <2> QED
      BY <1>3, <2>1 DEF Announced
  <1>5. \A e \in Dials : dial[e] \in {"new", "dialing", "connected", "failed"}
                           => dial'[e] \in {"new", "dialing", "connected", "failed"}
    OBVIOUS
  <1>6. \A x \in SlotIds : slot[x].connecting # None => slot[x].connecting \in Dials
    BY <1>t DEF SlotTypes, SlotType
  <1>7. Attempts'
    BY <1>t, <1>5, <1>6, Zenon DEF Attempts
  <1>8. InTheMap'
    BY <1>t, <1>3, <1>6, Zenon DEF InTheMap
  <1>9. NoPeerYet'
    BY <1>t DEF NoPeerYet
  <1>10. Slots!NoPeerLost'
    <2>1. \A e \in Dials : peer'[e] = "open" /\ dial'[e] = "done" => peer[e] = "open" /\ dial[e] = "done"
      BY Zenon
    <2> QED
      BY <1>t, <2>1, Zenon DEF Slots!NoPeerLost
  <1> QED
    BY <1>1, <1>2, <1>4, <1>7, <1>8, <1>9, <1>10, Zenon DEF SlotInv

\* dialPeer, the discard of an unwanted peer and the beginning of a close.
LEMMA GoroutineKeeps ==
  ASSUME SlotInv, NEW d \in Dials,
         \/ \E up \in BOOLEAN : Slots!DialPeer(d, up)
         \/ Slots!Discard(d) \/ Slots!PeerDone(d) \/ Slots!ClosePeer(d)
  PROVE  SlotInv'
  <1>t. /\ dial \in [Dials -> {"free", "new", "dialing", "connected", "failed", "discard", "done"}]
        /\ peer \in [Dials -> {"none", "open", "done", "closed"}]
    BY Zenon DEF SlotInv, SlotTypes
  <1>n. dial[d] \in {"free", "new", "dialing", "failed"} => peer[d] = "none"
    BY Zenon DEF SlotInv, NoPeerYet
  <1>1. UNCHANGED <<endpoint, stopping, inMap, slot, dialFor, callerPc, want, at, waits, reload,
                    reloadCloses, stop, stopCloses>>
    <2> USE DEF Slots!callerVars, Slots!reloadVars, Slots!stopVars
    <2>1. CASE Slots!Discard(d) \/ Slots!PeerDone(d) \/ Slots!ClosePeer(d)
      BY <2>1, Zenon DEF Slots!Discard, Slots!PeerDone, Slots!ClosePeer
    <2>2. ASSUME NEW up \in BOOLEAN, Slots!DialPeer(d, up)
          PROVE  UNCHANGED <<endpoint, stopping, inMap, slot, dialFor, callerPc, want, at, waits, reload,
                             reloadCloses, stop, stopCloses>>
      BY <2>2, Zenon DEF Slots!DialPeer
    <2> QED
      BY <2>1, <2>2, Zenon
  <1>2. ASSUME NEW from, NEW to \in {"connected", "failed", "done"},
               NEW p \in {"none", "open", "done", "closed"},
               dial[d] = from, from # "free", from # "new",
               dial' = [dial EXCEPT ![d] = to], peer' = [peer EXCEPT ![d] = p],
               to = "done" => from = "discard" /\ p # "open", to = "failed" => p = "none"
        PROVE  SlotInv'
    <2>1. /\ dial' \in [Dials -> {"free", "new", "dialing", "connected", "failed", "discard", "done"}]
          /\ dial'[d] = to /\ \A e \in Dials : e # d => dial'[e] = dial[e]
      BY <1>t, <1>2
    <2>2. /\ peer' \in [Dials -> {"none", "open", "done", "closed"}]
          /\ peer'[d] = p /\ \A e \in Dials : e # d => peer'[e] = peer[e]
      BY <1>t, <1>2
    <2> QED
      BY <1>1, <1>2, <2>1, <2>2, DialMoves
  <1>3. ASSUME NEW up \in BOOLEAN, Slots!DialPeer(d, up) PROVE SlotInv'
    <2>1. /\ dial[d] = "dialing"
          /\ \/ dial' = [dial EXCEPT ![d] = "connected"] /\ peer' = [peer EXCEPT ![d] = "open"]
             \/ dial' = [dial EXCEPT ![d] = "failed"] /\ peer' = [peer EXCEPT ![d] = "none"]
      BY <1>3, Zenon DEF Slots!DialPeer
    <2> QED
      BY <1>2, <2>1, Zenon
  <1>4. CASE Slots!Discard(d)
    <2>1. /\ dial[d] = "discard" /\ dial' = [dial EXCEPT ![d] = "done"]
          /\ peer' = [peer EXCEPT ![d] = IF peer[d] = "open" THEN "closed" ELSE peer[d]]
      BY <1>4 DEF Slots!Discard
    <2>2. /\ (IF peer[d] = "open" THEN "closed" ELSE peer[d]) \in {"none", "open", "done", "closed"}
          /\ (IF peer[d] = "open" THEN "closed" ELSE peer[d]) # "open"
      BY <1>t
    <2> QED
      BY <1>2, <2>1, <2>2, Zenon
  <1>5. CASE Slots!PeerDone(d) \/ Slots!ClosePeer(d)
    <2>1. peer[d] = "open" /\ dial' = dial /\ peer' = [peer EXCEPT ![d] = "done"]
      BY <1>5, Zenon DEF Slots!PeerDone, Slots!ClosePeer
    <2>2. /\ peer' \in [Dials -> {"none", "open", "done", "closed"}]
          /\ peer'[d] = "done" /\ \A e \in Dials : e # d => peer'[e] = peer[e]
      BY <1>t, <2>1
    <2> QED
      BY <1>t, <1>n, <1>1, <2>1, <2>2, DialMoves
  <1> QED
    BY <1>3, <1>4, <1>5, Zenon

\* connectSlot: an attempt that was overtaken is discarded; any other one was for the
\* slot of the map, which gets the peer.
LEMMA ConnectKeeps ==
  ASSUME None \notin SlotIds \cup Dials, SlotInv, NEW d \in Dials, Slots!ConnectSlot(d)
  PROVE  SlotInv'
  <1>t. /\ SlotTypes /\ CallerTypes /\ CallersKnow /\ Managers /\ Announced
        /\ Attempts /\ InTheMap /\ Current /\ NoPeerYet /\ Slots!NoPeerLost
    BY Zenon DEF SlotInv
  <1> DEFINE s == dialFor[d].slot
  <1>1. /\ UNCHANGED <<endpoint, stopping, inMap, dialFor, peer, callerPc, want, at, waits, reload,
                       reloadCloses, stop, stopCloses>>
        /\ dial[d] \in {"connected", "failed"}
        /\ \/ /\ Slots!Overtaken(d) /\ dial' = [dial EXCEPT ![d] = "discard"]
              /\ slot' = IF slot[s].connecting = d THEN [slot EXCEPT ![s].connecting = None] ELSE slot
           \/ /\ ~Slots!Overtaken(d) /\ dial' = [dial EXCEPT ![d] = "done"]
              /\ slot' = [slot EXCEPT ![s].connecting = None,
                                      ![s].peer = IF dial[d] = "connected" THEN d ELSE None,
                                      ![s].state = IF dial[d] = "connected" THEN "ready" ELSE "backoff",
                                      ![s].backoff = (dial[d] = "failed")]
    BY Zenon DEF Slots!ConnectSlot, Slots!callerVars, Slots!reloadVars, Slots!stopVars
  <1>2. s \in SlotIds /\ (dial[d] = "failed" => peer[d] = "none")
    BY <1>t, <1>1 DEF NoPeerYet
  <1>3. slot \in [SlotIds -> SlotType] /\ slot[s] \in SlotType
    BY <1>t, <1>2, Zenon DEF SlotTypes
  <1>4. \A x \in SlotIds : slot[x].connecting \in Dials \cup {None} /\ (slot[x].connecting = d => x = s)
    <2>1. \A x \in SlotIds : slot[x].connecting \in Dials \cup {None}
      BY <1>3 DEF SlotType
    <2>2. d # None
      OBVIOUS
    <2> QED
      BY <1>t, <2>1, <2>2, Zenon DEF Attempts
  <1> HIDE DEF s
  <1>5. /\ dial' \in [Dials -> {"free", "new", "dialing", "connected", "failed", "discard", "done"}]
        /\ dial'[d] \in {"discard", "done"} /\ \A e \in Dials : e # d => dial'[e] = dial[e]
        /\ dial'[d] = "done" <=> ~Slots!Overtaken(d)
    BY <1>t, <1>1 DEF SlotTypes
  <1>6. /\ slot' \in [SlotIds -> SlotType] /\ slot'[s].connecting # d
        /\ slot'[s].connecting = None \/ slot'[s] = slot[s]
        /\ slot'[s].peer = slot[s].peer \/ ~Slots!Overtaken(d)
        /\ dial'[d] = "done" => slot'[s].peer = (IF dial[d] = "connected" THEN d ELSE None)
        /\ \A x \in SlotIds : x # s => slot'[x] = slot[x]
    <2>0. d # None
      OBVIOUS
    <2>1. CASE Slots!Overtaken(d) /\ slot[s].connecting = d
      <3> DEFINE new == [slot[s] EXCEPT !.connecting = None]
      <3>1. new \in SlotType /\ new.peer = slot[s].peer /\ new.connecting = None
        BY <1>3, Zenon DEF SlotType
      <3>2. slot' = [slot EXCEPT ![s] = new]
        BY <1>1, <1>2, <1>3, <2>1, Zenon DEF s
      <3> HIDE DEF new
      <3> QED
        BY <1>2, <1>3, <1>5, <2>0, <2>1, <3>1, <3>2, Zenon
    <2>2. CASE Slots!Overtaken(d) /\ slot[s].connecting # d
      <3>1. slot' = slot
        BY <1>1, <2>2, Zenon DEF s
      <3> QED
        BY <1>3, <1>5, <2>2, <3>1, Zenon
    <2>3. CASE ~Slots!Overtaken(d)
      <3> DEFINE p == IF dial[d] = "connected" THEN d ELSE None
                 st == IF dial[d] = "connected" THEN "ready" ELSE "backoff"
                 bo == (dial[d] = "failed")
                 new == [slot[s] EXCEPT !.connecting = None, !.peer = p, !.state = st, !.backoff = bo]
      <3>1. slot' = [slot EXCEPT ![s] = new]
        BY <1>1, <1>2, <1>3, <2>3, Zenon DEF s
      <3>2. p \in Dials \cup {None} /\ st \in {"ready", "backoff"} /\ bo \in BOOLEAN
        BY Zenon
      <3> HIDE DEF p, st, bo
      <3>3. new \in SlotType /\ new.peer = p /\ new.connecting = None
        BY <1>3, <3>2, Zenon DEF SlotType
      <3> HIDE DEF new
      <3>4. /\ slot' \in [SlotIds -> SlotType] /\ slot'[s] = new
            /\ \A x \in SlotIds : x # s => slot'[x] = slot[x]
        BY <1>2, <1>3, <3>1, <3>3, Zenon
      <3> QED
        BY <2>0, <2>3, <3>3, <3>4, Zenon DEF p
    <2> QED
      BY <2>1, <2>2, <2>3, Zenon
  <1>7. ~Slots!Overtaken(d) => s = inMap /\ slot[s].connecting = d
    <2> SUFFICES ASSUME ~Slots!Overtaken(d) PROVE s = inMap /\ slot[s].connecting = d
      OBVIOUS
    <2>1. slot[s].connecting = d /\ slot[s].state # "closing"
      BY Zenon DEF Slots!Overtaken, s
    <2>2. d # None /\ dial[d] # "new"
      BY <1>1
    <2> QED
      BY <1>t, <1>2, <2>1, <2>2, Zenon DEF InTheMap
  <1>8. SlotTypes' /\ CallerTypes' /\ Managers'
    BY <1>t, <1>1, <1>5, <1>6, Zenon DEF SlotTypes, CallerTypes, Managers
  <1>9. CallersKnow'
    BY <1>t, <1>1, Zenon DEF CallersKnow
  <1>10. Announced'
    <2>1. \A e \in Dials : dial[e] = "new" => dial'[e] = "new"
      BY <1>1, <1>5
    <2>2. Announced /\ UNCHANGED <<callerPc, waits, at, dialFor>>
      BY <1>t, <1>1, Zenon
    <2> QED
      BY <2>1, <2>2 DEF Announced
  <1>11. ASSUME NEW x \in SlotIds, slot'[x].connecting # None
         PROVE  /\ slot'[x] = slot[x] /\ slot[x].connecting \in Dials
                /\ dial'[slot[x].connecting] = dial[slot[x].connecting]
    <2>1. slot'[x] = slot[x]
      BY <1>6, <1>11, Zenon
    <2>2. slot[x].connecting \in Dials /\ slot[x].connecting # d
      BY <1>4, <1>6, <1>11, <2>1, Zenon
    <2> QED
      BY <1>5, <2>1, <2>2, Zenon
  <1>12. Attempts'
    <2> SUFFICES ASSUME NEW x \in SlotIds, slot'[x].connecting # None
                 PROVE  /\ dial'[slot'[x].connecting] \in {"new", "dialing", "connected", "failed"}
                        /\ dialFor[slot'[x].connecting].slot = x /\ slot'[x].peer = None
      BY <1>1, Zenon DEF Attempts
    <2>1. /\ slot'[x] = slot[x] /\ slot[x].connecting # None
          /\ dial'[slot[x].connecting] = dial[slot[x].connecting]
      BY <1>11, Zenon
    <2> QED
      BY <1>t, <2>1 DEF Attempts
  <1>13. InTheMap'
    <2>1. ASSUME NEW x \in SlotIds, slot'[x].peer # None PROVE x = inMap
      BY <1>t, <1>6, <1>7, <2>1, Zenon DEF InTheMap
    <2>2. ASSUME NEW x \in SlotIds, slot'[x].connecting # None, slot'[x].state # "closing",
                 dial'[slot'[x].connecting] # "new"
          PROVE  x = inMap
      <3>1. /\ slot'[x] = slot[x] /\ slot[x].connecting # None
            /\ dial'[slot[x].connecting] = dial[slot[x].connecting]
        BY <1>11, <2>2, Zenon
      <3> QED
        BY <1>t, <2>2, <3>1 DEF InTheMap
    <2> QED
      BY <1>1, <2>1, <2>2, Zenon DEF InTheMap
  <1>14. Current'
    <2>1. ASSUME inMap # None, reload # "detach"
          PROVE  /\ slot'[inMap].peer # None => dialFor[slot'[inMap].peer].endpoint = endpoint
                 /\ slot'[inMap].connecting # None => dialFor[slot'[inMap].connecting].endpoint = endpoint
      <3>1. inMap \in SlotIds
        BY <1>t, <2>1, Zenon DEF SlotTypes
      <3>2. /\ slot[inMap].peer # None => dialFor[slot[inMap].peer].endpoint = endpoint
            /\ slot[inMap].connecting # None => dialFor[slot[inMap].connecting].endpoint = endpoint
        BY <1>t, <2>1, Zenon DEF Current
      <3>3. slot'[inMap].connecting # None => slot'[inMap].connecting = slot[inMap].connecting
        BY <1>11, <3>1, Zenon
      <3>4. slot'[inMap].peer # None =>
              slot'[inMap].peer = slot[inMap].peer \/ (slot'[inMap].peer = d /\ slot[inMap].connecting = d)
        <4>1. CASE inMap = s /\ ~Slots!Overtaken(d)
          BY <1>5, <1>6, <1>7, <4>1
        <4>2. CASE inMap = s /\ Slots!Overtaken(d)
          BY <1>6, <4>2, Zenon
        <4>3. CASE inMap # s
          BY <1>6, <3>1, <4>3, Zenon
        <4> QED
          BY <4>1, <4>2, <4>3, Zenon
      <3>5. d # None
        OBVIOUS
      <3> QED
        BY <3>2, <3>3, <3>4, <3>5, Zenon
    <2> QED
      BY <1>t, <1>1, <2>1, Zenon DEF Current
  <1>15. NoPeerYet'
    BY <1>t, <1>1, <1>2, <1>5 DEF NoPeerYet, s
  <1>16. Slots!NoPeerLost'
    <2> SUFFICES ASSUME NEW e \in Dials, peer[e] = "open", dial'[e] = "done",
                        e \notin {reloadCloses, stopCloses}
                 PROVE  inMap # None /\ slot'[inMap].peer = e
      BY <1>1, Zenon DEF Slots!NoPeerLost
    <2>1. CASE e = d
      <3>1. dial[d] = "connected" /\ ~Slots!Overtaken(d)
        BY <1>1, <1>2, <1>5, <2>1
      <3>2. s = inMap /\ slot'[s].peer = d
        BY <1>6, <1>7, <2>1, <3>1, Zenon
      <3>3. inMap # None
        BY <1>2, <3>2
      <3> QED
        BY <2>1, <3>2, <3>3
    <2>2. CASE e # d
      <3>1. inMap # None /\ slot[inMap].peer = e
        BY <1>t, <1>5, <2>2, Zenon DEF Slots!NoPeerLost
      <3>2. inMap \in SlotIds /\ e # None
        BY <1>t, <3>1 DEF SlotTypes
      <3>3. CASE inMap = s
        <4>1. Slots!Overtaken(d)
          <5> SUFFICES ASSUME ~Slots!Overtaken(d) PROVE FALSE
            OBVIOUS
          <5>1. slot[s].connecting = d /\ d # None
            BY <1>7
          <5>2. slot[s].peer = None
            BY <1>t, <1>2, <5>1, Zenon DEF Attempts
          <5> QED
            BY <3>1, <3>2, <3>3, <5>2
        <4> QED
          BY <1>6, <3>1, <3>3, <4>1, Zenon
      <3>4. CASE inMap # s
        BY <1>6, <3>1, <3>2, <3>4, Zenon
      <3> QED
        BY <3>3, <3>4, Zenon
    <2> QED
      BY <2>1, <2>2, Zenon
  <1> QED
    BY <1>8, <1>9, <1>10, <1>12, <1>13, <1>14, <1>15, <1>16, Zenon DEF SlotInv

\* peerClosed drops the closed peer from its slot.
LEMMA PeerClosedKeeps ==
  ASSUME None \notin SlotIds \cup Dials, SlotInv, NEW d \in Dials, Slots!PeerClosed(d)
  PROVE  SlotInv'
  <1>t. /\ SlotTypes /\ CallerTypes /\ CallersKnow /\ Managers /\ Announced
        /\ Attempts /\ InTheMap /\ Current /\ NoPeerYet /\ Slots!NoPeerLost
    BY Zenon DEF SlotInv
  <1> DEFINE s == dialFor[d].slot
  <1>1. /\ UNCHANGED <<endpoint, stopping, inMap, dial, dialFor, callerPc, want, at, waits, reload,
                       reloadCloses, stop, stopCloses>>
        /\ peer[d] = "done" /\ peer' = [peer EXCEPT ![d] = "closed"]
        /\ slot' = IF slot[s].peer # d THEN slot
                   ELSE [slot EXCEPT ![s].peer = None, ![s].state = "backoff", ![s].backoff = TRUE]
    BY Zenon DEF Slots!PeerClosed, Slots!callerVars, Slots!reloadVars, Slots!stopVars
  <1>2. s \in SlotIds /\ dial[d] \notin {"free", "new", "dialing", "failed"}
    BY <1>t, <1>1 DEF NoPeerYet
  <1>3. slot \in [SlotIds -> SlotType] /\ slot[s] \in SlotType
    BY <1>t, <1>2, Zenon DEF SlotTypes
  <1> HIDE DEF s
  <1>4. /\ slot' \in [SlotIds -> SlotType] /\ slot'[s].connecting = slot[s].connecting
        /\ slot'[s] = slot[s] \/ (slot[s].peer = d /\ slot'[s].peer = None)
        /\ \A x \in SlotIds : x # s => slot'[x] = slot[x]
    <2>1. CASE slot[s].peer # d
      <3>1. slot' = slot
        BY <1>1, <2>1, Zenon DEF s
      <3> QED
        BY <1>3, <3>1, Zenon
    <2>2. CASE slot[s].peer = d
      <3> DEFINE new == [slot[s] EXCEPT !.peer = None, !.state = "backoff", !.backoff = TRUE]
      <3>1. new \in SlotType /\ new.peer = None /\ new.connecting = slot[s].connecting
        BY <1>3, Zenon DEF SlotType
      <3>2. slot' = [slot EXCEPT ![s] = new]
        BY <1>1, <1>2, <1>3, <2>2, Zenon DEF s
      <3> HIDE DEF new
      <3> QED
        BY <1>2, <1>3, <2>2, <3>1, <3>2, Zenon
    <2> QED
      BY <2>1, <2>2, Zenon
  <1>5. /\ peer' \in [Dials -> {"none", "open", "done", "closed"}]
        /\ peer'[d] = "closed" /\ \A e \in Dials : e # d => peer'[e] = peer[e]
    BY <1>t, <1>1 DEF SlotTypes
  <1>6. SlotTypes' /\ CallerTypes' /\ Managers'
    BY <1>t, <1>1, <1>4, <1>5, Zenon DEF SlotTypes, CallerTypes, Managers
  <1>7. CallersKnow'
    BY <1>t, <1>1, Zenon DEF CallersKnow
  <1>8. Announced'
    <2>1. Announced /\ UNCHANGED <<callerPc, waits, at, dial, dialFor>>
      BY <1>t, <1>1, Zenon
    <2> QED
      BY <2>1, Zenon DEF Announced
  <1>9. \A x \in SlotIds : /\ slot'[x].connecting = slot[x].connecting
                           /\ slot'[x] = slot[x] \/ (slot[x].peer = d /\ slot'[x].peer = None)
    BY <1>4, Zenon
  <1>10. Attempts'
    <2> SUFFICES ASSUME NEW x \in SlotIds, slot'[x].connecting # None
                 PROVE  /\ dial[slot[x].connecting] \in {"new", "dialing", "connected", "failed"}
                        /\ dialFor[slot[x].connecting].slot = x /\ slot'[x].peer = None
      BY <1>1, <1>9, Zenon DEF Attempts
    <2> QED
      BY <1>t, <1>9, Zenon DEF Attempts
  <1>11. InTheMap'
    <2>1. ASSUME NEW x \in SlotIds, slot'[x].peer # None PROVE x = inMap
      BY <1>t, <1>9, <2>1, Zenon DEF InTheMap
    <2>2. ASSUME NEW x \in SlotIds, slot'[x].connecting # None, slot'[x].state # "closing",
                 dial[slot'[x].connecting] # "new"
          PROVE  x = inMap
      <3>1. slot[x].peer # d
        BY <1>t, <1>9, <2>2 DEF Attempts
      <3> QED
        BY <1>t, <1>9, <2>2, <3>1, Zenon DEF InTheMap
    <2> QED
      BY <1>1, <2>1, <2>2, Zenon DEF InTheMap
  <1>12. Current'
    <2>1. inMap # None => inMap \in SlotIds
      BY <1>t, Zenon DEF SlotTypes
    <2> QED
      BY <1>t, <1>1, <1>9, <2>1, Zenon DEF Current
  <1>13. NoPeerYet'
    BY <1>t, <1>1, <1>2, <1>5 DEF NoPeerYet
  <1>14. Slots!NoPeerLost'
    <2> SUFFICES ASSUME NEW e \in Dials, peer'[e] = "open", dial[e] = "done",
                        e \notin {reloadCloses, stopCloses}
                 PROVE  inMap # None /\ slot'[inMap].peer = e
      BY <1>1, Zenon DEF Slots!NoPeerLost
    <2>1. e # d /\ peer[e] = "open"
      BY <1>5
    <2>2. inMap # None /\ slot[inMap].peer = e
      BY <1>t, <2>1, Zenon DEF Slots!NoPeerLost
    <2>3. inMap \in SlotIds
      BY <1>t, <2>2, Zenon DEF SlotTypes
    <2> QED
      BY <1>9, <2>1, <2>2, <2>3
  <1> QED
    BY <1>6, <1>7, <1>8, <1>10, <1>11, <1>12, <1>13, <1>14, Zenon DEF SlotInv

\* The end of a backoff changes nothing else of a slot.
LEMMA BackoffKeeps ==
  ASSUME SlotInv, NEW s \in SlotIds, Slots!BackoffElapses(s)
  PROVE  SlotInv'
  <1>t. /\ SlotTypes /\ CallerTypes /\ CallersKnow /\ Managers /\ Announced
        /\ Attempts /\ InTheMap /\ Current /\ NoPeerYet /\ Slots!NoPeerLost
    BY Zenon DEF SlotInv
  <1>1. /\ UNCHANGED <<endpoint, stopping, inMap, dial, dialFor, peer, callerPc, want, at, waits, reload,
                       reloadCloses, stop, stopCloses>>
        /\ slot' = [slot EXCEPT ![s].backoff = FALSE]
    BY Zenon DEF Slots!BackoffElapses, Slots!dialVars, Slots!callerVars, Slots!reloadVars, Slots!stopVars
  <1>2. slot \in [SlotIds -> SlotType] /\ slot[s] \in SlotType
    BY <1>t, Zenon DEF SlotTypes
  <1>3. /\ slot' \in [SlotIds -> SlotType]
        /\ \A x \in SlotIds : /\ slot'[x].peer = slot[x].peer /\ slot'[x].connecting = slot[x].connecting
                              /\ slot'[x].state = slot[x].state
    <2> DEFINE new == [slot[s] EXCEPT !.backoff = FALSE]
    <2>1. /\ new \in SlotType /\ new.peer = slot[s].peer /\ new.connecting = slot[s].connecting
          /\ new.state = slot[s].state
      BY <1>2, Zenon DEF SlotType
    <2>2. slot' = [slot EXCEPT ![s] = new]
      BY <1>1, Zenon
    <2> HIDE DEF new
    <2> QED
      BY <1>2, <2>1, <2>2, Zenon
  <1>4. inMap # None => inMap \in SlotIds
    BY <1>t, Zenon DEF SlotTypes
  <1>5. SlotTypes' /\ CallerTypes' /\ Managers' /\ NoPeerYet'
    BY <1>t, <1>1, <1>3, Zenon DEF SlotTypes, CallerTypes, Managers, NoPeerYet
  <1>6. CallersKnow' /\ Announced'
    BY <1>t, <1>1, Zenon DEF CallersKnow, Announced
  <1>7. Attempts'
    <2> SUFFICES ASSUME NEW x \in SlotIds, slot[x].connecting # None
                 PROVE  /\ dial[slot[x].connecting] \in {"new", "dialing", "connected", "failed"}
                        /\ dialFor[slot[x].connecting].slot = x /\ slot[x].peer = None
      BY <1>1, <1>3, Zenon DEF Attempts
    <2> QED
      BY <1>t, Zenon DEF Attempts
  <1>8. InTheMap'
    <2> SUFFICES ASSUME NEW x \in SlotIds
                 PROVE  /\ slot[x].peer # None => x = inMap
                        /\ slot[x].connecting # None /\ slot[x].state # "closing"
                             /\ dial[slot[x].connecting] # "new" => x = inMap
      BY <1>1, <1>3, Zenon DEF InTheMap
    <2> QED
      BY <1>t, Zenon DEF InTheMap
  <1>9. Current' /\ Slots!NoPeerLost'
    BY <1>t, <1>1, <1>3, <1>4, Zenon DEF Current, Slots!NoPeerLost
  <1> QED
    BY <1>5, <1>6, <1>7, <1>8, <1>9, Zenon DEF SlotInv

\* What detaching the slot of the map leaves: no slot has a peer, and only attempts that
\* will be discarded are under way.
LEMMA DetachKeeps ==
  ASSUME None \notin SlotIds \cup Dials, SlotInv, slot' = Slots!Detached, inMap' = None,
         UNCHANGED <<endpoint, dial, dialFor, peer>>,
         reloadCloses' \in Dials \cup {None}, stopCloses' \in Dials \cup {None},
         Slots!Closing \in {reloadCloses', stopCloses'},
         reloadCloses' = reloadCloses \/ reloadCloses = None,
         stopCloses' = stopCloses \/ stopCloses = None
  PROVE  SlotTypes' /\ Attempts' /\ InTheMap' /\ Current' /\ NoPeerYet' /\ Slots!NoPeerLost'
  <1>t. SlotTypes /\ Attempts /\ InTheMap /\ NoPeerYet /\ Slots!NoPeerLost
    BY Zenon DEF SlotInv
  <1>1. slot \in [SlotIds -> SlotType] /\ inMap \in SlotIds \cup {None}
    BY <1>t, Zenon DEF SlotTypes
  <1>2. /\ slot' \in [SlotIds -> SlotType]
        /\ \A x \in SlotIds :
             /\ slot'[x].connecting = slot[x].connecting /\ slot'[x].peer = None
             /\ slot'[x].state = "closing" \/ (x # inMap /\ slot'[x].state = slot[x].state)
    <2>1. CASE inMap = None
      <3>1. slot' = slot
        BY <2>1, Zenon DEF Slots!Detached
      <3> QED
        BY <1>t, <1>1, <2>1, <3>1, Zenon DEF InTheMap
    <2>2. CASE inMap # None
      <3> DEFINE new == [slot[inMap] EXCEPT !.peer = None, !.state = "closing", !.endpoint = None]
      <3>0. slot[inMap] \in SlotType /\ inMap \in SlotIds
        BY <1>1, <2>2, Zenon
      <3>1. /\ new \in SlotType /\ new.peer = None /\ new.connecting = slot[inMap].connecting
            /\ new.state = "closing"
        BY <3>0, Zenon DEF SlotType
      <3>2. slot' = [slot EXCEPT ![inMap] = new]
        BY <1>1, <2>2, <3>0, Zenon DEF Slots!Detached
      <3> HIDE DEF new
      <3>3. /\ slot' \in [SlotIds -> SlotType] /\ slot'[inMap] = new
            /\ \A x \in SlotIds : x # inMap => slot'[x] = slot[x]
        BY <1>1, <3>0, <3>1, <3>2, Zenon
      <3>4. \A x \in SlotIds : x # inMap => slot[x].peer = None
        BY <1>t, Zenon DEF InTheMap
      <3> QED
        BY <3>1, <3>3, <3>4, Zenon
    <2> QED
      BY <2>1, <2>2, Zenon
  <1>3. SlotTypes' /\ NoPeerYet'
    BY <1>t, <1>2, Zenon DEF SlotTypes, NoPeerYet
  <1>4. Attempts'
    <2> SUFFICES ASSUME NEW x \in SlotIds, slot[x].connecting # None
                 PROVE  /\ dial[slot[x].connecting] \in {"new", "dialing", "connected", "failed"}
                        /\ dialFor[slot[x].connecting].slot = x
      BY <1>2, Zenon DEF Attempts
    <2> QED
      BY <1>t, Zenon DEF Attempts
  <1>5. InTheMap'
    BY <1>t, <1>2, Zenon DEF InTheMap
  <1>6. Current'
    BY Zenon DEF Current
  <1>7. Slots!NoPeerLost'
    <2> SUFFICES ASSUME NEW d \in Dials, peer[d] = "open", dial[d] = "done"
                 PROVE  d \in {reloadCloses', stopCloses'}
      BY Zenon DEF Slots!NoPeerLost
    <2>1. d # None
      OBVIOUS
    <2>2. d \in {reloadCloses, stopCloses} \/ (inMap # None /\ slot[inMap].peer = d)
      BY <1>t, Zenon DEF Slots!NoPeerLost
    <2>3. inMap # None /\ slot[inMap].peer = d => Slots!Closing = d
      BY Zenon DEF Slots!Closing
    <2> QED
      BY <2>1, <2>2, <2>3
  <1> QED
    BY <1>3, <1>4, <1>5, <1>6, <1>7, Zenon

\* closeChanged and closeAll.
LEMMA CloseSlotsKeeps ==
  ASSUME None \notin SlotIds \cup Dials, SlotInv, Slots!CloseChanged \/ Slots!CloseAll
  PROVE  SlotInv'
  <1>t. SlotTypes /\ CallerTypes /\ CallersKnow /\ Managers /\ Announced
    BY Zenon DEF SlotInv
  <1> USE DEF Slots!callerVars, Slots!reloadVars, Slots!stopVars, Slots!dialVars
  <1>1. /\ UNCHANGED <<endpoint, stopping, dial, dialFor, peer, callerPc, want, at, waits>>
        /\ slot' = Slots!Detached /\ inMap' = None
    BY Zenon DEF Slots!CloseChanged, Slots!CloseAll
  <1>2. Slots!Closing \in Dials \cup {None}
    <2>1. CASE inMap = None
      BY <2>1, Zenon DEF Slots!Closing
    <2>2. CASE inMap # None
      <3>1. slot[inMap] \in SlotType
        BY <1>t, <2>2, Zenon DEF SlotTypes
      <3>2. slot[inMap].peer \in Dials \cup {None}
        BY <3>1, Zenon DEF SlotType
      <3> QED
        BY <2>2, <3>2, Zenon DEF Slots!Closing
    <2> QED
      BY <2>1, <2>2, Zenon
  <1>3. CASE Slots!CloseChanged
    <2>1. /\ reload = "detach" /\ reload' = "close" /\ reloadCloses' = Slots!Closing
          /\ UNCHANGED <<stop, stopCloses>>
      BY <1>3, Zenon DEF Slots!CloseChanged
    <2>2. reloadCloses = None /\ stopCloses \in Dials \cup {None}
      BY <1>t, <2>1 DEF Managers, SlotTypes
    <2>3. SlotTypes' /\ Attempts' /\ InTheMap' /\ Current' /\ NoPeerYet' /\ Slots!NoPeerLost'
      BY <1>1, <1>2, <2>1, <2>2, DetachKeeps, Zenon
    <2>4. Managers'
      BY <1>t, <1>1, <2>1 DEF Managers
    <2>5. \A c \in Callers : callerPc[c] \in {"idle", "ok", "failed"}
      BY <1>t, <2>1 DEF CallersKnow
    <2>6. CallersKnow'
      BY <1>1, <2>5 DEF CallersKnow
    <2>7. CallerTypes' /\ Announced'
      BY <1>t, <1>1, Zenon DEF CallerTypes, Announced
    <2> QED
      BY <2>3, <2>4, <2>6, <2>7, Zenon DEF SlotInv
  <1>4. CASE Slots!CloseAll
    <2>1. /\ stop = "detach" /\ stop' = "close" /\ stopCloses' = Slots!Closing
          /\ UNCHANGED <<reload, reloadCloses>>
      BY <1>4, Zenon DEF Slots!CloseAll
    <2>2. stopCloses = None /\ reloadCloses \in Dials \cup {None}
      BY <1>t, <2>1 DEF Managers, SlotTypes
    <2>3. SlotTypes' /\ Attempts' /\ InTheMap' /\ Current' /\ NoPeerYet' /\ Slots!NoPeerLost'
      BY <1>1, <1>2, <2>1, <2>2, DetachKeeps, Zenon
    <2>4. Managers'
      BY <1>t, <1>1, <2>1 DEF Managers
    <2>5. CallersKnow'
      BY <1>t, <1>1, <2>1 DEF CallersKnow
    <2>6. CallerTypes' /\ Announced'
      BY <1>t, <1>1, Zenon DEF CallerTypes, Announced
    <2> QED
      BY <2>3, <2>4, <2>5, <2>6, Zenon DEF SlotInv
  <1> QED
    BY <1>3, <1>4, Zenon

\* install: the registry changes only while nobody is inside peerFor.
LEMMA InstallKeeps ==
  ASSUME ~Overlap, SlotInv, NEW e \in Endpoints \cup {None}, Slots!Install(e)
  PROVE  SlotInv'
  <1>t. /\ SlotTypes /\ CallerTypes /\ CallersKnow /\ Managers /\ Announced
        /\ Attempts /\ InTheMap /\ Current /\ NoPeerYet /\ Slots!NoPeerLost
    BY Zenon DEF SlotInv
  <1>1. /\ UNCHANGED <<stopping, inMap, slot, dial, dialFor, peer, callerPc, want, at, waits, reloadCloses,
                       stop, stopCloses>>
        /\ endpoint' = e /\ reload = "idle"
        /\ reload' = IF Slots!Changed(e) THEN "detach" ELSE "idle"
        /\ \A c \in Callers : ~Slots!InPeerFor(c)
    BY Zenon DEF Slots!Install, Slots!dialVars, Slots!callerVars, Slots!stopVars
  <1>2. (endpoint # None /\ reload' = "detach") \/ (endpoint = None /\ reload' = "idle")
    BY <1>1, Zenon DEF Slots!Changed
  <1>3. \A c \in Callers : callerPc[c] \in {"idle", "ok", "failed"}
    BY <1>1, Zenon DEF Slots!InPeerFor
  <1>4. SlotTypes' /\ NoPeerYet' /\ CallerTypes' /\ Announced'
    BY <1>t, <1>1, Zenon DEF SlotTypes, NoPeerYet, CallerTypes, Announced
  <1>5. CallersKnow'
    BY <1>1, <1>3 DEF CallersKnow
  <1>6. Managers'
    BY <1>t, <1>1, <1>2 DEF Managers
  <1>7. Current'
    BY <1>t, <1>1, <1>2 DEF Current
  <1>8. Attempts' /\ InTheMap' /\ Slots!NoPeerLost'
    <2>1. Attempts' /\ Slots!NoPeerLost'
      BY <1>t, <1>1, Zenon DEF Attempts, Slots!NoPeerLost
    <2>2. InTheMap'
      BY <1>t, <1>1, Zenon DEF InTheMap
    <2> QED
      BY <2>1, <2>2, Zenon
  <1> QED
    BY <1>4, <1>5, <1>6, <1>7, <1>8, Zenon DEF SlotInv

\* Reload and Stop return, and Stop raises its flag, without touching a slot.
LEMMA ManagerKeeps ==
  ASSUME None \notin Dials, SlotInv, Slots!ReloadReturns \/ Slots!StopFlag \/ Slots!StopReturns
  PROVE  SlotInv'
  <1>t. /\ SlotTypes /\ CallerTypes /\ CallersKnow /\ Managers /\ Announced
        /\ Attempts /\ InTheMap /\ Current /\ NoPeerYet /\ Slots!NoPeerLost
    BY Zenon DEF SlotInv
  <1> USE DEF Slots!callerVars, Slots!reloadVars, Slots!stopVars, Slots!dialVars
  <1>1. UNCHANGED <<endpoint, inMap, slot, dial, dialFor, peer, callerPc, want, at, waits>>
    BY Zenon DEF Slots!ReloadReturns, Slots!StopFlag, Slots!StopReturns
  <1>2. /\ reload' = reload \/ (reload = "close" /\ reload' = "idle")
        /\ stop' = stop \/ (stop = "idle" /\ stop' = "detach") \/ (stop = "close" /\ stop' = "returned")
    BY Zenon DEF Slots!ReloadReturns, Slots!StopFlag, Slots!StopReturns
  <1>3. /\ reloadCloses' = reloadCloses
             \/ (reloadCloses' = None /\ (reloadCloses # None => peer[reloadCloses] = "closed"))
        /\ stopCloses' = stopCloses
             \/ (stopCloses' = None /\ (stopCloses # None => peer[stopCloses] = "closed"))
    BY Zenon DEF Slots!ReloadReturns, Slots!StopFlag, Slots!StopReturns
  <1>4. Managers'
    <2>1. CASE Slots!ReloadReturns
      BY <1>t, <2>1 DEF Managers, Slots!ReloadReturns
    <2>2. CASE Slots!StopFlag
      BY <1>t, <2>2 DEF Managers, Slots!StopFlag
    <2>3. CASE Slots!StopReturns
      BY <1>t, <2>3 DEF Managers, Slots!StopReturns
    <2> QED
      BY <2>1, <2>2, <2>3, Zenon
  <1>5. SlotTypes'
    BY <1>t, <1>1, <1>3, Zenon DEF SlotTypes
  <1>6. NoPeerYet' /\ CallerTypes' /\ Announced' /\ Attempts' /\ InTheMap'
    <2>1. NoPeerYet' /\ CallerTypes'
      BY <1>t, <1>1, Zenon DEF NoPeerYet, CallerTypes
    <2>2. Announced'
      BY <1>t, <1>1, Zenon DEF Announced
    <2>3. Attempts'
      BY <1>t, <1>1, Zenon DEF Attempts
    <2>4. InTheMap'
      BY <1>t, <1>1, Zenon DEF InTheMap
    <2> QED
      BY <2>1, <2>2, <2>3, <2>4, Zenon
  <1>7. CallersKnow'
    BY <1>t, <1>1, <1>2 DEF CallersKnow
  <1>8. Current'
    BY <1>t, <1>1, <1>2 DEF Current
  <1>9. Slots!NoPeerLost'
    <2> SUFFICES ASSUME NEW d \in Dials, peer[d] = "open", dial[d] = "done"
                 PROVE  d \in {reloadCloses', stopCloses'} \/ (inMap # None /\ slot[inMap].peer = d)
      BY <1>1, Zenon DEF Slots!NoPeerLost
    <2>1. d \in {reloadCloses, stopCloses} \/ (inMap # None /\ slot[inMap].peer = d)
      BY <1>t, Zenon DEF Slots!NoPeerLost
    <2> QED
      BY <1>3, <2>1
  <1> QED
    BY <1>4, <1>5, <1>6, <1>7, <1>8, <1>9, Zenon DEF SlotInv

\* Every step preserves the invariant.
LEMMA SlotStep ==
  ASSUME None \notin SlotIds \cup Dials, ~Overlap, SlotInv, [Slots!Next]_Slots!vars
  PROVE  SlotInv'
  <1>n. None \notin SlotIds /\ None \notin Dials
    OBVIOUS
  <1>1. ASSUME NEW c \in Callers, Slots!BeginPeerFor(c) \/ Slots!CallerStep(c) \/ Slots!GiveUp(c)
        PROVE  SlotInv'
    BY <1>n, <1>1, MoveKeeps, WaitKeeps, TakeKeeps, AnnounceKeeps, SpawnKeeps, Zenon DEF Slots!CallerStep
  <1>2. ASSUME NEW d \in Dials, Slots!ConnectStep(d) \/ Slots!PeerDone(d)
        PROVE  SlotInv'
    BY <1>2, GoroutineKeeps, ConnectKeeps, PeerClosedKeeps, Zenon DEF Slots!ConnectStep
  <1>3. CASE Slots!ManagerStep \/ Slots!StopFlag
    <2>1. ASSUME NEW p \in {reloadCloses, stopCloses}, Slots!ClosePeer(p)
          PROVE  SlotInv'
      <3>1. p \in Dials
        <4>1. p # None
          BY <2>1, Zenon DEF Slots!ClosePeer
        <4>2. reloadCloses \in Dials \cup {None} /\ stopCloses \in Dials \cup {None}
          BY Zenon DEF SlotInv, SlotTypes
        <4> QED
          BY <4>1, <4>2, Zenon
      <3> QED
        BY <2>1, <3>1, GoroutineKeeps, Zenon
    <2>2. CASE Slots!CloseChanged \/ Slots!CloseAll
      BY <2>2, CloseSlotsKeeps, Zenon
    <2>3. CASE Slots!ReloadReturns \/ Slots!StopFlag \/ Slots!StopReturns
      BY <1>n, <2>3, ManagerKeeps, Zenon
    <2> QED
      BY <1>3, <2>1, <2>2, <2>3, Zenon DEF Slots!ManagerStep
  <1>4. CASE UNCHANGED Slots!vars
    <2>1. UNCHANGED <<endpoint, stopping, inMap, slot, dial, dialFor, peer, callerPc, want, at, waits,
                      reload, reloadCloses, stop, stopCloses>>
      BY <1>4, Zenon DEF Slots!vars, Slots!callerVars, Slots!reloadVars, Slots!stopVars, Slots!dialVars
    <2>t. /\ SlotTypes /\ CallerTypes /\ CallersKnow /\ Managers /\ Announced
          /\ Attempts /\ InTheMap /\ Current /\ NoPeerYet /\ Slots!NoPeerLost
      BY Zenon DEF SlotInv
    <2>2. SlotTypes' /\ CallerTypes' /\ Managers' /\ Announced'
      BY <2>1, <2>t, Zenon DEF SlotTypes, CallerTypes, Managers, Announced
    <2>3. CallersKnow' /\ Attempts'
      BY <2>1, <2>t, Zenon DEF CallersKnow, Attempts
    <2>4. InTheMap'
      BY <2>1, <2>t, Zenon DEF InTheMap
    <2>5. Current' /\ NoPeerYet' /\ Slots!NoPeerLost'
      BY <2>1, <2>t, Zenon DEF Current, NoPeerYet, Slots!NoPeerLost
    <2> QED
      BY <2>2, <2>3, <2>4, <2>5, Zenon DEF SlotInv
  <1> QED
    BY <1>1, <1>2, <1>3, <1>4, BackoffKeeps, InstallKeeps, Zenon DEF Slots!Next

\* While no Reload runs inside a peerFor, whatever else overlaps - callers sharing a slot,
\* attempts that end late, closing connections, Stop - an open peer whose attempt is over is
\* in the slot that Reload and Stop will find, or one of them is closing it.
THEOREM PeersStayFindable ==
  ASSUME Slots!SlotsAssumption, ~Overlap
  PROVE  Slots!Spec => []NoPeerLost
  <1>n. None \notin SlotIds \cup Dials
    BY DEF Slots!SlotsAssumption
  <1>1. SlotInv /\ [Slots!Next]_Slots!vars => SlotInv'
    BY <1>n, SlotStep, Zenon
  <1>2. SlotInv => NoPeerLost
    BY Zenon DEF SlotInv, NoPeerLost
  <1> QED
    BY <1>1, <1>2, SlotInit, PTL DEF Slots!Spec
=============================================================================
