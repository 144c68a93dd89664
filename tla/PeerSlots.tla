------------------------------ MODULE PeerSlots ------------------------------
(***************************************************************************)
(* How a cluster node finds or dials the sender of a remote node           *)
(* (cluster/node.go: peerFor, connectSlot, Reload, Stop;                   *)
(* cluster/managers.go: install, slot, closeChanged, closeAll).            *)
(*                                                                         *)
(* One remote node with one connection slot at a time.  A connection       *)
(* attempt and the peer it yields share an identifier; an identifier whose *)
(* attempt is over and whose peer is closed and forgotten is used again,   *)
(* and so are detached slots nobody refers to.  Statistics are left out,   *)
(* backoff delays are a flag that time clears.                             *)
(***************************************************************************)
EXTENDS Naturals, FiniteSets

CONSTANTS
  Callers,      \* goroutines in peerFor
  Endpoints,    \* addresses the registry gives the remote node
  SlotIds,      \* peerSlot objects
  Dials,        \* connection attempts and the peers they yield
  None,
  MaxReloads,   \* bound on registry reloads
  Overlap       \* may Reload run while a caller is inside peerFor?

SlotsAssumption ==
  /\ None \notin Endpoints \cup SlotIds \cup Dials
  /\ MaxReloads \in Nat /\ Overlap \in BOOLEAN

VARIABLES
  \* Node
  endpoint,     \* the registry's address of the remote node
  stopping,
  inMap,        \* the slot peerManager.slots holds
  slot,         \* the peerSlot objects
  dial,         \* connection goroutine: "free", "new", "dialing", "connected", "failed", "discard", "done"
  dialFor,      \* its slot and its address
  peer,         \* "none", "open", "done" (done channel closed), "closed"
  \* Callers of peerFor
  pc, want, at, waits,
  \* Reload and Stop
  reload, reloadCloses, reloads,
  stop, stopCloses

callerVars == <<pc, want, at, waits>>
reloadVars == <<reload, reloadCloses, reloads>>
stopVars == <<stop, stopCloses>>
dialVars == <<dial, dialFor, peer>>
vars == <<endpoint, stopping, inMap, slot, dialVars, callerVars, reloadVars, stopVars>>

\* A slot as peerManager.slot makes it.
NewSlot ==
  [peer |-> None, state |-> "disconnected", endpoint |-> None, connecting |-> None, backoff |-> FALSE]

Init ==
  /\ endpoint \in Endpoints /\ stopping = FALSE
  /\ inMap = None /\ slot = [s \in SlotIds |-> NewSlot]
  /\ dial = [d \in Dials |-> "free"] /\ peer = [d \in Dials |-> "none"]
  /\ dialFor = [d \in Dials |-> [slot |-> None, endpoint |-> None]]
  /\ pc = [c \in Callers |-> "idle"] /\ want = [c \in Callers |-> None]
  /\ at = [c \in Callers |-> None] /\ waits = [c \in Callers |-> None]
  /\ reload = "idle" /\ reloadCloses = None /\ reloads = 0
  /\ stop = "idle" /\ stopCloses = None

\* Reload holds n.mu from install to the last close.
MuFree == reload = "idle"

InPeerFor(c) == pc[c] \notin {"idle", "ok", "failed"}
FreeSlots ==
  {s \in SlotIds : s # inMap /\ slot[s].peer = None /\ slot[s].connecting = None
                     /\ \A c \in Callers : at[c] # s}
FreeDials ==
  {d \in Dials \ {reloadCloses, stopCloses} :
                   dial[d] \in {"free", "done"} /\ peer[d] \in {"none", "closed"}
                   /\ (\A s \in SlotIds : slot[s].peer # d)
                   /\ (\A c \in Callers : waits[c] # d)}
-----------------------------------------------------------------------------
\* peerFor returns: its locals go.
Return(c, result) ==
  /\ pc' = [pc EXCEPT ![c] = result]
  /\ want' = [want EXCEPT ![c] = None] /\ at' = [at EXCEPT ![c] = None]
  /\ waits' = [waits EXCEPT ![c] = None]

\* endpoint reads the stopping flag, then the registry.
BeginPeerFor(c) ==
  /\ ~InPeerFor(c) /\ MuFree
  /\ Return(c, IF stopping THEN "failed" ELSE "endpoint")
  /\ UNCHANGED <<endpoint, stopping, inMap, slot, dialVars, reloadVars, stopVars>>

ReadEndpoint(c) ==
  /\ pc[c] = "endpoint"
  /\ pc' = [pc EXCEPT ![c] = IF endpoint = None THEN "failed" ELSE "slot"]
  /\ want' = [want EXCEPT ![c] = endpoint]
  /\ UNCHANGED <<endpoint, stopping, inMap, slot, dialVars, at, waits, reloadVars, stopVars>>

\* peerManager.slot.
TakeSlot(c) ==
  /\ pc[c] = "slot" /\ pc' = [pc EXCEPT ![c] = "loop"]
  /\ \/ /\ inMap # None
        /\ at' = [at EXCEPT ![c] = inMap]
        /\ UNCHANGED <<inMap, slot>>
     \/ /\ inMap = None
        /\ \E s \in FreeSlots : /\ inMap' = s /\ at' = [at EXCEPT ![c] = s]
                                /\ slot' = [slot EXCEPT ![s] = NewSlot]
  /\ UNCHANGED <<endpoint, stopping, dialVars, want, waits, reloadVars, stopVars>>

\* isClosed.
IsClosed(p) == peer[p] \in {"done", "closed"}

Usable(s, e) == slot[s].peer # None /\ ~IsClosed(slot[s].peer) /\ dialFor[slot[s].peer].endpoint = e

\* The slot once a closed peer has been dropped.
Reaped(s) ==
  IF slot[s].peer # None /\ IsClosed(slot[s].peer)
  THEN [slot[s] EXCEPT !.peer = None, !.state = "backoff",
                       !.backoff = IF slot[s].state = "backoff" THEN slot[s].backoff ELSE TRUE]
  ELSE slot[s]

BackingOff(s, e) == Reaped(s).state = "backoff" /\ Reaped(s).backoff /\ Reaped(s).endpoint = e

\* One turn of the loop, under slot.mu: use the peer, wait for the attempt under way,
\* fail while backing off, or announce an attempt.
UsePeer(c) ==
  /\ pc[c] = "loop" /\ Usable(at[c], want[c])
  /\ Return(c, "ok")
  /\ UNCHANGED <<endpoint, stopping, inMap, slot, dialVars, reloadVars, stopVars>>

WaitConnecting(c) ==
  /\ pc[c] = "loop" /\ ~Usable(at[c], want[c]) /\ slot[at[c]].connecting # None
  /\ slot' = [slot EXCEPT ![at[c]] = Reaped(at[c])]
  /\ pc' = [pc EXCEPT ![c] = "wait"]
  /\ waits' = [waits EXCEPT ![c] = slot[at[c]].connecting]
  /\ UNCHANGED <<endpoint, stopping, inMap, dialVars, want, at, reloadVars, stopVars>>

FailBackoff(c) ==
  /\ pc[c] = "loop" /\ ~Usable(at[c], want[c]) /\ slot[at[c]].connecting = None
  /\ BackingOff(at[c], want[c])
  /\ slot' = [slot EXCEPT ![at[c]] = Reaped(at[c])]
  /\ Return(c, "failed")
  /\ UNCHANGED <<endpoint, stopping, inMap, dialVars, reloadVars, stopVars>>

Announce(c) ==
  /\ pc[c] = "loop" /\ ~Usable(at[c], want[c]) /\ slot[at[c]].connecting = None
  /\ ~BackingOff(at[c], want[c])
  /\ \E d \in FreeDials :
       /\ slot' = [slot EXCEPT ![at[c]] =
            [Reaped(at[c]) EXCEPT !.connecting = d, !.state = "connecting", !.endpoint = want[c]]]
       /\ dial' = [dial EXCEPT ![d] = "new"] /\ peer' = [peer EXCEPT ![d] = "none"]
       /\ dialFor' = [dialFor EXCEPT ![d] = [slot |-> at[c], endpoint |-> want[c]]]
       /\ waits' = [waits EXCEPT ![c] = d]
  /\ pc' = [pc EXCEPT ![c] = "spawn"]
  /\ UNCHANGED <<endpoint, stopping, inMap, want, at, reloadVars, stopVars>>

\* The flag is read again, under n.mu, before the goroutine is counted and started.
Spawn(c) ==
  LET d == waits[c] IN
  /\ pc[c] = "spawn" /\ MuFree
  /\ IF stopping
     THEN /\ slot' = IF slot[at[c]].connecting = d
                     THEN [slot EXCEPT ![at[c]].connecting = None, ![at[c]].state = "closing"]
                     ELSE slot
          /\ dial' = [dial EXCEPT ![d] = "done"] /\ Return(c, "failed")
     ELSE /\ dial' = [dial EXCEPT ![d] = "dialing"] /\ pc' = [pc EXCEPT ![c] = "wait"]
          /\ UNCHANGED <<slot, want, at, waits>>
  /\ UNCHANGED <<endpoint, stopping, inMap, dialFor, peer, reloadVars, stopVars>>

Woken(c) ==
  /\ pc[c] = "wait" /\ dial[waits[c]] = "done"
  /\ pc' = [pc EXCEPT ![c] = "loop"] /\ waits' = [waits EXCEPT ![c] = None]
  /\ UNCHANGED <<endpoint, stopping, inMap, slot, dialVars, want, at, reloadVars, stopVars>>

\* The context of the caller ends.
GiveUp(c) ==
  /\ pc[c] = "wait"
  /\ Return(c, "failed")
  /\ UNCHANGED <<endpoint, stopping, inMap, slot, dialVars, reloadVars, stopVars>>
-----------------------------------------------------------------------------
\* dialPeer: dial and handshake; the loops of the peer run from here on.
DialPeer(d, up) ==
  /\ dial[d] = "dialing"
  /\ dial' = [dial EXCEPT ![d] = IF up THEN "connected" ELSE "failed"]
  /\ peer' = [peer EXCEPT ![d] = IF up THEN "open" ELSE "none"]
  /\ UNCHANGED <<endpoint, stopping, inMap, slot, dialFor, callerVars, reloadVars, stopVars>>

\* The slot was detached, or belongs to another attempt, while this one dialled.
OvertakenByAttempt(d) == slot[dialFor[d].slot].connecting # d

Overtaken(d) ==
  LET s == slot[dialFor[d].slot] IN
  s.connecting # d \/ s.endpoint # dialFor[d].endpoint \/ s.state = "closing"

\* connectSlot, under slot.mu.
ConnectSlot(d) ==
  LET s == dialFor[d].slot IN
  /\ dial[d] \in {"connected", "failed"}
  /\ IF Overtaken(d)
     THEN /\ slot' = IF slot[s].connecting = d THEN [slot EXCEPT ![s].connecting = None] ELSE slot
          /\ dial' = [dial EXCEPT ![d] = "discard"]
     ELSE /\ slot' = [slot EXCEPT ![s].connecting = None,
                                  ![s].peer = IF dial[d] = "connected" THEN d ELSE None,
                                  ![s].state = IF dial[d] = "connected" THEN "ready" ELSE "backoff",
                                  ![s].backoff = (dial[d] = "failed")]
          /\ dial' = [dial EXCEPT ![d] = "done"]
  /\ UNCHANGED <<endpoint, stopping, inMap, dialFor, peer, callerVars, reloadVars, stopVars>>

\* Its unwanted peer is closed before the done channel of the attempt; a close that
\* runs elsewhere is waited for.
Discard(d) ==
  /\ dial[d] = "discard" /\ peer[d] # "done"
  /\ peer' = [peer EXCEPT ![d] = IF @ = "open" THEN "closed" ELSE @]
  /\ dial' = [dial EXCEPT ![d] = "done"]
  /\ UNCHANGED <<endpoint, stopping, inMap, slot, dialFor, callerVars, reloadVars, stopVars>>

\* peer.close begins, on an error of the connection ...
PeerDone(d) ==
  /\ peer[d] = "open"
  /\ peer' = [peer EXCEPT ![d] = "done"]
  /\ UNCHANGED <<endpoint, stopping, inMap, slot, dial, dialFor, callerVars, reloadVars, stopVars>>

\* ... and ends with peerClosed.
PeerClosed(d) ==
  LET s == dialFor[d].slot IN
  /\ peer[d] = "done"
  /\ peer' = [peer EXCEPT ![d] = "closed"]
  /\ slot' = IF slot[s].peer # d THEN slot
             ELSE [slot EXCEPT ![s].peer = None, ![s].state = "backoff", ![s].backoff = TRUE]
  /\ UNCHANGED <<endpoint, stopping, inMap, dial, dialFor, callerVars, reloadVars, stopVars>>

BackoffElapses(s) ==
  /\ slot[s].backoff
  /\ slot' = [slot EXCEPT ![s].backoff = FALSE]
  /\ UNCHANGED <<endpoint, stopping, inMap, dialVars, callerVars, reloadVars, stopVars>>
-----------------------------------------------------------------------------
\* registryManager.install: a node that appears is not a change.
Changed(e) == endpoint # None

Install(e) ==
  /\ reload = "idle" /\ reloads < MaxReloads /\ e # endpoint
  /\ Overlap \/ \A c \in Callers : ~InPeerFor(c)
  /\ reloads' = reloads + 1
  /\ endpoint' = e
  /\ reload' = IF Changed(e) THEN "detach" ELSE "idle"
  /\ UNCHANGED <<stopping, inMap, slot, dialVars, callerVars, reloadCloses, stopVars>>

\* detachSlot, on the slot in the map if there is one.
Detached ==
  IF inMap = None THEN slot
  ELSE [slot EXCEPT ![inMap].peer = None, ![inMap].state = "closing", ![inMap].endpoint = None]

Closing == IF inMap = None THEN None ELSE slot[inMap].peer

\* closeChanged: detach the slots, forget them, then close their peers.
CloseChanged ==
  /\ reload = "detach" /\ reload' = "close"
  /\ slot' = Detached /\ inMap' = None
  /\ reloadCloses' = Closing
  /\ UNCHANGED <<endpoint, stopping, dialVars, callerVars, reloads, stopVars>>

\* p.close, by whoever comes first, is over when Reload goes on.
ClosePeer(p) ==
  /\ p # None /\ peer[p] = "open"
  /\ peer' = [peer EXCEPT ![p] = "done"]
  /\ UNCHANGED <<endpoint, stopping, inMap, slot, dial, dialFor, callerVars, reloadVars, stopVars>>

ReloadReturns ==
  /\ reload = "close" /\ (reloadCloses # None => peer[reloadCloses] = "closed")
  /\ reload' = "idle" /\ reloadCloses' = None
  /\ UNCHANGED <<endpoint, stopping, inMap, slot, dialVars, callerVars, reloads, stopVars>>

StopFlag ==
  /\ stop = "idle" /\ MuFree
  /\ stop' = "detach" /\ stopping' = TRUE
  /\ UNCHANGED <<endpoint, inMap, slot, dialVars, callerVars, reloadVars, stopCloses>>

CloseAll ==
  /\ stop = "detach" /\ stop' = "close"
  /\ slot' = Detached /\ inMap' = None
  /\ stopCloses' = Closing
  /\ UNCHANGED <<endpoint, stopping, dialVars, callerVars, reloadVars>>

\* What n.wg counts: connection goroutines and the loops of peers.
Counted ==
  {d \in Dials : dial[d] \in {"dialing", "connected", "failed", "discard"} \/ peer[d] \in {"open", "done"}}

StopReturns ==
  /\ stop = "close" /\ (stopCloses # None => peer[stopCloses] = "closed")
  /\ Counted = {}
  /\ stop' = "returned" /\ stopCloses' = None
  /\ UNCHANGED <<endpoint, stopping, inMap, slot, dialVars, callerVars, reloadVars>>
-----------------------------------------------------------------------------
CallerStep(c) ==
  \/ ReadEndpoint(c) \/ TakeSlot(c) \/ UsePeer(c) \/ WaitConnecting(c)
  \/ FailBackoff(c) \/ Announce(c) \/ Spawn(c) \/ Woken(c)

ConnectStep(d) == (\E up \in BOOLEAN : DialPeer(d, up)) \/ ConnectSlot(d) \/ Discard(d) \/ PeerClosed(d)

ManagerStep ==
  \/ CloseChanged \/ ClosePeer(reloadCloses) \/ ReloadReturns
  \/ CloseAll \/ ClosePeer(stopCloses) \/ StopReturns

Next ==
  \/ \E c \in Callers : BeginPeerFor(c) \/ CallerStep(c) \/ GiveUp(c)
  \/ \E d \in Dials : ConnectStep(d) \/ PeerDone(d)
  \/ \E s \in SlotIds : BackoffElapses(s)
  \/ \E e \in Endpoints \cup {None} : Install(e)
  \/ ManagerStep \/ StopFlag

Spec == Init /\ [][Next]_vars

\* Goroutines that can run do, and the mutexes they contend for starve nobody; dials
\* end by their timeout.  The context of a caller ends at some point and stays ended,
\* so a caller that comes back to wait gives up.
Fairness ==
  /\ \A c \in Callers : SF_vars(CallerStep(c)) /\ SF_vars(GiveUp(c))
  /\ \A d \in Dials : WF_vars(ConnectStep(d))
  /\ WF_vars(ManagerStep)

FairSpec == Spec /\ Fairness
-----------------------------------------------------------------------------
(* Properties *)

\* An open peer can be found by Reload and Stop: it is in the slot of the map, about
\* to be put there or discarded, or being closed.
NoPeerLost ==
  \A d \in Dials : peer[d] = "open" /\ dial[d] = "done" =>
    d \in {reloadCloses, stopCloses} \/ (inMap # None /\ slot[inMap].peer = d)

\* "Reload ... closes cached senders ... for changed or removed nodes": between
\* reloads, once no attempt is under way, every open sender that Stop is not closing
\* goes to the address the registry has now.
SendersAreCurrent ==
  MuFree /\ (\A d \in Dials : dial[d] \in {"free", "done"}) =>
    \A d \in Dials : peer[d] = "open" /\ d # stopCloses => dialFor[d].endpoint = endpoint

\* Node.Stop returns without the help of its context.
StopEnds == stopping ~> stop = "returned"
===============================================================================
