---------------------------- MODULE ClusterSlots ----------------------------
(***************************************************************************)
(* The slots in which a cluster node keeps the senders to a remote node,   *)
(* beside the two ends of its connections.                                 *)
(***************************************************************************)
EXTENDS Nil

CONSTANTS Callers, Endpoints, SlotIds, Dials, MaxReloads, Overlap

VARIABLES
  endpoint, stopping, inMap, slot, dial, dialFor, peer, callerPc, want, at, waits,
  reload, reloadCloses, reloads, stop, stopCloses

slotsVars ==
  <<endpoint, stopping, inMap, slot, dial, dialFor, peer, callerPc, want, at, waits, reload,
    reloadCloses, reloads, stop, stopCloses>>

Slots == INSTANCE PeerSlots WITH pc <- callerPc

\* An open peer can be found by Reload and Stop: it is in the slot of the map, about
\* to be put there or discarded, or being closed.
NoPeerLost == Slots!NoPeerLost
=============================================================================
