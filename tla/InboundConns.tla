----------------------------- MODULE InboundConns -----------------------------
(***************************************************************************)
(* The connections a cluster node accepts, from the accept loop to the end *)
(* of their read loop (cluster/inbound.go: acceptLoop, acceptConn), with   *)
(* Reload and Stop (cluster/node.go) closing them.                         *)
(*                                                                         *)
(* The frames of a connection are the subject of InboundDispatch; here the *)
(* read loop ends for any reason.  Identifiers of connections are used     *)
(* again.  The context of Stop and the peers that Stop closes (PeerSlots)  *)
(* are left out.                                                           *)
(***************************************************************************)
EXTENDS Naturals

CONSTANTS
  Conns,         \* accepted connections
  Remotes,       \* the nodes that connect
  Endpoints,     \* the addresses a registry gives them
  None,          \* no address
  MaxReloads     \* bound on registry reloads

ConnsAssumption == None \notin Endpoints /\ MaxReloads \in Nat

VARIABLES
  registry,      \* the address of each remote node, or None
  listening,     \* the listener is open
  halting,       \* n.stopping; n.ctx ends with it
  acceptor,      \* acceptLoop: "accept", "exited"
  conn,          \* acceptConn: "none", "hello", "ack", "enter", "serve", "leave"
  remote,        \* the node that said hello
  socket,        \* open on this side
  inbound,       \* n.inbound
  reloadConns,   \* what Reload still has to close
  reloadsDone,
  halt,          \* Stop: "idle", "listener", "close", "wait", "returned"
  haltConns      \* what Stop still has to close

reloadVars == <<registry, reloadConns, reloadsDone>>
haltVars == <<listening, halting, halt, haltConns>>
connVars == <<conn, remote, socket>>
vars == <<reloadVars, haltVars, acceptor, connVars, inbound>>

Init ==
  /\ registry \in [Remotes -> Endpoints] /\ reloadConns = {} /\ reloadsDone = 0
  /\ listening = TRUE /\ halting = FALSE /\ halt = "idle" /\ haltConns = {}
  /\ acceptor = "accept" /\ inbound = {}
  /\ conn = [c \in Conns |-> "none"] /\ socket = [c \in Conns |-> FALSE]
  /\ remote \in [Conns -> Remotes]
-----------------------------------------------------------------------------
(* acceptLoop *)

\* Cancelling n.ctx does not keep the listener from accepting.
Accept(c, r) ==
  /\ acceptor = "accept" /\ listening /\ conn[c] = "none"
  /\ c \notin reloadConns \cup haltConns
  /\ conn' = [conn EXCEPT ![c] = "hello"] /\ remote' = [remote EXCEPT ![c] = r]
  /\ socket' = [socket EXCEPT ![c] = TRUE]
  /\ UNCHANGED <<reloadVars, haltVars, acceptor, inbound>>

\* Accept failed and n.ctx has ended; other failures are retried.
AcceptEnds ==
  /\ acceptor = "accept" /\ halting
  /\ acceptor' = "exited"
  /\ UNCHANGED <<reloadVars, haltVars, connVars, inbound>>
-----------------------------------------------------------------------------
(* acceptConn *)

Goes(c, from, to) == conn[c] = from /\ conn' = [conn EXCEPT ![c] = to]

\* The goroutine ends with its socket closed.
Drop(c, from) ==
  /\ Goes(c, from, "none")
  /\ socket' = [socket EXCEPT ![c] = FALSE]
  /\ UNCHANGED <<reloadVars, haltVars, acceptor, remote, inbound>>

\* The hello of a known node; it may fail or come too late.
Hello(c) ==
  \/ /\ Goes(c, "hello", "ack") /\ registry[remote[c]] # None
     /\ UNCHANGED <<reloadVars, haltVars, acceptor, remote, socket, inbound>>
  \/ Drop(c, "hello")

Ack(c) ==
  \/ /\ Goes(c, "ack", "enter")
     /\ UNCHANGED <<reloadVars, haltVars, acceptor, remote, socket, inbound>>
  \/ Drop(c, "ack")

EnterAnyway(c) ==
  /\ Goes(c, "enter", "serve")
  /\ inbound' = inbound \cup {c}
  /\ UNCHANGED <<reloadVars, haltVars, acceptor, remote, socket>>

\* Under n.mu: enter n.inbound, unless Stop has been there.
Enter(c) ==
  \/ ~halting /\ EnterAnyway(c)
  \/ halting /\ Drop(c, "enter")

\* The read fails, or a frame violates the protocol; the deferred close.
ReadEnds(c) ==
  /\ Goes(c, "serve", "leave")
  /\ socket' = [socket EXCEPT ![c] = FALSE]
  /\ UNCHANGED <<reloadVars, haltVars, acceptor, remote, inbound>>

Leave(c) ==
  /\ Goes(c, "leave", "none")
  /\ inbound' = inbound \ {c}
  /\ UNCHANGED <<reloadVars, haltVars, acceptor, remote, socket>>
-----------------------------------------------------------------------------
(* Reload and Stop *)

\* registryManager.install: a node that appears is not a change.
Changed(next) == {r \in Remotes : registry[r] # None /\ next[r] # registry[r]}

Reload(next) ==
  /\ reloadConns = {} /\ reloadsDone < MaxReloads /\ next # registry
  /\ registry' = next /\ reloadsDone' = reloadsDone + 1
  /\ reloadConns' = {c \in inbound : remote[c] \in Changed(next)}
  /\ UNCHANGED <<haltVars, acceptor, connVars, inbound>>

\* conn.close; its read loop sees a read that fails.
ReloadCloses(c) ==
  /\ c \in reloadConns /\ reloadConns' = reloadConns \ {c}
  /\ socket' = [socket EXCEPT ![c] = FALSE]
  /\ UNCHANGED <<registry, reloadsDone, haltVars, acceptor, conn, remote, inbound>>

BeginStop ==
  /\ halt = "idle" /\ halt' = "listener"
  /\ halting' = TRUE /\ haltConns' = inbound
  /\ UNCHANGED <<reloadVars, listening, acceptor, connVars, inbound>>

StopCloses(c) ==
  /\ halt = "close" /\ c \in haltConns /\ haltConns' = haltConns \ {c}
  /\ socket' = [socket EXCEPT ![c] = FALSE]
  /\ UNCHANGED <<reloadVars, listening, halting, halt, acceptor, conn, remote, inbound>>

StopStep ==
  \/ /\ halt = "listener" /\ halt' = "close" /\ listening' = FALSE
     /\ UNCHANGED <<reloadVars, halting, haltConns, acceptor, connVars, inbound>>
  \/ \E c \in Conns : StopCloses(c)
  \* n.wg counts the accept loop and the goroutines of its connections.
  \/ /\ halt = "close" /\ haltConns = {}
     /\ acceptor = "exited" /\ \A c \in Conns : conn[c] = "none"
     /\ halt' = "returned"
     /\ UNCHANGED <<reloadVars, listening, halting, haltConns, acceptor, connVars, inbound>>
-----------------------------------------------------------------------------
ConnStep(c) == Hello(c) \/ Ack(c) \/ Enter(c) \/ Leave(c)

Next ==
  \/ AcceptEnds \/ BeginStop \/ StopStep
  \/ \E c \in Conns : ConnStep(c) \/ ReadEnds(c) \/ ReloadCloses(c) \/ \E r \in Remotes : Accept(c, r)
  \/ \E next \in [Remotes -> Endpoints \cup {None}] : Reload(next)

Spec == Init /\ [][Next]_vars

\* Goroutines that can run do, and a handshake ends by HandshakeTimeout.  A read is
\* sure to end only on a socket that was closed on this side, and the accept loop only
\* when the listener was.
Fairness ==
  /\ WF_vars(AcceptEnds /\ ~listening) /\ WF_vars(StopStep)
  /\ \A c \in Conns :
       WF_vars(ConnStep(c)) /\ WF_vars(ReadEnds(c) /\ ~socket[c]) /\ WF_vars(ReloadCloses(c))
-----------------------------------------------------------------------------
(* Properties *)

\* Node.Stop ends whatever connections are being accepted, verified, served or closed
\* by a Reload meanwhile, and leaves none behind.
StopEnds == halting ~> halt = "returned" /\ inbound = {} /\ \A c \in Conns : ~socket[c]
===============================================================================
