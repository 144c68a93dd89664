------------------------------ MODULE MCTransport ------------------------------
(***************************************************************************)
(* The TCP packages for TLC: a behaviour is one of a slot of tcppool, with *)
(* a readFn or send-only, of the request pool of tcpsync, or of a gate     *)
(* server, without a read timeout or with one and without traffic; the     *)
(* others rest.                                                            *)
(***************************************************************************)
EXTENDS TcpPool, Transports, TLC

VARIABLE subject   \* what the behaviour is about

SendOnlySlot == INSTANCE TcpPool WITH SendOnly <- TRUE
Timed == INSTANCE Gate WITH ReadTimeout <- TRUE, MaxSends <- 0

ASSUME TransportAssumption ==
  SendOnlySlot!TcpPoolAssumption /\ Sync!SyncPoolAssumption /\ Gated!GateAssumption

\* A slot that is not the subject has been closed before it had a connection.
ClosedSlot ==
  /\ stopped = TRUE /\ closer = "done" /\ conn = None /\ live = {}
  /\ lifecycle = "exited" /\ mine = None
  /\ sender = "exited" /\ held = None /\ hand = None
  /\ sendCh = <<>> /\ call = [m \in Messages |-> "new"]
  /\ settled = <<>>

TransportInit ==
  /\ subject \in {"slot", "sendonly", "sync", "gate", "timed gate"}
  /\ IF subject \in {"slot", "sendonly"} THEN Init ELSE ClosedSlot
  /\ Sync!Init /\ Gated!Init

TransportNext ==
  /\ \/ subject = "slot" /\ Next /\ UNCHANGED <<syncVars, gateVars>>
     \/ subject = "sendonly" /\ SendOnlySlot!Next /\ UNCHANGED <<syncVars, gateVars>>
     \/ subject = "sync" /\ Sync!Next /\ UNCHANGED <<vars, gateVars>>
     \/ subject = "gate" /\ Gated!Next /\ UNCHANGED <<vars, syncVars>>
     \/ subject = "timed gate" /\ Timed!Next /\ UNCHANGED <<vars, syncVars>>
  /\ UNCHANGED subject

\* Both goroutines of a slot keep running; readFn fails once the local end is closed;
\* the address accepts a connection now and then, and a connection lives long enough
\* now and then for a woken sender to find it.
SlotFairness ==
  /\ WF_vars(IF subject = "sendonly" THEN SendOnlySlot!LifecycleStep ELSE LifecycleStep)
  /\ WF_vars(SendLoopStep) /\ WF_vars(StopClose)
  /\ WF_vars(subject = "slot" /\ ReadReturns /\ mine \notin live)
  /\ SF_vars(\E c \in Conns : DialSucceeds(c))
  /\ SF_vars(WaitConn /\ conn # None)

\* The goroutines of a gate server keep running, in both of its modes.
GateFairness ==
  /\ WF_gateVars(Gated!Register \/ Gated!Spawn \/ Gated!AcceptDelay)
  /\ WF_gateVars(Gated!AcceptFails /\ ~listening)
  /\ WF_gateVars(Gated!StopCloses) /\ WF_gateVars(Gated!StopReturns)
  /\ \A c \in Clients :
       /\ WF_gateVars(Gated!RunStep(c)) /\ WF_gateVars(Gated!WriterStep(c))
       /\ WF_gateVars(IF subject = "timed gate"
                      THEN Timed!ReadFails(c) ELSE Gated!ReadFails(c) /\ ~open[c])

TransportSpec ==
  /\ TransportInit /\ [][TransportNext]_<<subject, vars, syncVars, gateVars>>
  /\ SlotFairness /\ Sync!Fairness /\ GateFairness
-----------------------------------------------------------------------------
\* A message that Send accepted on a slot with a readFn is dealt with unless the pool
\* is closed.
MessageIsSettled ==
  \A m \in Messages :
     subject = "slot" /\ call[m] = "accepted" ~> m \in Range(settled) \/ stopped

\* With a read timeout, Stop comes to its end once it has begun, by itself.
StopTerminates ==
  subject = "timed gate" /\ stopper = "lock" ~> stopper \in {"returned", "expired"}
===============================================================================
