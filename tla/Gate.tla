--------------------------------- MODULE Gate ---------------------------------
(***************************************************************************)
(* The framed TCP server for external clients (gate/server.go with         *)
(* internal/netutil/accept.go): the accept loop, the reader and the writer *)
(* of each connection, the application that sends on it or closes it, and  *)
(* Stop.  Payloads are counted; OnMessage changes nothing of the server.   *)
(* Start is not called after Stop.                                         *)
(***************************************************************************)
EXTENDS Integers, FiniteSets

CONSTANTS
  Clients,          \* connection attempts of one behaviour
  None,             \* no connection
  MaxConnections,   \* Options.MaxConnections
  SendQueue,        \* Options.SendQueue
  MaxSends,         \* bound on the payloads sent on one connection
  ReadTimeout       \* Options.ReadTimeout is set, and clients fall silent

GateAssumption ==
  /\ IsFiniteSet(Clients) /\ None \notin Clients
  /\ MaxConnections \in Nat \ {0} /\ SendQueue \in Nat \ {0} /\ MaxSends \in Nat
  /\ ReadTimeout \in BOOLEAN

VARIABLES
  \* Server
  listening,     \* s.listener is open
  connections,   \* s.connections
  stopping,      \* s.stopping is closed
  wg,            \* s.wg
  \* Goroutines
  acceptor,      \* where acceptLoop is
  raw,           \* the connection it has accepted
  stopper,       \* where Stop is
  reader,        \* where run of a connection is
  writer,        \* where its write goroutine is
  \* Conn
  open,          \* the socket is open on this side
  done,          \* c.done is closed
  queue,         \* len(c.send)
  accepted       \* bound: payloads that Send has taken

serverVars == <<listening, connections, stopping>>
acceptVars == <<acceptor, raw>>
connVars == <<open, done>>
payloadVars == <<queue, accepted>>
vars == <<serverVars, wg, acceptVars, stopper, reader, writer, connVars, payloadVars>>

Init ==
  /\ listening = FALSE /\ connections = {} /\ stopping = FALSE /\ wg = 0
  /\ acceptor = "none" /\ raw = None /\ stopper = "idle"
  /\ reader = [c \in Clients |-> "none"]
  /\ writer = [c \in Clients |-> "none"]
  /\ open = [c \in Clients |-> FALSE]
  /\ done = [c \in Clients |-> FALSE]
  /\ queue = [c \in Clients |-> 0]
  /\ accepted = [c \in Clients |-> 0]
-----------------------------------------------------------------------------
\* Start: the accept loop is counted before it runs.
Start ==
  /\ acceptor = "none" /\ stopper = "idle"
  /\ acceptor' = "accept" /\ listening' = TRUE /\ wg' = wg + 1
  /\ UNCHANGED <<connections, stopping, raw, stopper, reader, writer, connVars, payloadVars>>

\* netutil.Accept: a connection ...
Accept(c) ==
  /\ acceptor = "accept" /\ listening /\ reader[c] = "none"
  /\ acceptor' = "lock" /\ raw' = c
  /\ reader' = [reader EXCEPT ![c] = "accepted"]
  /\ open' = [open EXCEPT ![c] = TRUE]
  /\ UNCHANGED <<serverVars, wg, stopper, writer, done, payloadVars>>

ExitsUncounted == acceptor' = "exited" /\ UNCHANGED wg

AcceptLoopExits == acceptor' = "exited" /\ wg' = wg - 1

\* ... or an error, which ends the loop if the server is stopping ...
AcceptFails ==
  /\ acceptor = "accept"
  /\ IF stopping THEN AcceptLoopExits ELSE acceptor' = "delay" /\ UNCHANGED wg
  /\ UNCHANGED <<serverVars, raw, stopper, reader, writer, connVars, payloadVars>>

\* ... and is retried after a delay otherwise.
AcceptDelay ==
  /\ acceptor = "delay"
  /\ \/ acceptor' = "accept" /\ UNCHANGED wg
     \/ stopping /\ AcceptLoopExits
  /\ UNCHANGED <<serverVars, raw, stopper, reader, writer, connVars, payloadVars>>

\* acceptLoop, under s.mu: a connection above the limit is closed, any other is
\* registered, also when the server is stopping.
LimitReached == Cardinality(connections) >= MaxConnections

Register ==
  /\ acceptor = "lock"
  /\ IF LimitReached
     THEN /\ acceptor' = "accept" /\ raw' = None
          /\ open' = [open EXCEPT ![raw] = FALSE]
          /\ reader' = [reader EXCEPT ![raw] = "rejected"]
          /\ UNCHANGED connections
     ELSE /\ acceptor' = "spawn"
          /\ connections' = connections \cup {raw}
          /\ UNCHANGED <<raw, open, reader>>
  /\ UNCHANGED <<listening, stopping, wg, stopper, writer, done, payloadVars>>

\* The goroutine of the connection is counted before it starts.
CountLater(c) == wg' = wg

CountRun(c) == wg' = wg + 1

Spawn ==
  /\ acceptor = "spawn" /\ acceptor' = "accept"
  /\ CountRun(raw)
  /\ reader' = [reader EXCEPT ![raw] = "open"]
  /\ raw' = None
  /\ UNCHANGED <<serverVars, stopper, writer, connVars, payloadVars>>
-----------------------------------------------------------------------------
\* Conn.Close, which only works once.
CloseConns(cs) ==
  /\ done' = [c \in Clients |-> done[c] \/ c \in cs]
  /\ open' = [c \in Clients |-> open[c] /\ c \notin cs]

Goto(c, from, to) == reader[c] = from /\ reader' = [reader EXCEPT ![c] = to]
WriterGoto(c, from, to) == writer[c] = from /\ writer' = [writer EXCEPT ![c] = to]

\* run: OnOpen, then the write goroutine is started and readLoop entered.
OnOpen(c) ==
  /\ Goto(c, "open", "read")
  /\ writer' = [writer EXCEPT ![c] = "select"]
  /\ UNCHANGED <<serverVars, wg, acceptVars, stopper, connVars, payloadVars>>

\* readLoop returns an error: the client is gone, a bad frame, the read deadline, or
\* the socket was closed here.
ReadFails(c) ==
  /\ Goto(c, "read", "close")
  /\ UNCHANGED <<serverVars, wg, acceptVars, stopper, writer, connVars, payloadVars>>

\* run: Close, ...
ReaderCloses(c) ==
  /\ Goto(c, "close", "remove")
  /\ CloseConns({c})
  /\ UNCHANGED <<serverVars, wg, acceptVars, stopper, writer, payloadVars>>

\* ... remove, ...
Remove(c) ==
  /\ Goto(c, "remove", "onclose")
  /\ connections' = connections \ {c}
  /\ UNCHANGED <<listening, stopping, wg, acceptVars, stopper, writer, connVars, payloadVars>>

\* ... and OnClose; the goroutine ends.
OnClose(c) ==
  /\ Goto(c, "onclose", "finished")
  /\ wg' = wg - 1
  /\ UNCHANGED <<serverVars, acceptVars, stopper, writer, connVars, payloadVars>>
-----------------------------------------------------------------------------
\* writeLoop: the next payload, ...
WriterTakes(c) ==
  /\ WriterGoto(c, "select", "write")
  /\ queue[c] > 0
  /\ queue' = [queue EXCEPT ![c] = @ - 1]
  /\ UNCHANGED <<serverVars, wg, acceptVars, stopper, reader, connVars, accepted>>

WriteSucceeds(c) ==
  /\ WriterGoto(c, "write", "select") /\ open[c]
  /\ UNCHANGED <<serverVars, wg, acceptVars, stopper, reader, connVars, queue, accepted>>

\* ... until c.done or an error, ...
WriterEnds(c) ==
  /\ \/ done[c] /\ WriterGoto(c, "select", "close")
     \/ WriterGoto(c, "write", "close")
  /\ UNCHANGED <<serverVars, wg, acceptVars, stopper, reader, connVars, payloadVars>>

\* ... after which the write goroutine closes the connection.
WriterCloses(c) ==
  /\ WriterGoto(c, "close", "ended")
  /\ CloseConns({c})
  /\ UNCHANGED <<serverVars, wg, acceptVars, stopper, reader, payloadVars>>
-----------------------------------------------------------------------------
\* The application knows the connection from OnOpen on.
Known(c) == reader[c] \in {"open", "read", "close", "remove", "onclose", "finished"}

\* There is a free place in c.send.
HasRoom(c) == queue[c] < SendQueue

\* Send and TrySend: a free place in c.send may win over c.done.
Send(c) ==
  /\ Known(c) /\ accepted[c] < MaxSends
  /\ HasRoom(c)
  /\ queue' = [queue EXCEPT ![c] = @ + 1]
  /\ accepted' = [accepted EXCEPT ![c] = @ + 1]
  /\ UNCHANGED <<serverVars, wg, acceptVars, stopper, reader, writer, connVars>>

Close(c) ==
  /\ Known(c) /\ ~done[c]
  /\ CloseConns({c})
  /\ UNCHANGED <<serverVars, wg, acceptVars, stopper, reader, writer, payloadVars>>
-----------------------------------------------------------------------------
\* Stop: close(s.stopping), ...
StopFlag ==
  /\ stopper = "idle" /\ stopper' = "lock"
  /\ stopping' = TRUE
  /\ UNCHANGED <<listening, connections, wg, acceptVars, reader, writer, connVars, payloadVars>>

\* ... under s.mu the listener and the registered connections, ...
StopCloses ==
  /\ stopper = "lock" /\ stopper' = "wait"
  /\ listening' = FALSE
  /\ CloseConns(connections)
  /\ UNCHANGED <<connections, stopping, wg, acceptVars, reader, writer, payloadVars>>

\* ... and the wait for s.wg, or for the context.
StopReturns ==
  /\ stopper = "wait" /\ wg = 0 /\ stopper' = "returned"
  /\ UNCHANGED <<serverVars, wg, acceptVars, reader, writer, connVars, payloadVars>>

StopExpires ==
  /\ stopper = "wait" /\ stopper' = "expired"
  /\ UNCHANGED <<serverVars, wg, acceptVars, reader, writer, connVars, payloadVars>>
-----------------------------------------------------------------------------
AcceptStep == AcceptFails \/ AcceptDelay \/ Register \/ Spawn

RunStep(c) == OnOpen(c) \/ ReaderCloses(c) \/ Remove(c) \/ OnClose(c)

WriterStep(c) == WriterTakes(c) \/ WriteSucceeds(c) \/ WriterEnds(c) \/ WriterCloses(c)

Next ==
  \/ Start \/ AcceptStep
  \/ \E c \in Clients :
       \/ Accept(c) \/ RunStep(c) \/ ReadFails(c) \/ WriterStep(c)
       \/ Send(c) \/ Close(c)
  \/ StopFlag \/ StopCloses \/ StopReturns \/ StopExpires

Spec == Init /\ [][Next]_vars

\* Goroutines run and callbacks return.  Accept fails on a closed listener and a
\* read on a closed socket; a read ends by its deadline only if there is one.
Fairness ==
  /\ WF_vars(Register \/ Spawn \/ AcceptDelay) /\ WF_vars(AcceptFails /\ ~listening)
  /\ WF_vars(StopCloses) /\ WF_vars(StopReturns)
  /\ \A c \in Clients :
       /\ WF_vars(RunStep(c)) /\ WF_vars(WriterStep(c))
       /\ WF_vars(ReadFails(c) /\ (ReadTimeout \/ ~open[c]))

FairSpec == Spec /\ Fairness
-----------------------------------------------------------------------------
(* Properties *)

\* Stop returns nil only when nothing is left: no accept loop, no connection between
\* OnOpen and OnClose, no entry and no open socket, also when a client was accepted
\* while Stop was closing the others.
StopIsClean ==
  stopper = "returned" =>
     /\ acceptor \in {"none", "exited"}
     /\ \A c \in Clients : reader[c] \in {"none", "rejected", "finished"} /\ ~open[c]
     /\ connections = {}

\* Stop comes to its end once it has begun, by itself.
StopTerminates == stopper = "lock" ~> stopper \in {"returned", "expired"}
===============================================================================
