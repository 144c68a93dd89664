------------------------------- MODULE TcpPool -------------------------------
(***************************************************************************)
(* One slot of the asynchronous TCP pool (tcppool/conn.go, tcppool/pool.go):*)
(* the lifecycle goroutine that dials, publishes and reads a connection,   *)
(* the sendLoop goroutine that writes queued messages to it, the callers   *)
(* of Send and the one of Close.  The slots of a pool share nothing but    *)
(* the round-robin counter and the order in which Close visits them.       *)
(*                                                                         *)
(* A connection is the local end of a socket; its number is used again     *)
(* once nobody refers to it.  Backoff delays are abstracted to the end of  *)
(* the timer.                                                              *)
(***************************************************************************)
EXTENDS Integers, Sequences, FiniteSets, SequencesExt, Nil

CONSTANTS
  Messages,      \* the messages of one behaviour
  Conns,         \* connection numbers
  SendBufSize,   \* Options.SendBufSize
  SendOnly       \* the pool has no readFn

ASSUME TcpPoolAssumption ==
  /\ IsFiniteSet(Messages) /\ IsFiniteSet(Conns)
  /\ None \notin Messages \cup Conns
  /\ SendBufSize \in Nat \ {0}
  /\ SendOnly \in BOOLEAN

VARIABLES
  stopped,     \* pc.stopped is closed
  closer,      \* where Close is
  conn,        \* pc.conn, the published connection
  live,        \* connections whose local end is open
  lifecycle,   \* where the lifecycle goroutine is
  mine,        \* its local variable conn
  sender,      \* where the sendLoop goroutine is
  held,        \* the connection it got from waitConn
  hand,        \* the message it has taken
  sendCh,      \* the queue of messages
  call,        \* where the call of Send for a message is
  settled      \* history: the messages written or given up, in order

lifeVars == <<lifecycle, mine>>
sendVars == <<held, hand, sendCh, settled>>
vars == <<stopped, closer, conn, live, lifeVars, sender, sendVars, call>>

Init ==
  /\ stopped = FALSE /\ closer = "idle"
  /\ conn = None /\ live = {}
  /\ lifecycle = "loop" /\ mine = None
  /\ sender = "select" /\ held = None /\ hand = None
  /\ sendCh = <<>>
  /\ call = [m \in Messages |-> "new"]
  /\ settled = <<>>
-----------------------------------------------------------------------------
\* connCv.Broadcast wakes the sender if it sleeps in connCv.Wait.
Broadcast == sender' = IF sender = "blocked" THEN "waitConn" ELSE sender

\* send: the first look at pc.stopped ...
SendCheck(m) ==
  /\ call[m] = "new"
  /\ call' = [call EXCEPT ![m] = IF stopped THEN "refused" ELSE "checked"]
  /\ UNCHANGED <<stopped, closer, conn, live, lifeVars, sender, sendVars>>

\* There is a free place in pc.sendCh.
HasRoom == Len(sendCh) < SendBufSize

\* ... and the select: the queue, or pc.stopped, or the default when it is full.
SendEnqueue(m) ==
  /\ call[m] = "checked"
  /\ \/ /\ HasRoom
        /\ call' = [call EXCEPT ![m] = "accepted"]
        /\ sendCh' = Append(sendCh, m)
     \/ /\ stopped \/ ~HasRoom
        /\ call' = [call EXCEPT ![m] = "refused"]
        /\ UNCHANGED sendCh
  /\ UNCHANGED <<stopped, closer, conn, live, lifeVars, sender, held, hand, settled>>
-----------------------------------------------------------------------------
\* lifecycle: the look at pc.stopped at the head of the loop.
LoopCheck ==
  /\ lifecycle = "loop"
  /\ lifecycle' = IF stopped THEN "exited" ELSE "dial"
  /\ UNCHANGED <<stopped, closer, conn, live, mine, sender, sendVars, call>>

DialFails ==
  /\ lifecycle = "dial" /\ lifecycle' = "backoff"
  /\ UNCHANGED <<stopped, closer, conn, live, mine, sender, sendVars, call>>

\* The dial succeeds: keepalive and PreReady run before the connection is published.
DialSucceeds(c) ==
  /\ c \notin live \cup {conn, mine, held}
  /\ lifecycle = "dial" /\ lifecycle' = "ready"
  /\ mine' = c /\ live' = live \cup {c}
  /\ UNCHANGED <<stopped, closer, conn, sender, sendVars, call>>

\* Under connMu: pc.conn = conn.  Close is not looked at again.
Publish ==
  /\ lifecycle = "ready" /\ lifecycle' = "read"
  /\ conn' = mine
  /\ Broadcast
  /\ UNCHANGED <<stopped, closer, live, mine, sendVars, call>>

\* readFn returns: the remote end is gone, or the local end was closed.
ReadReturns ==
  /\ ~SendOnly
  /\ lifecycle = "read" /\ lifecycle' = "down"
  /\ UNCHANGED <<stopped, closer, conn, live, mine, sender, sendVars, call>>

\* A send-only pool waits for pc.stopped and returns.
SendOnlyReturns ==
  /\ SendOnly /\ stopped
  /\ lifecycle = "read" /\ lifecycle' = "exited"
  /\ mine' = None
  /\ UNCHANGED <<stopped, closer, conn, live, sender, sendVars, call>>

\* Under connMu: the connection is withdrawn if it is still the published one ...
Withdraw ==
  IF conn = mine THEN conn' = None /\ Broadcast ELSE UNCHANGED <<conn, sender>>

Unpublish ==
  /\ lifecycle = "down" /\ lifecycle' = "close"
  /\ Withdraw
  /\ UNCHANGED <<stopped, closer, live, mine, sendVars, call>>

\* ... then closed, and OnClose called ...
Closed == live \ {mine}

CloseOwn ==
  /\ lifecycle = "close" /\ lifecycle' = "recheck"
  /\ live' = Closed
  /\ mine' = None
  /\ UNCHANGED <<stopped, closer, conn, sender, sendVars, call>>

\* ... before pc.stopped is read again.
Recheck ==
  /\ lifecycle = "recheck"
  /\ lifecycle' = IF stopped THEN "exited" ELSE "backoff"
  /\ UNCHANGED <<stopped, closer, conn, live, mine, sender, sendVars, call>>

\* sleepBackoff: the timer, or pc.stopped.
SleepBackoff ==
  /\ lifecycle = "backoff"
  /\ \/ lifecycle' = "loop"
     \/ stopped /\ lifecycle' = "exited"
  /\ UNCHANGED <<stopped, closer, conn, live, mine, sender, sendVars, call>>
-----------------------------------------------------------------------------
\* sendLoop: pc.stopped, ...
SendLoopExits ==
  /\ sender = "select" /\ stopped
  /\ sender' = "exited"
  /\ UNCHANGED <<stopped, closer, conn, live, lifeVars, sendVars, call>>

\* ... or the next message.
TakeMessage ==
  /\ sender = "select" /\ sendCh # <<>>
  /\ sender' = "waitConn"
  /\ hand' = Head(sendCh) /\ sendCh' = Tail(sendCh)
  /\ UNCHANGED <<stopped, closer, conn, live, lifeVars, held, call, settled>>

\* waitConn, one turn of its loop under connMu; Wait gives the lock up.
WaitConn ==
  /\ sender = "waitConn"
  /\ IF stopped
     THEN /\ sender' = "exited" /\ hand' = None
          /\ settled' = Append(settled, hand)
          /\ UNCHANGED held
     ELSE /\ sender' = IF conn # None THEN "write" ELSE "blocked"
          /\ held' = conn
          /\ UNCHANGED <<hand, settled>>
  /\ UNCHANGED <<stopped, closer, conn, live, lifeVars, sendCh, call>>

\* What follows writeFn for the message in hand: it is done with, also when the
\* write failed.
DoneWithMessage == hand' = None /\ settled' = Append(settled, hand) /\ UNCHANGED sendCh

\* writeFn returns nil, which a connection closed here does not allow ...
WriteSucceeds ==
  /\ sender = "write" /\ held \in live
  /\ sender' = "select" /\ held' = None
  /\ DoneWithMessage
  /\ UNCHANGED <<stopped, closer, conn, live, lifeVars, call>>

\* ... or an error.
WriteFails ==
  /\ sender = "write" /\ sender' = "break"
  /\ DoneWithMessage
  /\ UNCHANGED <<stopped, closer, conn, live, lifeVars, held, call>>

\* breakConn, under connMu: only the published connection is closed.
Breaks == conn = held

BreakConnAndExit ==
  /\ sender = "break" /\ sender' = "exited"
  /\ held' = None
  /\ IF Breaks
     THEN live' = live \ {held} /\ conn' = None
     ELSE UNCHANGED <<live, conn>>
  /\ UNCHANGED <<stopped, closer, lifeVars, hand, sendCh, call, settled>>

BreakConn ==
  /\ sender = "break" /\ sender' = "select"
  /\ held' = None
  /\ IF Breaks
     THEN live' = live \ {held} /\ conn' = None
     ELSE UNCHANGED <<live, conn>>
  /\ UNCHANGED <<stopped, closer, lifeVars, hand, sendCh, call, settled>>
-----------------------------------------------------------------------------
\* stop: close(pc.stopped), then the critical section.
StopBegin ==
  /\ closer = "idle" /\ closer' = "lock"
  /\ stopped' = TRUE
  /\ UNCHANGED <<conn, live, lifeVars, sender, sendVars, call>>

StopClose ==
  /\ closer = "lock" /\ closer' = "done"
  /\ live' = live \ {conn}
  /\ conn' = None
  /\ Broadcast
  /\ UNCHANGED <<stopped, lifeVars, sendVars, call>>
-----------------------------------------------------------------------------
LifecycleStep ==
  \/ LoopCheck \/ DialFails \/ Publish \/ SendOnlyReturns
  \/ Unpublish \/ CloseOwn \/ Recheck \/ SleepBackoff
  \/ \E c \in Conns : DialSucceeds(c)

SendLoopStep ==
  \/ SendLoopExits \/ TakeMessage \/ WaitConn \/ WriteSucceeds \/ WriteFails \/ BreakConn

Next ==
  \/ \E m \in Messages : SendCheck(m) \/ SendEnqueue(m)
  \/ LifecycleStep \/ ReadReturns
  \/ SendLoopStep
  \/ StopBegin \/ StopClose

Spec == Init /\ [][Next]_vars
==============================================================================
