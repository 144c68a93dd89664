------------------------------ MODULE PeerSender ------------------------------
(***************************************************************************)
(* The sending side of one cluster connection (cluster/peer.go, with       *)
(* Node.request and Node.send of cluster/node.go): enqueue, the write and  *)
(* read loops, the table of pending calls, and close.                      *)
(*                                                                         *)
(* A message stands for its outbound item and for the goroutine that sends *)
(* it: a notification (notify = true) or a request that waits for its      *)
(* response.  Control frames (pings, pongs, cancels) carry no accounting:  *)
(* of them remains that writing one, or a full control queue, may end in   *)
(* close.  peerClosed belongs to the slot and is left out.                 *)
(***************************************************************************)
EXTENDS Integers, Sequences, FiniteSets, Nil

CONSTANTS
  Notifications,  \* messages of Node.send
  Calls,          \* messages of Node.request
  SendQueue       \* Config.SendQueue, the capacity of p.send

ASSUME PeerAssumption ==
  /\ Notifications \cap Calls = {}
  /\ None \notin Notifications \cup Calls
  /\ SendQueue \in Nat \ {0}

Messages == Notifications \cup Calls

VARIABLES
  pc,        \* where the goroutine of a message is
  item,      \* what has become of its outbound item
  send,      \* the channel p.send
  pending,   \* the map p.pending
  response,  \* the content of the response channel of a call
  writer,    \* where writeLoop is
  writing,   \* the item it writes
  reading,   \* the call whose channel readLoop took out of p.pending
  closing,   \* where the goroutine inside closeOnce is
  failing    \* the calls close has still to fail

clientVars == <<pc, item>>
callVars == <<pending, response>>
writeVars == <<writer, writing>>
closeVars == <<closing, failing>>
vars == <<clientVars, send, callVars, writeVars, reading, closeVars>>

\* p.done is closed and enqueueClosed is set.
Done == closing # "open"

Init ==
  /\ pc = [m \in Messages |-> "idle"]
  /\ item = [m \in Messages |-> "none"]
  /\ send = <<>>
  /\ pending = {}
  /\ response = [m \in Messages |-> "none"]
  /\ writer = "select" /\ writing = None
  /\ reading = None
  /\ closing = "open" /\ failing = {}
-----------------------------------------------------------------------------
(* The senders *)

\* request: addPending precedes enqueue; a notification has no response.
ExpectsResponse(m) == m \in Calls

AddPending(m) ==
  /\ ExpectsResponse(m)
  /\ pc[m] = "idle"
  /\ pc' = [pc EXCEPT ![m] = "registered"]
  /\ pending' = pending \cup {m}
  /\ UNCHANGED <<item, send, response, writeVars, reading, closeVars>>

\* enqueue fails: a request calls removePending.
Refused(m) == pc' = [pc EXCEPT ![m] = "rejected"] /\ pending' = pending \ {m}

\* beginEnqueue: refused once enqueueClosed is set, else enqueueWG.Add(1).
BeginEnqueue(m) ==
  /\ pc[m] = IF m \in Calls THEN "registered" ELSE "idle"
  /\ IF Done
     THEN Refused(m)
     ELSE pc' = [pc EXCEPT ![m] = "begun"] /\ UNCHANGED pending
  /\ UNCHANGED <<item, send, response, writeVars, reading, closeVars>>

\* enqueue: p.send <- item, then the deferred enqueueWG.Done.
Enqueue(m) ==
  /\ pc[m] = "begun"
  /\ Len(send) < SendQueue
  /\ send' = Append(send, m)
  /\ item' = [item EXCEPT ![m] = "queued"]
  /\ pc' = [pc EXCEPT ![m] = IF m \in Calls THEN "waiting" ELSE "accepted"]
  /\ UNCHANGED <<callVars, writeVars, reading, closeVars>>

\* enqueue: p.done, the context, or no room for a non-blocking notification.
EnqueueFails(m) ==
  /\ pc[m] = "begun"
  /\ Refused(m)
  /\ UNCHANGED <<item, send, response, writeVars, reading, closeVars>>

\* request: the select on the response, ...
TakeResponse(m) ==
  /\ pc[m] = "waiting"
  /\ response[m] # "none"
  /\ pc' = [pc EXCEPT ![m] = response[m]]
  /\ response' = [response EXCEPT ![m] = "none"]
  /\ UNCHANGED <<item, send, pending, writeVars, reading, closeVars>>

\* ... the call timeout or p.done: removePending, and for the timeout a cancel.
GiveUp(m) ==
  /\ pc[m] = "waiting"
  /\ pc' = [pc EXCEPT ![m] = "gaveup"]
  /\ pending' = pending \ {m}
  /\ UNCHANGED <<item, send, response, writeVars, reading, closeVars>>
-----------------------------------------------------------------------------
(* writeLoop *)

\* <-p.send.
Receive == send' = Tail(send)

TakeItem ==
  /\ writer = "select"
  /\ send # <<>>
  /\ writer' = "write" /\ writing' = Head(send)
  /\ Receive
  /\ item' = [item EXCEPT ![Head(send)] = "writing"]
  /\ UNCHANGED <<pc, callVars, reading, closeVars>>

\* write succeeds, which it cannot once p.conn is closed.
WriteSucceeds ==
  /\ writer = "write"
  /\ closing \in {"open", "done"}
  /\ item' = [item EXCEPT ![writing] = "written"]
  /\ writer' = "select" /\ writing' = None
  /\ UNCHANGED <<pc, send, callVars, reading, closeVars>>

\* write fails: reportSendFailure reports a notification, then close.
WriteFails ==
  /\ writer = "write"
  /\ item' = [item EXCEPT ![writing] = IF writing \in Notifications THEN "reported" ELSE "dropped"]
  /\ writer' = "close" /\ writing' = None
  /\ UNCHANGED <<pc, send, callVars, reading, closeVars>>

\* A control frame or a ping that cannot be written, or an idle connection.
WriterCloses ==
  /\ writer = "select"
  /\ writer' = "close"
  /\ UNCHANGED <<clientVars, send, callVars, writing, reading, closeVars>>

\* case <-p.done, or back from close, which waits for the one inside closeOnce.
WriterExits ==
  /\ \/ writer = "select" /\ Done
     \/ writer = "close" /\ closing = "closed"
  /\ writer' = "exited"
  /\ UNCHANGED <<clientVars, send, callVars, writing, reading, closeVars>>
-----------------------------------------------------------------------------
(* readLoop *)

LookUp(m) == m \in pending /\ UNCHANGED pending

TakeOut(m) == m \in pending /\ pending' = pending \ {m}

\* complete, under pendingMu: take the channel out of the map.  A late or a
\* repeated response finds none.  What was read before p.conn was closed may be
\* processed after it.
ReadResponse(m) ==
  /\ reading = None
  /\ item[m] = "written"
  /\ TakeOut(m)
  /\ reading' = m
  /\ UNCHANGED <<clientVars, send, response, writeVars, closeVars>>

\* response <- peerResult{envelope}: the channel has room for one result.
Complete ==
  /\ reading # None
  /\ response[reading] = "none"
  /\ response' = [response EXCEPT ![reading] = "replied"]
  /\ reading' = None
  /\ UNCHANGED <<clientVars, send, pending, writeVars, closeVars>>
-----------------------------------------------------------------------------
(* close: the first of writeLoop, readLoop, enqueueControl, Reload and Stop *)

CloseDone ==
  /\ closing = "open"
  /\ closing' = "done"
  /\ UNCHANGED <<clientVars, send, callVars, writeVars, reading, failing>>

CloseConn ==
  /\ closing = "done"
  /\ closing' = "conn"
  /\ UNCHANGED <<clientVars, send, callVars, writeVars, reading, failing>>

\* p.enqueueWG.Wait() and the swap of p.pending.
WaitsForNobody == TRUE

EnqueueIdle == \A m \in Messages : pc[m] # "begun"

CloseSwap ==
  /\ closing = "conn"
  /\ EnqueueIdle
  /\ closing' = "fail"
  /\ failing' = pending
  /\ pending' = {}
  /\ UNCHANGED <<clientVars, send, response, writeVars, reading>>

CloseFail(m) ==
  /\ closing = "fail"
  /\ m \in failing
  /\ response[m] = "none"
  /\ response' = [response EXCEPT ![m] = "failed"]
  /\ failing' = failing \ {m}
  /\ UNCHANGED <<clientVars, send, pending, writeVars, reading, closing>>

\* The drain of p.send races with the last TakeItem of writeLoop.
CloseDrain ==
  /\ closing = "fail" /\ failing = {}
  /\ IF send = <<>>
     THEN closing' = "closed" /\ UNCHANGED <<send, item>>
     ELSE /\ Receive
          /\ item' = [item EXCEPT ![Head(send)] =
                        IF Head(send) \in Notifications THEN "reported" ELSE "dropped"]
          /\ UNCHANGED closing
  /\ UNCHANGED <<pc, callVars, writeVars, reading, failing>>
-----------------------------------------------------------------------------
SenderStep(m) ==
  \/ AddPending(m) \/ BeginEnqueue(m) \/ Enqueue(m) \/ EnqueueFails(m)
  \/ TakeResponse(m) \/ GiveUp(m)

WriterStep == TakeItem \/ WriteSucceeds \/ WriteFails \/ WriterCloses \/ WriterExits

CloseStep == CloseConn \/ CloseSwap \/ (\E m \in Calls : CloseFail(m)) \/ CloseDrain

Next ==
  \/ \E m \in Messages : SenderStep(m)
  \/ WriterStep
  \/ \E m \in Calls : ReadResponse(m)
  \/ Complete
  \/ CloseDone \/ CloseStep

Spec == Init /\ [][Next]_vars

\* Goroutines keep running; blocked selects end with done or with their timeout;
\* a write ends by its deadline.  Nothing has to be sent, answered or closed,
\* except that a writer that calls close does.
Fairness ==
  /\ \A m \in Messages : WF_vars(SenderStep(m) /\ pc[m] # "idle")
  /\ WF_vars(WriteSucceeds \/ WriteFails)
  /\ WF_vars(WriterExits)
  /\ WF_vars(writer = "close" /\ CloseDone)
  /\ WF_vars(Complete)
  /\ WF_vars(CloseStep)

FairSpec == Spec /\ Fairness
-----------------------------------------------------------------------------
(* Properties *)

\* When a connection is closed and its writer gone, every notification that enqueue
\* accepted has been written or reported, and one that enqueue refused neither.
NotificationAccounted ==
  \A m \in Notifications :
    /\ pc[m] = "rejected" => item[m] = "none"
    /\ pc[m] = "accepted" /\ closing = "closed" /\ writer = "exited" =>
         item[m] \in {"written", "reported"}

\* A response channel is written by its one owner, readLoop or close, at most once:
\* neither of them ever blocks in it (close would never end).
OneResponse ==
  /\ reading # None => response[reading] = "none" /\ reading \notin pending \cup failing
  /\ \A m \in Calls : m \in pending \cup failing => response[m] = "none"
  /\ pending \cap failing = {}

\* close ends, although it waits for senders blocked on a full queue, and takes
\* the writer with it.
CloseCompletes == Done ~> (closing = "closed" /\ writer = "exited")
===============================================================================
