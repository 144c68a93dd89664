---------------------------- MODULE ClusterProofs ----------------------------
(***************************************************************************)
(* What holds of the sending and of the receiving side of a cluster        *)
(* connection for every number of messages, frames, shards and barriers    *)
(* and every capacity.                                                     *)
(***************************************************************************)
EXTENDS ClusterConn, WellFoundedInduction, TLAPS

-----------------------------------------------------------------------------
(* The sender of a connection: its inductive invariant *)

PeerTypes ==
  /\ pc \in [Messages -> {"idle", "registered", "begun", "rejected", "waiting", "accepted",
                          "replied", "failed", "gaveup"}]
  /\ item \in [Messages -> {"none", "queued", "writing", "written", "reported", "dropped"}]
  /\ send \in Seq(Messages)
  /\ pending \in SUBSET Calls /\ failing \in SUBSET Calls
  /\ response \in [Messages -> {"none", "replied", "failed"}]
  /\ writer \in {"select", "write", "close", "exited"}
  /\ writing \in Messages \cup {None} /\ reading \in Calls \cup {None}
  /\ closing \in {"open", "done", "conn", "fail", "closed"}

\* A request that has not been registered is nowhere yet.
Unregistered ==
  \A m \in Messages : pc[m] = "idle" => m \notin pending \cup failing /\ reading # m /\ response[m] = "none"

\* Where the item of a message is.
ItemPlaced ==
  \A m \in Messages :
    /\ item[m] = "none" <=> pc[m] \in {"idle", "registered", "begun", "rejected"}
    /\ item[m] = "queued" => \E i \in 1 .. Len(send) : send[i] = m
    /\ item[m] = "writing" => writer = "write" /\ writing = m
    /\ item[m] = "dropped" => m \notin Notifications

\* After enqueueWG.Wait nobody is inside enqueue, so the drained queue stays empty.
QueueSettles ==
  /\ closing \in {"fail", "closed"} => \A m \in Messages : pc[m] # "begun"
  /\ closing = "closed" => send = <<>>

\* What is in the queue or in the hands of writeLoop came through enqueue.
Handed ==
  /\ \A i \in 1 .. Len(send) : item[send[i]] # "none"
  /\ writer = "write" => writing # None /\ item[writing] # "none"

PeerInv == PeerTypes /\ OneResponse /\ Unregistered /\ ItemPlaced /\ Handed /\ QueueSettles

\* An idle connection satisfies the invariant.
LEMMA PeerInit == Init => PeerInv
  <1> SUFFICES ASSUME Init PROVE PeerInv
    OBVIOUS
  <1> USE PeerAssumption DEF Init, Messages
  <1>1. PeerTypes /\ Unregistered /\ QueueSettles
    BY DEF PeerTypes, Unregistered, QueueSettles
  <1>2. OneResponse /\ ItemPlaced /\ Handed
    BY DEF OneResponse, ItemPlaced, Handed
  <1> QED
    BY <1>1, <1>2 DEF PeerInv

\* The goroutines that send keep the invariant.
LEMMA SenderKeeps ==
  ASSUME PeerInv, NEW m \in Messages, SenderStep(m)
  PROVE  PeerInv'
  <1> USE PeerAssumption DEF PeerInv, PeerTypes, Messages
  <1>1. CASE AddPending(m)
    <2>1. /\ m \in Calls /\ pc[m] = "idle" /\ pc' = [pc EXCEPT ![m] = "registered"]
          /\ pending' = pending \cup {m}
          /\ UNCHANGED <<item, send, response, writer, writing, reading, closing, failing>>
      BY <1>1, Zenon DEF AddPending, ExpectsResponse, writeVars, closeVars
    <2>2. PeerTypes' /\ QueueSettles'
      BY <2>1 DEF QueueSettles
    <2>3. OneResponse' /\ Unregistered'
      BY <2>1 DEF OneResponse, Unregistered
    <2>4. ItemPlaced' /\ Handed'
      BY <2>1 DEF ItemPlaced, Handed
    <2> QED
      BY <2>2, <2>3, <2>4, Zenon
  <1>2. CASE BeginEnqueue(m) /\ ~Done
    <2>1. /\ pc[m] = IF m \in Calls THEN "registered" ELSE "idle"
          /\ pc' = [pc EXCEPT ![m] = "begun"] /\ closing = "open"
          /\ UNCHANGED <<item, send, response, writer, writing, reading, closing, failing, pending>>
      BY <1>2, Zenon DEF BeginEnqueue, Done, writeVars, closeVars
    <2>2. PeerTypes' /\ QueueSettles'
      BY <2>1 DEF QueueSettles
    <2>3. OneResponse' /\ Unregistered'
      BY <2>1 DEF OneResponse, Unregistered
    <2>4. ItemPlaced' /\ Handed'
      BY <2>1 DEF ItemPlaced, Handed
    <2> QED
      BY <2>2, <2>3, <2>4, Zenon
  <1>3. CASE (BeginEnqueue(m) /\ Done) \/ EnqueueFails(m)
    <2>1. /\ pc[m] \in {"idle", "registered", "begun"}
          /\ pc' = [pc EXCEPT ![m] = "rejected"] /\ pending' = pending \ {m}
          /\ UNCHANGED <<item, send, response, writer, writing, reading, closing, failing>>
      BY <1>3, Zenon DEF BeginEnqueue, EnqueueFails, Refused, writeVars, closeVars
    <2>2. PeerTypes' /\ QueueSettles'
      BY <2>1 DEF QueueSettles
    <2>3. OneResponse' /\ Unregistered'
      BY <2>1 DEF OneResponse, Unregistered
    <2>4. ItemPlaced' /\ Handed'
      BY <2>1 DEF ItemPlaced, Handed
    <2> QED
      BY <2>2, <2>3, <2>4, Zenon
  <1>4. CASE Enqueue(m)
    <2>1. /\ pc[m] = "begun" /\ send' = Append(send, m) /\ item' = [item EXCEPT ![m] = "queued"]
          /\ pc' = [pc EXCEPT ![m] = IF m \in Calls THEN "waiting" ELSE "accepted"]
          /\ UNCHANGED <<response, pending, writer, writing, reading, closing, failing>>
      BY <1>4, Zenon DEF Enqueue, callVars, writeVars, closeVars
    <2>2. PeerTypes' /\ QueueSettles'
      BY <2>1 DEF QueueSettles
    <2>3. OneResponse' /\ Unregistered'
      BY <2>1 DEF OneResponse, Unregistered
    <2>4. /\ Len(send') = Len(send) + 1 /\ send'[Len(send) + 1] = m
          /\ \A i \in 1 .. Len(send) : send'[i] = send[i]
      BY <2>1
    <2>5. ASSUME NEW q \in Messages, item'[q] = "queued"
          PROVE  \E i \in 1 .. Len(send') : send'[i] = q
      <3>1. CASE q = m
        BY <2>4, <3>1
      <3>2. CASE q # m
        <4>1. PICK i \in 1 .. Len(send) : send[i] = q
          BY <2>1, <2>5, <3>2 DEF ItemPlaced
        <4> QED
          BY <2>4, <4>1
      <3> QED
        BY <3>1, <3>2, Zenon
    <2>6. ItemPlaced'
      BY <2>1, <2>5 DEF ItemPlaced
    <2>7. Handed'
      BY <2>1, <2>4 DEF Handed
    <2> QED
      BY <2>2, <2>3, <2>6, <2>7, Zenon
  <1>5. CASE TakeResponse(m)
    <2>1. /\ pc[m] = "waiting" /\ pc' = [pc EXCEPT ![m] = response[m]]
          /\ response[m] \in {"replied", "failed"} /\ response' = [response EXCEPT ![m] = "none"]
          /\ UNCHANGED <<item, send, pending, writer, writing, reading, closing, failing>>
      BY <1>5 DEF TakeResponse, writeVars, closeVars
    <2>2. PeerTypes' /\ QueueSettles'
      BY <2>1 DEF QueueSettles
    <2>3. OneResponse' /\ Unregistered'
      BY <2>1 DEF OneResponse, Unregistered
    <2>4. ItemPlaced' /\ Handed'
      BY <2>1 DEF ItemPlaced, Handed
    <2> QED
      BY <2>2, <2>3, <2>4, Zenon
  <1>6. CASE GiveUp(m)
    <2>1. /\ pc[m] = "waiting" /\ pc' = [pc EXCEPT ![m] = "gaveup"] /\ pending' = pending \ {m}
          /\ UNCHANGED <<item, send, response, writer, writing, reading, closing, failing>>
      BY <1>6, Zenon DEF GiveUp, writeVars, closeVars
    <2>2. PeerTypes' /\ QueueSettles'
      BY <2>1 DEF QueueSettles
    <2>3. OneResponse' /\ Unregistered'
      BY <2>1 DEF OneResponse, Unregistered
    <2>4. ItemPlaced' /\ Handed'
      BY <2>1 DEF ItemPlaced, Handed
    <2> QED
      BY <2>2, <2>3, <2>4, Zenon
  <1> QED
    BY <1>1, <1>2, <1>3, <1>4, <1>5, <1>6, Zenon DEF SenderStep

\* The head of the queue leaves it, to be written or dropped: no other item moves.
LEMMA HeadLeaves ==
  ASSUME PeerTypes, ItemPlaced, Handed, send # <<>>, send' = Tail(send),
         NEW x \in {"writing", "reported", "dropped"}, item' = [item EXCEPT ![Head(send)] = x]
  PROVE  /\ Head(send) \in Messages /\ item[Head(send)] # "none"
         /\ send' \in Seq(Messages) /\ \A i \in 1 .. Len(send') : item'[send'[i]] # "none"
         /\ \A m \in Messages : item'[m] = "queued" => \E i \in 1 .. Len(send') : send'[i] = m
  <1>1. /\ send \in Seq(Messages) /\ Len(send) \in Nat /\ Len(send) > 0
        /\ item \in [Messages -> {"none", "queued", "writing", "written", "reported", "dropped"}]
    BY DEF PeerTypes
  <1>2. /\ Head(send) \in Messages /\ Head(send) = send[1] /\ send' \in Seq(Messages)
        /\ Len(send') = Len(send) - 1 /\ \A j \in 1 .. Len(send') : send'[j] = send[j + 1]
    BY <1>1
  <1>3. ASSUME NEW m \in Messages, item'[m] = "queued"
        PROVE  \E j \in 1 .. Len(send') : send'[j] = m
    <2>1. m # Head(send) /\ item[m] = "queued"
      BY <1>1, <1>2, <1>3
    <2>2. PICK j \in 1 .. Len(send) : send[j] = m
      BY <2>1, Zenon DEF ItemPlaced
    <2>3. j # 1
      BY <1>2, <2>1, <2>2
    <2>4. j - 1 \in 1 .. Len(send') /\ send'[j - 1] = m
      BY <1>1, <1>2, <2>2, <2>3
    <2> QED
      BY <2>4, Zenon
  <1>4. item[Head(send)] # "none" /\ \A i \in 1 .. Len(send') : item'[send'[i]] # "none"
    BY <1>1, <1>2 DEF Handed
  <1> QED
    BY <1>2, <1>3, <1>4, Zenon

\* writeLoop keeps the invariant.
LEMMA WriterKeeps ==
  ASSUME PeerInv, WriterStep
  PROVE  PeerInv'
  <1> USE PeerAssumption DEF PeerInv, PeerTypes, Messages
  <1>1. CASE TakeItem
    <2>1. /\ writer = "select" /\ send # <<>> /\ send' = Tail(send)
          /\ writer' = "write" /\ writing' = Head(send)
          /\ item' = [item EXCEPT ![Head(send)] = "writing"]
          /\ UNCHANGED <<pc, response, pending, reading, closing, failing>>
      BY <1>1, Zenon DEF TakeItem, Receive, callVars, closeVars
    <2>2. /\ Head(send) \in Messages /\ item[Head(send)] # "none"
          /\ send' \in Seq(Messages) /\ \A i \in 1 .. Len(send') : item'[send'[i]] # "none"
          /\ \A m \in Messages : item'[m] = "queued" => \E i \in 1 .. Len(send') : send'[i] = m
      <3> HIDE DEF PeerTypes, Messages
      <3> QED
        BY <2>1, HeadLeaves
    <2>3. PeerTypes' /\ QueueSettles'
      BY <2>1, <2>2 DEF QueueSettles
    <2>4. OneResponse' /\ Unregistered'
      BY <2>1 DEF OneResponse, Unregistered
    <2>5. ItemPlaced'
      BY <2>1, <2>2 DEF ItemPlaced
    <2>6. Handed'
      BY <2>1, <2>2 DEF Handed
    <2> QED
      BY <2>3, <2>4, <2>5, <2>6, Zenon
  <1>2. CASE WriteSucceeds \/ WriteFails
    <2>1. PICK x \in {"written", "reported", "dropped"} :
              item' = [item EXCEPT ![writing] = x] /\ (x = "dropped" => writing \notin Notifications)
      BY <1>2 DEF WriteSucceeds, WriteFails
    <2>2. /\ writer = "write" /\ writer' \in {"select", "close"} /\ writing' = None
          /\ UNCHANGED <<pc, send, response, pending, reading, closing, failing>>
      BY <1>2 DEF WriteSucceeds, WriteFails, callVars, closeVars
    <2>3. writing \in Messages /\ item[writing] # "none"
      BY <2>2 DEF Handed
    <2>4. PeerTypes' /\ QueueSettles'
      BY <2>1, <2>2, <2>3 DEF QueueSettles
    <2>5. OneResponse' /\ Unregistered'
      BY <2>2 DEF OneResponse, Unregistered
    <2>6. ItemPlaced'
      BY <2>1, <2>2, <2>3 DEF ItemPlaced
    <2>7. Handed'
      BY <2>1, <2>2, <2>3 DEF Handed
    <2> QED
      BY <2>4, <2>5, <2>6, <2>7, Zenon
  <1>3. CASE WriterCloses \/ WriterExits
    <2>1. /\ writer \in {"select", "close"} /\ writer' \in {"close", "exited"}
          /\ UNCHANGED <<pc, item, send, response, pending, writing, reading, closing, failing>>
      BY <1>3 DEF WriterCloses, WriterExits, clientVars, callVars, closeVars
    <2>2. PeerTypes' /\ QueueSettles'
      BY <2>1 DEF QueueSettles
    <2>3. OneResponse' /\ Unregistered'
      BY <2>1 DEF OneResponse, Unregistered
    <2>4. ItemPlaced' /\ Handed'
      BY <2>1 DEF ItemPlaced, Handed
    <2> QED
      BY <2>2, <2>3, <2>4, Zenon
  <1> QED
    BY <1>1, <1>2, <1>3, Zenon DEF WriterStep

\* readLoop keeps the invariant: it owns the channel that it took out of p.pending.
LEMMA ReaderKeeps ==
  ASSUME PeerInv, (\E m \in Calls : ReadResponse(m)) \/ Complete
  PROVE  PeerInv'
  <1> USE PeerAssumption DEF PeerInv, PeerTypes, Messages
  <1>1. ASSUME NEW m \in Calls, ReadResponse(m) PROVE PeerInv'
    <2>1. /\ reading = None /\ m \in pending /\ pending' = pending \ {m} /\ reading' = m
          /\ UNCHANGED <<pc, item, send, response, writer, writing, closing, failing>>
      BY <1>1, Zenon DEF ReadResponse, TakeOut, clientVars, writeVars, closeVars
    <2>2. PeerTypes' /\ QueueSettles'
      BY <2>1 DEF QueueSettles
    <2>3. OneResponse' /\ Unregistered'
      BY <2>1 DEF OneResponse, Unregistered
    <2>4. ItemPlaced' /\ Handed'
      BY <2>1 DEF ItemPlaced, Handed
    <2> QED
      BY <2>2, <2>3, <2>4, Zenon
  <1>2. CASE Complete
    <2>1. /\ reading # None /\ response' = [response EXCEPT ![reading] = "replied"] /\ reading' = None
          /\ UNCHANGED <<pc, item, send, pending, writer, writing, closing, failing>>
      BY <1>2, Zenon DEF Complete, clientVars, writeVars, closeVars
    <2>2. PeerTypes' /\ QueueSettles'
      BY <2>1 DEF QueueSettles
    <2>3. OneResponse' /\ Unregistered'
      BY <2>1 DEF OneResponse, Unregistered
    <2>4. ItemPlaced' /\ Handed'
      BY <2>1 DEF ItemPlaced, Handed
    <2> QED
      BY <2>2, <2>3, <2>4, Zenon
  <1> QED
    BY <1>1, <1>2, Zenon

\* close keeps the invariant: it fails the calls that it took over with the table.
LEMMA CloseKeeps ==
  ASSUME PeerInv, CloseDone \/ CloseStep
  PROVE  PeerInv'
  <1> USE PeerAssumption DEF PeerInv, PeerTypes, Messages
  <1>1. CASE CloseDone \/ CloseConn
    <2>1. /\ closing' \in {"done", "conn"}
          /\ UNCHANGED <<pc, item, send, response, pending, writer, writing, reading, failing>>
      BY <1>1 DEF CloseDone, CloseConn, clientVars, callVars, writeVars
    <2>2. PeerTypes' /\ QueueSettles'
      BY <2>1 DEF QueueSettles
    <2>3. OneResponse' /\ Unregistered'
      BY <2>1 DEF OneResponse, Unregistered
    <2>4. ItemPlaced' /\ Handed'
      BY <2>1 DEF ItemPlaced, Handed
    <2> QED
      BY <2>2, <2>3, <2>4, Zenon
  <1>2. CASE CloseSwap
    <2>1. /\ closing' = "fail" /\ failing' = pending /\ pending' = {}
          /\ \A m \in Messages : pc[m] # "begun"
          /\ UNCHANGED <<pc, item, send, response, writer, writing, reading>>
      BY <1>2, Zenon DEF CloseSwap, EnqueueIdle, clientVars, writeVars
    <2>2. PeerTypes' /\ QueueSettles'
      BY <2>1 DEF QueueSettles
    <2>3. OneResponse' /\ Unregistered'
      BY <2>1 DEF OneResponse, Unregistered
    <2>4. ItemPlaced' /\ Handed'
      BY <2>1 DEF ItemPlaced, Handed
    <2> QED
      BY <2>2, <2>3, <2>4, Zenon
  <1>3. ASSUME NEW m \in Calls, CloseFail(m) PROVE PeerInv'
    <2>1. /\ m \in failing /\ response' = [response EXCEPT ![m] = "failed"] /\ failing' = failing \ {m}
          /\ UNCHANGED <<pc, item, send, pending, writer, writing, reading, closing>>
      BY <1>3, Zenon DEF CloseFail, clientVars, writeVars
    <2>2. PeerTypes' /\ QueueSettles'
      BY <2>1 DEF QueueSettles
    <2>3. OneResponse' /\ Unregistered'
      BY <2>1 DEF OneResponse, Unregistered
    <2>4. ItemPlaced' /\ Handed'
      BY <2>1 DEF ItemPlaced, Handed
    <2> QED
      BY <2>2, <2>3, <2>4, Zenon
  <1>4. CASE CloseDrain /\ send = <<>>
    <2>1. /\ closing = "fail" /\ closing' = "closed"
          /\ UNCHANGED <<pc, item, send, response, pending, writer, writing, reading, failing>>
      BY <1>4, Zenon DEF CloseDrain, callVars, writeVars
    <2>2. PeerTypes' /\ QueueSettles'
      BY <1>4, <2>1 DEF QueueSettles
    <2>3. OneResponse' /\ Unregistered'
      BY <2>1 DEF OneResponse, Unregistered
    <2>4. ItemPlaced' /\ Handed'
      BY <2>1 DEF ItemPlaced, Handed
    <2> QED
      BY <2>2, <2>3, <2>4, Zenon
  <1>5. CASE CloseDrain /\ send # <<>>
    <2> DEFINE x == IF Head(send) \in Notifications THEN "reported" ELSE "dropped"
    <2>1. /\ send' = Tail(send) /\ item' = [item EXCEPT ![Head(send)] = x]
          /\ UNCHANGED <<pc, response, pending, writer, writing, reading, failing, closing>>
      BY <1>5, Zenon DEF CloseDrain, Receive, callVars, writeVars
    <2>2. x \in {"writing", "reported", "dropped"}
      OBVIOUS
    <2>3. /\ Head(send) \in Messages /\ item[Head(send)] # "none"
          /\ send' \in Seq(Messages) /\ \A i \in 1 .. Len(send') : item'[send'[i]] # "none"
          /\ \A m \in Messages : item'[m] = "queued" => \E i \in 1 .. Len(send') : send'[i] = m
      <3> HIDE DEF x, PeerTypes, Messages
      <3> QED
        BY <1>5, <2>1, <2>2, HeadLeaves, Zenon
    <2>4. PeerTypes' /\ QueueSettles'
      BY <1>5, <2>1, <2>3 DEF QueueSettles
    <2>5. OneResponse' /\ Unregistered'
      BY <2>1 DEF OneResponse, Unregistered
    <2>6. ItemPlaced'
      BY <2>1, <2>3 DEF ItemPlaced
    <2>7. Handed'
      BY <2>1, <2>3 DEF Handed
    <2> QED
      BY <2>4, <2>5, <2>6, <2>7, Zenon
  <1> QED
    BY <1>1, <1>2, <1>3, <1>4, <1>5, Zenon DEF CloseStep

\* The invariant of the sender holds in every reachable state.
LEMMA PeerInvariance == Spec => []PeerInv
  <1>1. PeerInv /\ UNCHANGED vars => PeerInv'
    <2> SUFFICES ASSUME PeerInv, UNCHANGED vars PROVE PeerInv'
      OBVIOUS
    <2>1. UNCHANGED <<pc, item, send, response, pending, writer, writing, reading, closing, failing>>
      BY Zenon DEF vars, clientVars, callVars, writeVars, closeVars
    <2>2. PeerTypes' /\ QueueSettles'
      BY <2>1, Zenon DEF PeerInv, PeerTypes, QueueSettles
    <2>3. OneResponse' /\ Unregistered'
      BY <2>1, Zenon DEF PeerInv, OneResponse, Unregistered
    <2>4. ItemPlaced' /\ Handed'
      BY <2>1, Zenon DEF PeerInv, ItemPlaced, Handed
    <2> QED
      BY <2>2, <2>3, <2>4, Zenon DEF PeerInv
  <1>2. PeerInv /\ [Next]_vars => PeerInv'
    <2> SUFFICES ASSUME PeerInv, [Next]_vars PROVE PeerInv'
      OBVIOUS
    <2>1. CASE \E m \in Messages : SenderStep(m)
      BY <2>1, SenderKeeps, Zenon
    <2>2. CASE WriterStep
      BY <2>2, WriterKeeps, Zenon
    <2>3. CASE (\E m \in Calls : ReadResponse(m)) \/ Complete
      BY <2>3, ReaderKeeps, Zenon
    <2>4. CASE CloseDone \/ CloseStep
      BY <2>4, CloseKeeps, Zenon
    <2> QED
      BY <1>1, <2>1, <2>2, <2>3, <2>4, Zenon DEF Next
  <1> QED
    BY <1>2, PeerInit, PTL DEF Spec

\* A response channel has one owner and is written once, so neither readLoop nor
\* close ever blocks in it.
THEOREM ResponsesHaveOneOwner == Spec => []OneResponse
  <1>1. PeerInv => OneResponse
    BY Zenon DEF PeerInv
  <1> QED
    BY <1>1, PeerInvariance, PTL

\* Once a connection is closed and its writer gone, every notification that enqueue
\* accepted has been written or reported to OnSendFailure.
THEOREM NotificationsAccounted == Spec => []NotificationAccounted
  <1>1. PeerInv => NotificationAccounted
    <2> SUFFICES ASSUME PeerInv, NEW m \in Notifications
                 PROVE  /\ pc[m] = "rejected" => item[m] = "none"
                        /\ pc[m] = "accepted" /\ closing = "closed" /\ writer = "exited" =>
                             item[m] \in {"written", "reported"}
      BY Zenon DEF NotificationAccounted
    <2>1. m \in Messages /\ item[m] \in {"none", "queued", "writing", "written", "reported", "dropped"}
      BY DEF PeerInv, PeerTypes, Messages
    <2>2. pc[m] = "rejected" => item[m] = "none"
      BY <2>1 DEF PeerInv, ItemPlaced
    <2>3. ASSUME pc[m] = "accepted", closing = "closed", writer = "exited"
          PROVE  item[m] \in {"written", "reported"}
      <3>1. item[m] # "none" /\ item[m] # "writing" /\ item[m] # "dropped"
        BY <2>1, <2>3 DEF PeerInv, ItemPlaced
      <3>2. send = <<>>
        BY <2>3 DEF PeerInv, QueueSettles
      <3>3. item[m] # "queued"
        BY <2>1, <3>2 DEF PeerInv, ItemPlaced
      <3> QED
        BY <2>1, <3>1, <3>3
    <2> QED
      BY <2>2, <2>3, Zenon
  <1> QED
    BY <1>1, PeerInvariance, PTL

-----------------------------------------------------------------------------
(* The receiving side of a connection: its inductive invariant *)

Frames == Inbound!Frames

InboundTypes ==
  /\ admissionNext \in Nat /\ admissionDone \in Nat /\ admissionFinished \in SUBSET Nat
  /\ shard \in [Frames -> Shards] /\ admissionSeq \in [Frames -> Nat]
  /\ job \in [Frames -> {"unread", "queued", "taken", "admitting", "running", "done"}]
  /\ verdict \in [Frames -> {"none", "admitted", "refused", "canceled"}]
  /\ queue \in [Shards -> Seq(Frames)] /\ worker \in [Shards -> Frames \cup {None}]
  /\ barrier \in [Barriers -> {"unread", "busy", "waiting", "answered", "expired"}]
  /\ barrierSeq \in [Barriers -> Nat]

\* beginAdmission numbers the frames in the order in which they are read.
Numbered ==
  /\ \A f \in Frames : admissionSeq[f] <= admissionNext
  /\ \A f \in Frames : job[f] = "unread" => admissionSeq[f] = 0
  /\ \A f, g \in Frames : admissionSeq[f] = admissionSeq[g] => f = g \/ admissionSeq[f] = 0

\* finishAdmission passes over decided frames only, and never runs ahead.
Decided ==
  /\ admissionDone <= admissionNext
  /\ \A d \in admissionFinished : d <= admissionNext
  /\ \A f \in Frames :
       admissionSeq[f] \in 1 .. admissionDone \/ admissionSeq[f] \in admissionFinished
       => verdict[f] # "none"

\* An answered barrier has seen the admissions before it complete.
Passed == \A b \in Barriers : barrier[b] = "answered" => barrierSeq[b] <= admissionDone

\* A frame that is not decided waits in its shard, behind the earlier ones.
InShard(f) ==
  \/ worker[shard[f]] = f
  \/ \E i \in 1 .. Len(queue[shard[f]]) : queue[shard[f]][i] = f

Ordered(s) ==
  /\ \A i \in 1 .. Len(queue[s]) : shard[queue[s][i]] = s /\ admissionSeq[queue[s][i]] # 0
  /\ \A i, j \in 1 .. Len(queue[s]) : i < j => admissionSeq[queue[s][i]] < admissionSeq[queue[s][j]]
  /\ worker[s] # None =>
       /\ shard[worker[s]] = s /\ admissionSeq[worker[s]] # 0
       /\ \A i \in 1 .. Len(queue[s]) : admissionSeq[worker[s]] < admissionSeq[queue[s][i]]

InOrder ==
  /\ \A f \in Frames : admissionSeq[f] # 0 /\ verdict[f] = "none" => InShard(f)
  /\ \A s \in Shards : Ordered(s)

InboundInv == InboundTypes /\ Numbered /\ Decided /\ Passed /\ InOrder

\* A bounded set of naturals that is not empty has a greatest element.
LEMMA Greatest ==
  ASSUME NEW S \in SUBSET Nat, S # {}, NEW n \in Nat, \A x \in S : x <= n
  PROVE  \E x \in S : \A y \in S : x >= y
  <1> DEFINE T == {n - x : x \in S}
             R == {p \in Nat \X Nat : p[1] < p[2]}
  <1>1. T \subseteq Nat
    BY SMT
  <1>2. T # {}
    <2>1. PICK x \in S : TRUE
      BY Zenon
    <2>2. n - x \in T
      BY <2>1, Zenon
    <2> QED
      BY <2>2, Zenon
  <1>3. IsWellFoundedOn(R, Nat)
    BY NatLessThanWellFounded, Zenon DEF OpToRel
  <1>4. PICK t \in T : \A u \in T : ~(<<u, t>> \in R)
    BY <1>1, <1>2, <1>3, WFMin, Zenon
  <1>5. \A u \in T : ~(u < t)
    BY <1>1, <1>4, Zenon
  <1>6. PICK x \in S : t = n - x
    BY Zenon
  <1>7. ASSUME NEW y \in S PROVE x >= y
    <2>1. ~(n - y < n - x)
      BY <1>5, <1>6, Zenon
    <2> QED
      BY <2>1
  <1> QED
    BY <1>7, Zenon

\* finishAdmission moves admissionDone forward over finished frames only.
LEMMA AdmissionAdvances ==
  ASSUME InboundTypes, NEW n \in Nat, admissionDone <= n, \A d \in admissionFinished : d <= n,
         NEW q \in Nat, q <= n, Inbound!FinishAdmission(q)
  PROVE  /\ admissionDone' \in Nat /\ admissionDone <= admissionDone' /\ admissionDone' <= n
         /\ admissionFinished' \in SUBSET Nat /\ \A d \in admissionFinished' : d <= n
         /\ \A k \in Nat : k \in 1 .. admissionDone' \/ k \in admissionFinished' =>
                             k \in 1 .. admissionDone \/ k \in admissionFinished \cup {q}
  <1> DEFINE finished == admissionFinished \cup {q}
             S == {admissionDone} \cup
                    {d \in finished : \A k \in (admissionDone + 1) .. d : k \in finished}
  <1>1. admissionDone \in Nat /\ finished \in SUBSET Nat /\ \A d \in finished : d <= n
    BY DEF InboundTypes
  <1>2. S \in SUBSET Nat /\ S # {} /\ \A d \in S : d <= n
    BY <1>1
  <1>3. \E x \in S : \A y \in S : x >= y
    <2> HIDE DEF S
    <2> QED
      BY <1>2, Greatest, Zenon
  <1>4. admissionDone' \in S /\ (\A y \in S : admissionDone' >= y)
        /\ admissionFinished' = {d \in finished : d > admissionDone'}
    BY <1>3, Zenon DEF Inbound!FinishAdmission
  <1>5. admissionDone' \in Nat /\ admissionDone <= admissionDone' /\ admissionDone' <= n
    BY <1>1, <1>2, <1>4
  <1>6. ASSUME NEW k \in Nat, k \in 1 .. admissionDone' \/ k \in admissionFinished'
        PROVE  k \in 1 .. admissionDone \/ k \in finished
    BY <1>1, <1>4, <1>5, <1>6
  <1>7. admissionFinished' \in SUBSET Nat /\ \A d \in admissionFinished' : d <= n
    BY <1>1, <1>4
  <1> QED
    BY <1>5, <1>6, <1>7, Zenon

\* A connection on which nothing was read satisfies the invariant.
LEMMA InboundInit == Inbound!Init => InboundInv
  <1> SUFFICES ASSUME Inbound!Init PROVE InboundInv
    OBVIOUS
  <1> USE ConnAssumption DEF Inbound!Init, Frames, Inbound!InboundAssumption
  <1>1. InboundTypes
    BY DEF InboundTypes
  <1>2. Numbered /\ Decided /\ Passed
    BY DEF Numbered, Decided, Passed
  <1>3. InOrder
    BY DEF InOrder, Ordered
  <1> QED
    BY <1>1, <1>2, <1>3, Zenon DEF InboundInv

\* What a step that decides no admission and moves no job leaves alone.
Undisturbed ==
  /\ UNCHANGED <<admissionNext, admissionDone, admissionFinished, shard, admissionSeq, verdict>>
  /\ job' \in [Frames -> {"unread", "queued", "taken", "admitting", "running", "done"}]
  /\ \A f \in Frames : job'[f] = "unread" => job[f] = "unread"
  /\ UNCHANGED <<queue, worker>>

\* Such a step keeps everything but the barriers.
LEMMA UndisturbedKeeps ==
  ASSUME InboundInv, Undisturbed, barrier' \in [Barriers -> {"unread", "busy", "waiting", "answered", "expired"}],
         barrierSeq' \in [Barriers -> Nat], Passed'
  PROVE  InboundInv'
  <1> USE DEF InboundInv
  <1>1. InboundTypes'
    BY Zenon DEF InboundTypes, Undisturbed
  <1>2. Numbered'
    BY Zenon DEF Numbered, Undisturbed
  <1>3. Decided'
    BY Zenon DEF Decided, Undisturbed
  <1>4. InOrder'
    <2>1. UNCHANGED <<shard, admissionSeq, verdict, queue, worker>>
      BY Zenon DEF Undisturbed
    <2> QED
      BY <2>1 DEF InOrder, InShard, Ordered
  <1> QED
    BY <1>1, <1>2, <1>3, <1>4, Zenon

\* The barriers wait for admissionDone; everything else is theirs only to read.
LEMMA BarrierKeeps ==
  ASSUME InboundInv, NEW b \in Barriers,
         Inbound!ReadBarrier(b) \/ Inbound!AnswerBarrier(b) \/ Inbound!ExpireBarrier(b)
  PROVE  InboundInv'
  <1>1. Undisturbed
    <2>1. UNCHANGED <<admissionNext, admissionDone, admissionFinished, shard, admissionSeq, verdict, job,
                      queue, worker>>
      BY Zenon DEF Inbound!ReadBarrier, Inbound!AnswerBarrier, Inbound!ExpireBarrier,
                   Inbound!connVars, Inbound!dispatchVars
    <2> QED
      BY <2>1, Zenon DEF Undisturbed, InboundInv, InboundTypes
  <1>2. /\ barrier \in [Barriers -> {"unread", "busy", "waiting", "answered", "expired"}]
        /\ barrierSeq \in [Barriers -> Nat] /\ admissionNext \in Nat /\ admissionDone \in Nat
    BY Zenon DEF InboundInv, InboundTypes
  <1>3. /\ barrier' \in [Barriers -> {"unread", "busy", "waiting", "answered", "expired"}]
        /\ barrierSeq' \in [Barriers -> Nat]
    BY <1>2 DEF Inbound!ReadBarrier, Inbound!AnswerBarrier, Inbound!ExpireBarrier
  <1>4. Passed'
    <2>1. ASSUME NEW c \in Barriers, barrier'[c] = "answered"
          PROVE  barrierSeq'[c] <= admissionDone'
      <3>1. admissionDone' = admissionDone
        BY <1>1, Zenon DEF Undisturbed
      <3>2. CASE barrier[c] = "answered"
        <4>1. barrierSeq'[c] = barrierSeq[c]
          BY <1>2, <3>2 DEF Inbound!ReadBarrier, Inbound!AnswerBarrier, Inbound!ExpireBarrier
        <4> QED
          BY <3>1, <3>2, <4>1, Zenon DEF InboundInv, Passed
      <3>3. CASE barrier[c] # "answered"
        BY <1>2, <2>1, <3>1, <3>3 DEF Inbound!ReadBarrier, Inbound!AnswerBarrier,
                                      Inbound!ExpireBarrier, Inbound!Reached
      <3> QED
        BY <3>2, <3>3, Zenon
    <2> QED
      BY <2>1, Zenon DEF Passed
  <1> QED
    BY <1>1, <1>3, <1>4, UndisturbedKeeps, Zenon

\* Cancellation, the end of the connection or of the node, the start of an admission
\* and the goroutine of an admitted call decide nothing and leave the queues alone.
LEMMA QuietKeeps ==
  ASSUME InboundInv,
         \/ Inbound!Close \/ Inbound!StopNode
         \/ \E f \in Frames : Inbound!ReadCancel(f) \/ Inbound!Respond(f) \/ Inbound!Abandon(f)
         \/ \E s \in Shards : Inbound!BeginAdmit(s)
  PROVE  InboundInv'
  <1>1. /\ UNCHANGED <<admissionNext, admissionDone, admissionFinished, shard, admissionSeq, verdict>>
        /\ UNCHANGED <<queue, worker, barrier, barrierSeq>>
    BY Zenon DEF Inbound!Close, Inbound!StopNode, Inbound!ReadCancel, Inbound!Respond,
                 Inbound!Abandon, Inbound!BeginAdmit, Inbound!connVars, Inbound!dispatchVars,
                 Inbound!barrierVars
  <1>2. job' = job \/ \E g : job' = [job EXCEPT ![g] = "admitting"] \/ job' = [job EXCEPT ![g] = "done"]
    BY Zenon DEF Inbound!Close, Inbound!StopNode, Inbound!ReadCancel, Inbound!Respond,
                 Inbound!Abandon, Inbound!BeginAdmit, Inbound!Leave
  <1>3. /\ job' \in [Frames -> {"unread", "queued", "taken", "admitting", "running", "done"}]
        /\ \A f \in Frames : job'[f] = "unread" => job[f] = "unread"
    <2>1. job \in [Frames -> {"unread", "queued", "taken", "admitting", "running", "done"}]
      BY Zenon DEF InboundInv, InboundTypes
    <2> QED
      BY <1>2, <2>1
  <1>4. Undisturbed
    BY <1>1, <1>3, Zenon DEF Undisturbed
  <1>5. /\ barrier' \in [Barriers -> {"unread", "busy", "waiting", "answered", "expired"}]
        /\ barrierSeq' \in [Barriers -> Nat] /\ Passed'
    BY <1>1, Zenon DEF InboundInv, InboundTypes, Passed
  <1> QED
    BY <1>4, <1>5, UndisturbedKeeps, Zenon

\* The goroutine of a shard takes the head of its queue, the earliest frame in it.
LEMMA TakeKeeps ==
  ASSUME InboundInv, NEW s \in Shards, Inbound!TakeJob(s)
  PROVE  InboundInv'
  <1> DEFINE g == Head(queue[s])
  <1>1. /\ worker[s] = None /\ queue[s] # <<>>
        /\ worker' = [worker EXCEPT ![s] = g] /\ queue' = [queue EXCEPT ![s] = Tail(@)]
        /\ job' = [job EXCEPT ![g] = "taken"]
        /\ UNCHANGED <<admissionNext, admissionDone, admissionFinished, shard, admissionSeq, verdict,
                       barrier, barrierSeq>>
    BY Zenon DEF Inbound!TakeJob, Inbound!connVars, Inbound!barrierVars
  <1>2. /\ queue \in [Shards -> Seq(Frames)] /\ worker \in [Shards -> Frames \cup {None}]
        /\ shard \in [Frames -> Shards] /\ admissionSeq \in [Frames -> Nat] /\ None \notin Frames
    BY ConnAssumption, Zenon DEF InboundInv, InboundTypes, Frames, Inbound!Frames,
                                    Inbound!InboundAssumption
  <1>3. /\ queue[s] \in Seq(Frames) /\ Len(queue[s]) \in Nat /\ Len(queue[s]) > 0
        /\ g \in Frames /\ g = queue[s][1]
        /\ queue'[s] \in Seq(Frames) /\ Len(queue'[s]) = Len(queue[s]) - 1
        /\ \A j \in 1 .. Len(queue'[s]) : queue'[s][j] = queue[s][j + 1]
        /\ \A u \in Shards : u # s => queue'[u] = queue[u] /\ worker'[u] = worker[u]
        /\ worker'[s] = g /\ g # None
    BY <1>1, <1>2
  <1> HIDE DEF g
  <1>4. InboundTypes'
    <2>1. queue' \in [Shards -> Seq(Frames)]
      BY <1>1, <1>2, <1>3
    <2>2. worker' \in [Shards -> Frames \cup {None}]
      BY <1>1, <1>2, <1>3
    <2>3. job' \in [Frames -> {"unread", "queued", "taken", "admitting", "running", "done"}]
      BY <1>1, <1>3 DEF InboundInv, InboundTypes
    <2> QED
      BY <1>1, <2>1, <2>2, <2>3, Zenon DEF InboundInv, InboundTypes
  <1>5. Numbered' /\ Decided' /\ Passed'
    <2>1. \A f \in Frames : job'[f] = "unread" => job[f] = "unread"
      BY <1>1, <1>3 DEF InboundInv, InboundTypes
    <2> QED
      BY <1>1, <2>1, Zenon DEF InboundInv, Numbered, Decided, Passed
  <1>6. ASSUME NEW f \in Frames, admissionSeq'[f] # 0, verdict'[f] = "none"
        PROVE  InShard(f)'
    <2>1. InShard(f) /\ shard'[f] = shard[f] /\ shard[f] \in Shards
      BY <1>1, <1>2, <1>6, Zenon DEF InboundInv, InOrder
    <2>2. CASE shard[f] # s
      <3>1. queue'[shard[f]] = queue[shard[f]] /\ worker'[shard[f]] = worker[shard[f]]
        BY <1>3, <2>1, <2>2, Zenon
      <3> QED
        BY <2>1, <3>1, Zenon DEF InShard
    <2>3. CASE shard[f] = s
      <3>1. PICK j \in 1 .. Len(queue[s]) : queue[s][j] = f
        BY <1>1, <1>2, <2>1, <2>3, Zenon DEF InShard
      <3>2. CASE j = 1
        BY <1>3, <2>1, <2>3, <3>1, <3>2, Zenon DEF InShard
      <3>3. CASE j # 1
        <4>1. j - 1 \in 1 .. Len(queue'[s]) /\ queue'[s][j - 1] = f
          BY <1>3, <3>1, <3>3
        <4> QED
          BY <2>1, <2>3, <4>1, Zenon DEF InShard
      <3> QED
        BY <3>2, <3>3, Zenon
    <2> QED
      BY <2>2, <2>3, Zenon
  <1>7. ASSUME NEW u \in Shards PROVE Ordered(u)'
    <2>1. Ordered(u)
      BY Zenon DEF InboundInv, InOrder
    <2>2. CASE u # s
      <3>1. queue'[u] = queue[u] /\ worker'[u] = worker[u]
        BY <1>3, <2>2, Zenon
      <3> QED
        BY <1>1, <2>1, <3>1, Zenon DEF Ordered
    <2>3. CASE u = s
      BY <1>1, <1>3, <2>1, <2>3 DEF Ordered
    <2> QED
      BY <2>2, <2>3, Zenon
  <1> QED
    BY <1>4, <1>5, <1>6, <1>7, Zenon DEF InboundInv, InOrder

\* dispatch decides about the frame in the hands of the goroutine of the shard.
LEMMA EndKeeps ==
  ASSUME InboundInv, NEW s \in Shards, worker[s] # None,
         NEW result \in {"admitted", "refused", "canceled"}, NEW to \in {"running", "done"},
         Inbound!EndDispatch(s, worker[s], result, to)
  PROVE  InboundInv'
  <1> DEFINE g == worker[s]
  <1>1. /\ worker' = [worker EXCEPT ![s] = None] /\ job' = [job EXCEPT ![g] = to]
        /\ verdict' = [verdict EXCEPT ![g] = result] /\ Inbound!FinishAdmission(admissionSeq[g])
        /\ UNCHANGED <<admissionNext, shard, admissionSeq, queue, barrier, barrierSeq>>
    BY Zenon DEF Inbound!EndDispatch, Inbound!barrierVars
  <1>2. /\ admissionNext \in Nat /\ admissionDone \in Nat /\ admissionFinished \in SUBSET Nat
        /\ worker \in [Shards -> Frames \cup {None}] /\ admissionSeq \in [Frames -> Nat]
        /\ verdict \in [Frames -> {"none", "admitted", "refused", "canceled"}]
        /\ job \in [Frames -> {"unread", "queued", "taken", "admitting", "running", "done"}]
        /\ shard \in [Frames -> Shards] /\ barrierSeq \in [Barriers -> Nat]
    BY Zenon DEF InboundInv, InboundTypes
  <1>3. g \in Frames /\ shard[g] = s /\ admissionSeq[g] \in Nat /\ admissionSeq[g] # 0
        /\ admissionSeq[g] <= admissionNext
    <2>1. g \in Frames /\ admissionSeq[g] \in Nat
      BY <1>2, Zenon
    <2>2. shard[g] = s /\ admissionSeq[g] # 0
      BY Zenon DEF InboundInv, InOrder, Ordered
    <2>3. admissionSeq[g] <= admissionNext
      BY <2>1, Zenon DEF InboundInv, Numbered
    <2> QED
      BY <2>1, <2>2, <2>3, Zenon
  <1>4. admissionDone <= admissionNext /\ \A d \in admissionFinished : d <= admissionNext
    BY Zenon DEF InboundInv, Decided
  <1>5. /\ admissionDone' \in Nat /\ admissionDone <= admissionDone' /\ admissionDone' <= admissionNext
        /\ admissionFinished' \in SUBSET Nat /\ \A d \in admissionFinished' : d <= admissionNext
        /\ \A k \in Nat : k \in 1 .. admissionDone' \/ k \in admissionFinished' =>
                            k \in 1 .. admissionDone \/ k \in admissionFinished \cup {admissionSeq[g]}
    <2> HIDE DEF g
    <2> QED
      BY <1>1, <1>2, <1>3, <1>4, AdmissionAdvances, Zenon DEF InboundInv
  <1>6. /\ verdict'[g] = result /\ \A f \in Frames : f # g => verdict'[f] = verdict[f]
        /\ worker'[s] = None /\ \A u \in Shards : u # s => worker'[u] = worker[u]
    BY <1>1, <1>2, <1>3
  <1> HIDE DEF g
  <1>7. InboundTypes'
    <2>1. worker' \in [Shards -> Frames \cup {None}]
      BY <1>1, <1>2
    <2>2. job' \in [Frames -> {"unread", "queued", "taken", "admitting", "running", "done"}]
      BY <1>1, <1>2, <1>3
    <2>3. verdict' \in [Frames -> {"none", "admitted", "refused", "canceled"}]
      BY <1>1, <1>2, <1>3
    <2> QED
      BY <1>1, <1>5, <2>1, <2>2, <2>3, Zenon DEF InboundInv, InboundTypes
  <1>8. Numbered'
    <2>1. \A f \in Frames : job'[f] = "unread" => job[f] = "unread"
      BY <1>1, <1>2, <1>3
    <2> QED
      BY <1>1, <2>1, Zenon DEF InboundInv, Numbered
  <1>9. Decided'
    <2>1. ASSUME NEW f \in Frames,
                 admissionSeq[f] \in 1 .. admissionDone' \/ admissionSeq[f] \in admissionFinished'
          PROVE  verdict'[f] # "none"
      <3>1. CASE f = g
        BY <1>6, <3>1
      <3>2. CASE f # g
        <4>1. admissionSeq[f] \in Nat /\ admissionSeq[f] # admissionSeq[g]
          BY <1>2, <1>3, <3>2, Zenon DEF InboundInv, Numbered
        <4>2. admissionSeq[f] \in 1 .. admissionDone \/ admissionSeq[f] \in admissionFinished
          BY <1>5, <2>1, <4>1, Zenon
        <4> QED
          BY <1>6, <3>2, <4>2, Zenon DEF InboundInv, Decided
      <3> QED
        BY <3>1, <3>2, Zenon
    <2> QED
      BY <1>1, <1>5, <2>1, Zenon DEF Decided
  <1>10. Passed'
    BY <1>1, <1>2, <1>5 DEF InboundInv, Passed
  <1>11. ASSUME NEW f \in Frames, admissionSeq'[f] # 0, verdict'[f] = "none"
         PROVE  InShard(f)'
    <2>1. f # g
      BY <1>6, <1>11
    <2>2. InShard(f) /\ shard[f] \in Shards
      BY <1>1, <1>2, <1>6, <1>11, <2>1, Zenon DEF InboundInv, InOrder
    <2>3. worker[shard[f]] = f => shard[f] # s
      BY <2>1, Zenon DEF g
    <2> QED
      BY <1>1, <1>6, <2>2, <2>3, Zenon DEF InShard
  <1>12. ASSUME NEW u \in Shards PROVE Ordered(u)'
    <2>1. Ordered(u)
      BY Zenon DEF InboundInv, InOrder
    <2> QED
      BY <1>1, <1>6, <2>1, Zenon DEF Ordered
  <1> QED
    BY <1>7, <1>8, <1>9, <1>10, <1>11, <1>12, Zenon DEF InboundInv, InOrder

\* A frame that was not read is in no shard.
LEMMA UnreadIsNowhere ==
  ASSUME InboundInv, NEW f \in Frames, job[f] = "unread", NEW u \in Shards
  PROVE  worker[u] # f /\ \A i \in 1 .. Len(queue[u]) : queue[u][i] # f
  <1>1. admissionSeq[f] = 0 /\ f # None
    BY ConnAssumption, Zenon DEF InboundInv, Numbered, Frames, Inbound!Frames,
                                    Inbound!InboundAssumption
  <1>2. Ordered(u)
    BY Zenon DEF InboundInv, InOrder
  <1> QED
    BY <1>1, <1>2, Zenon DEF Ordered

\* A frame is read: it joins the end of its shard with the highest number, or is
\* refused and decided at once.
LEMMA ReadKeeps ==
  ASSUME InboundInv, NEW f \in Frames, Inbound!ReadFrame(f)
  PROVE  InboundInv'
  <1> DEFINE n == admissionNext + 1
  <1>1. /\ job[f] = "unread" /\ admissionNext' = n
        /\ admissionSeq' = [admissionSeq EXCEPT ![f] = n]
        /\ UNCHANGED <<shard, worker, barrier, barrierSeq>>
    BY Zenon DEF Inbound!ReadFrame, Inbound!barrierVars
  <1>2. \/ /\ job' = [job EXCEPT ![f] = "queued"]
           /\ queue' = [queue EXCEPT ![shard[f]] = Append(@, f)]
           /\ UNCHANGED <<admissionDone, admissionFinished, verdict>>
        \/ /\ job' = [job EXCEPT ![f] = "done"] /\ verdict' = [verdict EXCEPT ![f] = "refused"]
           /\ Inbound!FinishAdmission(n) /\ queue' = queue
    BY Zenon DEF Inbound!ReadFrame, Inbound!ShardOf
  <1>3. /\ admissionNext \in Nat /\ admissionDone \in Nat /\ admissionFinished \in SUBSET Nat
        /\ shard \in [Frames -> Shards] /\ admissionSeq \in [Frames -> Nat]
        /\ job \in [Frames -> {"unread", "queued", "taken", "admitting", "running", "done"}]
        /\ verdict \in [Frames -> {"none", "admitted", "refused", "canceled"}]
        /\ queue \in [Shards -> Seq(Frames)] /\ worker \in [Shards -> Frames \cup {None}]
        /\ barrierSeq \in [Barriers -> Nat]
    BY Zenon DEF InboundInv, InboundTypes
  <1>4. /\ n \in Nat /\ admissionSeq'[f] = n /\ n # 0
        /\ \A g \in Frames : g # f => admissionSeq'[g] = admissionSeq[g]
        /\ admissionSeq' \in [Frames -> Nat] /\ shard[f] \in Shards
    BY <1>1, <1>3
  <1>5. \A g \in Frames : admissionSeq[g] \in Nat /\ admissionSeq[g] < n
    BY <1>3 DEF InboundInv, Numbered
  <1>6. admissionDone < n /\ \A d \in admissionFinished : d < n
    BY <1>3 DEF InboundInv, Decided
  <1>7. \A u \in Shards : worker[u] # f /\ \A i \in 1 .. Len(queue[u]) : queue[u][i] # f
    BY <1>1, UnreadIsNowhere, Zenon
  <1> HIDE DEF n
  <1>8. Numbered'
    <2>1. \A g \in Frames : job'[g] = "unread" => job[g] = "unread" /\ g # f
      BY <1>2, <1>3
    <2>2. \A g \in Frames : admissionSeq'[g] <= n
      BY <1>4, <1>5
    <2>3. \A g \in Frames : job'[g] = "unread" => admissionSeq'[g] = 0
      BY <1>4, <2>1, Zenon DEF InboundInv, Numbered
    <2>4. \A g, h \in Frames : admissionSeq'[g] = admissionSeq'[h] => g = h \/ admissionSeq'[g] = 0
      BY <1>4, <1>5 DEF InboundInv, Numbered
    <2> QED
      BY <1>1, <2>2, <2>3, <2>4, Zenon DEF Numbered
  <1>9. /\ admissionDone' \in Nat /\ admissionDone <= admissionDone' /\ admissionDone' <= n
        /\ admissionFinished' \in SUBSET Nat /\ \A d \in admissionFinished' : d <= n
        /\ \A k \in Nat : k \in 1 .. admissionDone' \/ k \in admissionFinished' =>
                            k \in 1 .. admissionDone \/ k \in admissionFinished \cup {n}
    <2>1. admissionDone <= n /\ \A d \in admissionFinished : d <= n
      BY <1>3, <1>4, <1>6
    <2>2. CASE UNCHANGED <<admissionDone, admissionFinished>>
      BY <1>3, <2>1, <2>2
    <2>3. CASE Inbound!FinishAdmission(n)
      <3>1. n <= n
        BY <1>4
      <3> QED
        BY <1>4, <2>1, <2>3, <3>1, AdmissionAdvances, Zenon DEF InboundInv
    <2> QED
      BY <1>2, <2>2, <2>3, Zenon
  <1>10. InboundTypes'
    <2>1. queue' \in [Shards -> Seq(Frames)]
      <3>1. queue' = queue \/ queue' = [queue EXCEPT ![shard[f]] = Append(queue[shard[f]], f)]
        BY <1>2, Zenon
      <3>2. queue \in [Shards -> Seq(Frames)] /\ shard[f] \in Shards
        BY <1>3, <1>4, Zenon
      <3>3. Append(queue[shard[f]], f) \in Seq(Frames)
        BY <3>2
      <3> QED
        BY <3>1, <3>2, <3>3, Zenon
    <2>2. job' \in [Frames -> {"unread", "queued", "taken", "admitting", "running", "done"}]
      <3>1. job' = [job EXCEPT ![f] = "queued"] \/ job' = [job EXCEPT ![f] = "done"]
        BY <1>2, Zenon
      <3>2. job \in [Frames -> {"unread", "queued", "taken", "admitting", "running", "done"}]
        BY <1>3, Zenon
      <3> QED
        BY <3>1, <3>2
    <2>3. verdict' \in [Frames -> {"none", "admitted", "refused", "canceled"}]
      <3>1. verdict' = verdict \/ verdict' = [verdict EXCEPT ![f] = "refused"]
        BY <1>2, Zenon
      <3>2. verdict \in [Frames -> {"none", "admitted", "refused", "canceled"}]
        BY <1>3, Zenon
      <3> QED
        BY <3>1, <3>2
    <2> QED
      BY <1>1, <1>4, <1>9, <2>1, <2>2, <2>3, Zenon DEF InboundInv, InboundTypes
  <1>11. Passed'
    BY <1>1, <1>3, <1>9 DEF InboundInv, Passed
  <1>12. Decided'
    <2>1. ASSUME NEW g \in Frames,
                 admissionSeq'[g] \in 1 .. admissionDone' \/ admissionSeq'[g] \in admissionFinished'
          PROVE  verdict'[g] # "none"
      <3>1. CASE g = f /\ UNCHANGED <<admissionDone, admissionFinished>>
        BY <1>3, <1>4, <1>6, <2>1, <3>1
      <3>2. CASE g = f /\ verdict' = [verdict EXCEPT ![f] = "refused"]
        BY <1>3, <3>2
      <3>3. CASE g # f
        <4>1. verdict'[g] = verdict[g]
          BY <1>2, <1>3, <3>3
        <4>2. admissionSeq[g] \in Nat /\ admissionSeq[g] # n
          BY <1>4, <1>5
        <4>3. admissionSeq[g] \in 1 .. admissionDone \/ admissionSeq[g] \in admissionFinished
          BY <1>4, <1>9, <2>1, <3>3, <4>2, Zenon
        <4> QED
          BY <4>1, <4>3, Zenon DEF InboundInv, Decided
      <3> QED
        BY <1>2, <3>1, <3>2, <3>3, Zenon
    <2> QED
      BY <1>1, <1>9, <2>1, Zenon DEF Decided
  <1>13. ASSUME NEW g \in Frames, admissionSeq'[g] # 0, verdict'[g] = "none"
         PROVE  InShard(g)'
    <2>1. CASE g = f
      <3>1. queue'[shard[f]] = Append(queue[shard[f]], f)
        BY <1>2, <1>3, <1>4, <1>13, <2>1
      <3>2. /\ Len(queue[shard[f]]) + 1 \in 1 .. Len(queue'[shard[f]])
            /\ queue'[shard[f]][Len(queue[shard[f]]) + 1] = f
        BY <1>3, <1>4, <3>1
      <3> QED
        BY <1>1, <2>1, <3>2, Zenon DEF InShard
    <2>2. CASE g # f
      <3>1. InShard(g) /\ shard[g] \in Shards
        <4>1. verdict[g] = "none"
          BY <1>2, <1>3, <1>13, <2>2
        <4> QED
          BY <1>3, <1>4, <1>13, <2>2, <4>1, Zenon DEF InboundInv, InOrder
      <3>2. ASSUME NEW i \in 1 .. Len(queue[shard[g]])
            PROVE  i \in 1 .. Len(queue'[shard[g]]) /\ queue'[shard[g]][i] = queue[shard[g]][i]
        <4>1. \/ queue'[shard[g]] = queue[shard[g]]
              \/ queue'[shard[g]] = Append(queue[shard[g]], f)
          <5>1. queue' = queue \/ queue' = [queue EXCEPT ![shard[f]] = Append(queue[shard[f]], f)]
            BY <1>2, Zenon
          <5>2. queue \in [Shards -> Seq(Frames)]
            BY <1>3, Zenon
          <5> QED
            BY <3>1, <5>1, <5>2
        <4>2. queue[shard[g]] \in Seq(Frames)
          BY <1>3, <3>1
        <4> QED
          BY <4>1, <4>2
      <3> QED
        BY <1>1, <3>1, <3>2, Zenon DEF InShard
    <2> QED
      BY <2>1, <2>2, Zenon
  <1>14. ASSUME NEW u \in Shards PROVE Ordered(u)'
    <2>1. Ordered(u)
      BY Zenon DEF InboundInv, InOrder
    <2>2. queue[u] \in Seq(Frames) /\ Len(queue[u]) \in Nat
      BY <1>3
    <2>3. \A i \in 1 .. Len(queue[u]) :
            queue[u][i] \in Frames /\ admissionSeq'[queue[u][i]] = admissionSeq[queue[u][i]]
      BY <1>4, <1>7, <2>2
    <2>4. worker[u] # None =>
            worker[u] \in Frames /\ admissionSeq'[worker[u]] = admissionSeq[worker[u]]
      BY <1>3, <1>4, <1>7, Zenon
    <2>5. CASE queue'[u] = queue[u]
      BY <1>1, <2>1, <2>3, <2>4, <2>5 DEF Ordered
    <2>6. CASE u = shard[f] /\ queue'[u] = Append(queue[u], f)
      <3>1. /\ Len(queue'[u]) = Len(queue[u]) + 1 /\ queue'[u][Len(queue[u]) + 1] = f
            /\ \A i \in 1 .. Len(queue[u]) : queue'[u][i] = queue[u][i]
        BY <2>2, <2>6
      <3>2. /\ \A i \in 1 .. Len(queue[u]) : admissionSeq'[queue[u][i]] < n
            /\ worker[u] # None => admissionSeq'[worker[u]] < n
        <4>1. ASSUME NEW i \in 1 .. Len(queue[u]) PROVE admissionSeq'[queue[u][i]] < n
          <5>1. queue[u][i] \in Frames /\ admissionSeq'[queue[u][i]] = admissionSeq[queue[u][i]]
            BY <2>3, Zenon
          <5> QED
            BY <1>5, <5>1, Zenon
        <4>2. worker[u] # None => admissionSeq'[worker[u]] < n
          BY <1>5, <2>4, Zenon
        <4> QED
          BY <4>1, <4>2, Zenon
      <3>3. ASSUME NEW i \in 1 .. Len(queue'[u])
            PROVE  shard[queue'[u][i]] = u /\ admissionSeq'[queue'[u][i]] # 0
        <4>1. CASE i \in 1 .. Len(queue[u])
          <5>1. shard[queue[u][i]] = u /\ admissionSeq[queue[u][i]] # 0
            BY <2>1, <4>1, Zenon DEF Ordered
          <5> QED
            BY <2>3, <3>1, <4>1, <5>1, Zenon
        <4>2. CASE i = Len(queue[u]) + 1
          BY <1>4, <2>6, <3>1, <4>2, Zenon
        <4> QED
          BY <2>2, <3>1, <4>1, <4>2
      <3>4. ASSUME NEW i \in 1 .. Len(queue'[u]), NEW j \in 1 .. Len(queue'[u]), i < j
            PROVE  admissionSeq'[queue'[u][i]] < admissionSeq'[queue'[u][j]]
        <4>1. i \in 1 .. Len(queue[u]) /\ queue'[u][i] = queue[u][i]
          BY <2>2, <3>1, <3>4
        <4>2. CASE j \in 1 .. Len(queue[u])
          <5>1. admissionSeq[queue[u][i]] < admissionSeq[queue[u][j]]
            BY <2>1, <3>4, <4>1, <4>2, Zenon DEF Ordered
          <5>2. /\ admissionSeq'[queue[u][i]] = admissionSeq[queue[u][i]]
                /\ admissionSeq'[queue[u][j]] = admissionSeq[queue[u][j]]
            BY <2>3, <4>1, <4>2, Zenon
          <5>3. queue'[u][j] = queue[u][j]
            BY <3>1, <4>2, Zenon
          <5> QED
            BY <4>1, <5>1, <5>2, <5>3, Zenon
        <4>3. CASE j = Len(queue[u]) + 1
          BY <1>4, <3>1, <3>2, <4>1, <4>3, Zenon
        <4> QED
          BY <2>2, <3>1, <4>2, <4>3
      <3>5. ASSUME worker[u] # None
            PROVE  /\ shard[worker[u]] = u /\ admissionSeq'[worker[u]] # 0
                   /\ \A i \in 1 .. Len(queue'[u]) :
                        admissionSeq'[worker[u]] < admissionSeq'[queue'[u][i]]
        <4>1. shard[worker[u]] = u /\ admissionSeq'[worker[u]] # 0
          BY <2>1, <2>4, <3>5, Zenon DEF Ordered
        <4>2. \A i \in 1 .. Len(queue[u]) : admissionSeq'[worker[u]] < admissionSeq'[queue[u][i]]
          BY <2>1, <2>3, <2>4, <3>5, Zenon DEF Ordered
        <4>3. ASSUME NEW i \in 1 .. Len(queue'[u])
              PROVE  admissionSeq'[worker[u]] < admissionSeq'[queue'[u][i]]
          <5>1. CASE i \in 1 .. Len(queue[u])
            BY <3>1, <4>2, <5>1, Zenon
          <5>2. CASE i = Len(queue[u]) + 1
            BY <1>4, <3>1, <3>2, <3>5, <5>2, Zenon
          <5> QED
            BY <2>2, <3>1, <5>1, <5>2
        <4> QED
          BY <4>1, <4>3, Zenon
      <3> QED
        BY <1>1, <3>3, <3>4, <3>5, Zenon DEF Ordered
    <2>7. queue'[u] = queue[u] \/ (u = shard[f] /\ queue'[u] = Append(queue[u], f))
      BY <1>2, <1>3
    <2> QED
      BY <2>5, <2>6, <2>7, Zenon
  <1> QED
    BY <1>8, <1>10, <1>11, <1>12, <1>13, <1>14, Zenon DEF InboundInv, InOrder

\* Every step of the receiving side keeps the invariant.
LEMMA InboundStep ==
  ASSUME InboundInv, [Inbound!Next]_(Inbound!vars)
  PROVE  InboundInv'
  <1>1. CASE UNCHANGED Inbound!vars
    <2>1. UNCHANGED <<admissionNext, admissionDone, admissionFinished, shard, admissionSeq, verdict, job,
                      queue, worker, barrier, barrierSeq>>
      BY <1>1, Zenon DEF Inbound!vars, Inbound!connVars, Inbound!dispatchVars, Inbound!barrierVars
    <2>2. Undisturbed /\ Passed'
      BY <2>1, Zenon DEF Undisturbed, InboundInv, InboundTypes, Passed
    <2>3. /\ barrier' \in [Barriers -> {"unread", "busy", "waiting", "answered", "expired"}]
          /\ barrierSeq' \in [Barriers -> Nat]
      BY <2>1, Zenon DEF InboundInv, InboundTypes
    <2> QED
      BY <2>2, <2>3, UndisturbedKeeps, Zenon
  <1>2. ASSUME NEW f \in Frames, Inbound!ReadFrame(f) PROVE InboundInv'
    BY <1>2, ReadKeeps, Zenon
  <1>3. CASE \/ Inbound!Close \/ Inbound!StopNode
             \/ \E f \in Frames : Inbound!ReadCancel(f) \/ Inbound!Respond(f) \/ Inbound!Abandon(f)
    BY <1>3, QuietKeeps, Zenon
  <1>4. ASSUME NEW s \in Shards, Inbound!TakeJob(s) PROVE InboundInv'
    BY <1>4, TakeKeeps, Zenon
  <1>5. ASSUME NEW s \in Shards, Inbound!Dispatch(s) PROVE InboundInv'
    <2>1. CASE Inbound!BeginAdmit(s)
      BY <2>1, QuietKeeps, Zenon
    <2>2. CASE Inbound!SkipCanceled(s) \/ Inbound!Refuse(s) \/ Inbound!AdmitFails(s) \/ Inbound!Admit(s)
      <3>1. worker[s] # None /\ \E result \in {"admitted", "refused", "canceled"}, to \in {"running", "done"} :
                                  Inbound!EndDispatch(s, worker[s], result, to)
        BY <2>2 DEF Inbound!SkipCanceled, Inbound!Refuse, Inbound!AdmitFails, Inbound!Admit,
                    Inbound!AfterError, Inbound!AfterAdmit
      <3> QED
        BY <3>1, EndKeeps, Zenon
    <2> QED
      BY <1>5, <2>1, <2>2, Zenon DEF Inbound!Dispatch
  <1>6. ASSUME NEW b \in Barriers,
               Inbound!ReadBarrier(b) \/ Inbound!AnswerBarrier(b) \/ Inbound!ExpireBarrier(b)
        PROVE  InboundInv'
    BY <1>6, BarrierKeeps, Zenon
  <1> QED
    BY <1>1, <1>2, <1>3, <1>4, <1>5, <1>6, Zenon DEF Inbound!Next, Frames

\* The invariant of the receiving side holds in every reachable state.
LEMMA InboundInvariance == Inbound!Spec => []InboundInv
  BY InboundInit, InboundStep, PTL DEF Inbound!Spec

\* A barrier is answered only when admission has been decided for every frame that
\* was read before it.
THEOREM BarriersWait == Inbound!Spec => []BarrierWaits
  <1>1. InboundInv => BarrierWaits
    <2> SUFFICES ASSUME InboundInv, NEW b \in Barriers, barrier[b] = "answered",
                        NEW f \in Frames, admissionSeq[f] \in 1 .. barrierSeq[b]
                 PROVE  verdict[f] # "none"
      BY Zenon DEF BarrierWaits, Inbound!BarrierWaits, Frames
    <2>1. barrierSeq[b] \in Nat /\ admissionDone \in Nat /\ barrierSeq[b] <= admissionDone
      BY Zenon DEF InboundInv, InboundTypes, Passed
    <2>2. admissionSeq[f] \in 1 .. admissionDone
      BY <2>1
    <2> QED
      BY <2>2, Zenon DEF InboundInv, Decided
  <1> QED
    BY <1>1, InboundInvariance, PTL

\* Only the goroutine of the shard admits, and only the frame in its hands.
LEMMA AdmittedByItsShard ==
  ASSUME InboundInv, Inbound!Next, NEW g \in Frames, verdict[g] = "none", verdict'[g] = "admitted"
  PROVE  \E s \in Shards : worker[s] = g
  <1>0. verdict \in [Frames -> {"none", "admitted", "refused", "canceled"}]
    BY Zenon DEF InboundInv, InboundTypes
  <1>1. PICK s \in Shards : Inbound!Admit(s)
    <2>1. verdict' # verdict
      BY Zenon
    <2>2. ASSUME NEW f \in Frames PROVE ~ Inbound!ReadFrame(f)
      <3> SUFFICES ASSUME Inbound!ReadFrame(f) PROVE FALSE
        OBVIOUS
      <3>1. verdict' = verdict \/ verdict' = [verdict EXCEPT ![f] = "refused"]
        BY Zenon DEF Inbound!ReadFrame
      <3> QED
        BY <1>0, <3>1
    <2>3. ASSUME NEW s \in Shards, NEW to, NEW result \in {"refused", "canceled"}
          PROVE  ~ Inbound!EndDispatch(s, worker[s], result, to)
      <3> SUFFICES ASSUME Inbound!EndDispatch(s, worker[s], result, to) PROVE FALSE
        OBVIOUS
      <3>1. verdict' = [verdict EXCEPT ![worker[s]] = result]
        BY Zenon DEF Inbound!EndDispatch
      <3> QED
        BY <1>0, <3>1
    <2>4. ASSUME NEW s \in Shards
          PROVE  ~ (Inbound!SkipCanceled(s) \/ Inbound!Refuse(s) \/ Inbound!AdmitFails(s))
      BY <2>3 DEF Inbound!SkipCanceled, Inbound!Refuse, Inbound!AdmitFails
    <2>5. /\ ~ (Inbound!Close \/ Inbound!StopNode)
          /\ ~ \E f \in Frames : Inbound!ReadCancel(f) \/ Inbound!Respond(f) \/ Inbound!Abandon(f)
          /\ ~ \E s \in Shards : Inbound!TakeJob(s) \/ Inbound!BeginAdmit(s)
          /\ ~ \E b \in Barriers :
                  Inbound!ReadBarrier(b) \/ Inbound!AnswerBarrier(b) \/ Inbound!ExpireBarrier(b)
      BY <2>1, Zenon DEF Inbound!Close, Inbound!StopNode, Inbound!ReadCancel, Inbound!Respond,
            Inbound!Abandon, Inbound!TakeJob, Inbound!BeginAdmit, Inbound!ReadBarrier,
            Inbound!AnswerBarrier, Inbound!ExpireBarrier
    <2> QED
      BY <2>2, <2>4, <2>5, Zenon DEF Inbound!Next, Inbound!Dispatch, Frames
  <1>2. verdict' = [verdict EXCEPT ![worker[s]] = "admitted"]
    BY <1>1, Zenon DEF Inbound!Admit, Inbound!EndDispatch
  <1>3. worker[s] = g
    BY <1>0, <1>2
  <1> QED
    BY <1>3, Zenon

\* Frames for one shard are admitted in the order in which they were read.
THEOREM FramesAdmittedInOrder == Inbound!Spec => AdmittedInOrder
  <1>1. ASSUME InboundInv, Inbound!Next PROVE Inbound!AdmitsInOrder
    <2> SUFFICES ASSUME NEW f \in Frames, NEW g \in Frames,
                        verdict[g] = "none", verdict'[g] = "admitted", shard[f] = shard[g],
                        admissionSeq[f] \in 1 .. (admissionSeq[g] - 1), verdict[f] = "none"
                 PROVE  FALSE
      BY Zenon DEF Inbound!AdmitsInOrder, Frames
    <2>1. PICK s \in Shards : worker[s] = g
      BY <1>1, AdmittedByItsShard, Zenon
    <2>2. g # None
      BY ConnAssumption, Zenon DEF Frames, Inbound!Frames, Inbound!InboundAssumption
    <2>3. Ordered(s) /\ shard[g] = s
      <3>1. Ordered(s)
        BY <1>1, Zenon DEF InboundInv, InOrder
      <3> QED
        BY <2>1, <2>2, <3>1, Zenon DEF Ordered
    <2>4. admissionSeq[f] \in Nat /\ admissionSeq[g] \in Nat
      BY <1>1, Zenon DEF InboundInv, InboundTypes
    <2>5. admissionSeq[f] # 0 /\ admissionSeq[f] < admissionSeq[g]
      BY <2>4
    <2>6. InShard(f)
      BY <1>1, <2>5, Zenon DEF InboundInv, InOrder
    <2>7. ~ \E i \in 1 .. Len(queue[s]) : queue[s][i] = f
      BY <2>1, <2>2, <2>3, <2>4, <2>5 DEF Ordered
    <2>8. f = g
      BY <2>1, <2>3, <2>6, <2>7, Zenon DEF InShard
    <2> QED
      BY <2>4, <2>5, <2>8
  <1>2. UNCHANGED Inbound!vars => UNCHANGED inboundVars
    BY Zenon DEF inboundVars, Inbound!vars, Inbound!connVars, Inbound!dispatchVars, Inbound!barrierVars
  <1>3. InboundInv /\ [Inbound!Next]_(Inbound!vars) => [Inbound!AdmitsInOrder]_inboundVars
    BY <1>1, <1>2, Zenon
  <1> QED
    BY <1>3, InboundInvariance, PTL DEF Inbound!Spec, AdmittedInOrder
==============================================================================
