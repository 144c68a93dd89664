--------------------------- MODULE InboundDispatch ---------------------------
(***************************************************************************)
(* The receiving side of one cluster connection: the read loop of          *)
(* acceptConn (cluster/inbound.go), the sharded dispatcher                 *)
(* (cluster/dispatcher.go) and the admission barrier (cluster/drain.go).   *)
(*                                                                         *)
(* A frame is a CALL or a SEND; its target selects the shard.  Whether the *)
(* target is valid and whether the mailbox admits the request is decided   *)
(* by the actor system (DispatchRemoteAsync) and left open here.  A write  *)
(* to the connection may fail, which closes it.                            *)
(***************************************************************************)
EXTENDS Integers, Sequences

CONSTANTS
  Calls,            \* KIND_CALL frames
  Sends,            \* KIND_SEND frames
  Barriers,         \* KIND_PING frames with the admission barrier protocol
  None,             \* no frame
  Shards,           \* Config.InboundShards, as a set
  InboundQueue,     \* Config.InboundQueue
  MaxInboundCalls   \* Config.MaxInboundCalls

InboundAssumption ==
  /\ Calls \cap Sends = {} /\ None \notin Calls \cup Sends
  /\ InboundQueue \in Nat /\ MaxInboundCalls \in Nat

Frames == Calls \cup Sends

VARIABLES
  open,              \* the connection is open and its context alive
  stopped,           \* the context of the node and of the dispatcher is done
  \* inboundConn
  admissionNext, admissionDone, admissionFinished, barrierPending,
  calls,             \* the map conn.calls
  \* inboundJob
  shard,             \* the shard of the target of a frame
  job,               \* where a job is
  admissionSeq, canceled,
  verdict,           \* history: what admission decided about a frame
  answers,           \* history: the responses written for a call
  \* inboundDispatcher
  queue,             \* the channels d.shards
  slots,             \* len(d.slots)
  callSlots,         \* len(d.calls)
  worker,            \* the job the goroutine of a shard dispatches
  \* The barriers
  barrier,           \* where the goroutine of a barrier is
  barrierSeq         \* the admissionNext it captured

connVars == <<admissionNext, admissionDone, admissionFinished>>
dispatchVars == <<queue, slots, callSlots, worker>>
barrierVars == <<barrier, barrierSeq, barrierPending>>
vars == <<open, stopped, connVars, calls, shard, job, admissionSeq, canceled, verdict, answers,
          dispatchVars, barrierVars>>

Init ==
  /\ open = TRUE /\ stopped = FALSE
  /\ admissionNext = 0 /\ admissionDone = 0 /\ admissionFinished = {}
  /\ barrierPending = FALSE
  /\ calls = {}
  /\ shard \in [Frames -> Shards]
  /\ job = [f \in Frames |-> "unread"]
  /\ admissionSeq = [f \in Frames |-> 0]
  /\ canceled = [f \in Frames |-> FALSE]
  /\ verdict = [f \in Frames |-> "none"]
  /\ answers = [f \in Frames |-> 0]
  /\ queue = [s \in Shards |-> <<>>]
  /\ slots = 0 /\ callSlots = 0
  /\ worker = [s \in Shards |-> None]
  /\ barrier = [b \in Barriers |-> "unread"]
  /\ barrierSeq = [b \in Barriers |-> 0]
-----------------------------------------------------------------------------
\* finishAdmission: the frames done are a set, admissionDone the end of its
\* contiguous prefix.
FinishAdmission(sequence) ==
  LET finished == admissionFinished \cup {sequence}
      reached == {admissionDone} \cup
                   {d \in finished : \A k \in (admissionDone + 1) .. d : k \in finished}
      done == CHOOSE d \in reached : \A e \in reached : d >= e
  IN  /\ admissionDone' = done
      /\ admissionFinished' = {d \in finished : d > done}

\* writeResponse: nothing arrives on a closed connection.
WriteResponse(f) ==
  answers' = IF f \in Calls /\ open THEN [answers EXCEPT ![f] = @ + 1] ELSE answers

\* submit: a target always has the same shard (its address modulo the shards).
ShardByLoad(f) == CHOOSE s \in Shards : \A u \in Shards : Len(queue[s]) <= Len(queue[u])

ShardOf(f) == shard[f]

\* A CALL or SEND frame is read: beginAdmission, the entry in conn.calls, and
\* submit, which refuses the job when the queue is full.
ReadFrame(f) ==
  LET sequence == admissionNext + 1 IN
  /\ open /\ job[f] = "unread"
  /\ admissionNext' = sequence
  /\ admissionSeq' = [admissionSeq EXCEPT ![f] = sequence]
  /\ IF slots < InboundQueue
     THEN /\ job' = [job EXCEPT ![f] = "queued"]
          /\ calls' = IF f \in Calls THEN calls \cup {f} ELSE calls
          /\ slots' = slots + 1
          /\ queue' = [queue EXCEPT ![ShardOf(f)] = Append(@, f)]
          /\ UNCHANGED <<admissionDone, admissionFinished, verdict, answers>>
     ELSE /\ job' = [job EXCEPT ![f] = "done"]
          /\ verdict' = [verdict EXCEPT ![f] = "refused"]
          /\ FinishAdmission(sequence)
          /\ WriteResponse(f)
          /\ UNCHANGED <<calls, slots, queue>>
  /\ UNCHANGED <<open, stopped, shard, canceled, callSlots, worker, barrierVars>>

\* A CANCEL frame is read.
ReadCancel(f) ==
  /\ open /\ f \in calls
  /\ canceled' = [canceled EXCEPT ![f] = TRUE]
  /\ UNCHANGED <<open, stopped, connVars, calls, shard, job, admissionSeq, verdict, answers,
                 dispatchVars, barrierVars>>

\* conn.close: a read or write error, the end of the peer, Reload or Stop.
Close ==
  /\ open
  /\ open' = FALSE
  /\ canceled' = [f \in Frames |-> canceled[f] \/ f \in calls]
  /\ UNCHANGED <<stopped, connVars, calls, shard, job, admissionSeq, verdict, answers,
                 dispatchVars, barrierVars>>

\* Node.Stop cancels the context of the node; the connection is closed later.
StopNode ==
  /\ ~stopped
  /\ stopped' = TRUE
  /\ UNCHANGED <<open, connVars, calls, shard, job, admissionSeq, canceled, verdict, answers,
                 dispatchVars, barrierVars>>
-----------------------------------------------------------------------------
\* run: the next job of the shard.
TakeJob(s) ==
  /\ worker[s] = None /\ queue[s] # <<>>
  /\ worker' = [worker EXCEPT ![s] = Head(queue[s])]
  /\ queue' = [queue EXCEPT ![s] = Tail(@)]
  /\ slots' = slots - 1
  /\ job' = [job EXCEPT ![Head(queue[s])] = "taken"]
  /\ UNCHANGED <<open, stopped, connVars, calls, shard, admissionSeq, canceled, verdict, answers,
                 callSlots, barrierVars>>

\* dispatch returns for the job f of shard s, with the deferred finishAdmission.
EndDispatch(s, f, result, to) ==
  /\ worker' = [worker EXCEPT ![s] = None]
  /\ job' = [job EXCEPT ![f] = to]
  /\ verdict' = [verdict EXCEPT ![f] = result]
  /\ FinishAdmission(admissionSeq[f])
  /\ UNCHANGED <<open, stopped, admissionNext, shard, admissionSeq, canceled, queue, slots,
                 barrierVars>>

\* dispatch: a cancelled call is forgotten.
SkipCanceled(s) ==
  LET f == worker[s] IN
  /\ f # None /\ job[f] = "taken" /\ canceled[f]
  /\ EndDispatch(s, f, "canceled", "done")
  /\ calls' = calls \ {f}
  /\ UNCHANGED <<answers, callSlots>>

\* dispatch: a stale target, or a call above MaxInboundCalls.
Refuse(s) ==
  LET f == worker[s] IN
  /\ f # None /\ job[f] = "taken" /\ ~canceled[f]
  /\ EndDispatch(s, f, "refused", "done")
  /\ calls' = calls \ {f}
  /\ WriteResponse(f)
  /\ UNCHANGED callSlots

\* dispatch: a call takes a place in d.calls, then DispatchRemoteAsync is called.
BeginAdmit(s) ==
  LET f == worker[s] IN
  /\ f # None /\ job[f] = "taken" /\ ~canceled[f]
  /\ f \in Calls => callSlots < MaxInboundCalls
  /\ callSlots' = IF f \in Calls THEN callSlots + 1 ELSE callSlots
  /\ job' = [job EXCEPT ![f] = "admitting"]
  /\ UNCHANGED <<open, stopped, connVars, calls, shard, admissionSeq, canceled, verdict, answers,
                 queue, slots, worker, barrierVars>>

\* The place in d.calls that only a call has taken.
ReleaseCallSlot(f) == IF f \in Calls THEN callSlots - 1 ELSE callSlots

\* What follows the two outcomes of DispatchRemoteAsync.
AfterError(f) == "done"

AfterAdmitEnd(f) == "done"

AfterAdmit(f) == IF f \in Calls THEN "running" ELSE "done"

\* DispatchRemoteAsync returns an error: a call is answered with it.
AdmitFails(s) ==
  LET f == worker[s] IN
  /\ f # None /\ job[f] = "admitting"
  /\ EndDispatch(s, f, "refused", AfterError(f))
  /\ calls' = calls \ {f}
  /\ callSlots' = ReleaseCallSlot(f)
  /\ WriteResponse(f)

\* DispatchRemoteAsync has admitted the request: a call goes on in a goroutine.
Admit(s) ==
  LET f == worker[s] IN
  /\ f # None /\ job[f] = "admitting"
  /\ EndDispatch(s, f, "admitted", AfterAdmit(f))
  /\ UNCHANGED <<calls, callSlots, answers>>

\* Both ends of the goroutine of a call: its entry and its place go.
Leave(f) ==
  /\ job' = [job EXCEPT ![f] = "done"]
  /\ calls' = calls \ {f}
  /\ callSlots' = callSlots - 1

\* The goroutine of an admitted call: the future, or the end of the node.
Respond(f) ==
  /\ job[f] = "running"
  /\ Leave(f)
  /\ IF canceled[f] THEN UNCHANGED answers ELSE WriteResponse(f)
  /\ UNCHANGED <<open, stopped, connVars, shard, admissionSeq, canceled, verdict, queue, slots,
                 worker, barrierVars>>

Abandon(f) ==
  /\ job[f] = "running" /\ stopped
  /\ Leave(f)
  /\ canceled' = [canceled EXCEPT ![f] = TRUE]
  /\ UNCHANGED <<open, stopped, connVars, shard, admissionSeq, verdict, answers, queue, slots,
                 worker, barrierVars>>
-----------------------------------------------------------------------------
\* A barrier is read: one at a time, the second is answered "barrier_busy".
ReadBarrier(b) ==
  /\ open /\ barrier[b] = "unread"
  /\ barrierPending' = TRUE
  /\ IF barrierPending
     THEN barrier' = [barrier EXCEPT ![b] = "busy"] /\ UNCHANGED barrierSeq
     ELSE /\ barrier' = [barrier EXCEPT ![b] = "waiting"]
          /\ barrierSeq' = [barrierSeq EXCEPT ![b] = admissionNext]
  /\ UNCHANGED <<open, stopped, connVars, calls, shard, job, admissionSeq, canceled, verdict,
                 answers, dispatchVars>>

\* The admissions before the barrier are complete.
ReachedEarly(b) == admissionDone + 1 >= barrierSeq[b]

Reached(b) == admissionDone >= barrierSeq[b]

\* Its goroutine sees the admissions complete and answers ...
AnswerBarrier(b) ==
  /\ barrier[b] = "waiting"
  /\ Reached(b)
  /\ barrier' = [barrier EXCEPT ![b] = "answered"]
  /\ barrierPending' = FALSE
  /\ UNCHANGED <<open, stopped, connVars, calls, shard, job, admissionSeq, canceled, verdict,
                 answers, dispatchVars, barrierSeq>>

\* ... or its context ends: the timeout, the connection or the node.
ExpireBarrier(b) ==
  /\ barrier[b] = "waiting"
  /\ barrier' = [barrier EXCEPT ![b] = "expired"]
  /\ barrierPending' = FALSE
  /\ UNCHANGED <<open, stopped, connVars, calls, shard, job, admissionSeq, canceled, verdict,
                 answers, dispatchVars, barrierSeq>>
-----------------------------------------------------------------------------
Dispatch(s) == SkipCanceled(s) \/ Refuse(s) \/ BeginAdmit(s) \/ AdmitFails(s) \/ Admit(s)

Next ==
  \/ \E f \in Frames : ReadFrame(f) \/ ReadCancel(f) \/ Respond(f) \/ Abandon(f)
  \/ Close \/ StopNode
  \/ \E s \in Shards : TakeJob(s) \/ Dispatch(s)
  \/ \E b \in Barriers : ReadBarrier(b) \/ AnswerBarrier(b) \/ ExpireBarrier(b)

Spec == Init /\ [][Next]_vars

\* Admissions end by their timeout and admitted calls by theirs; goroutines keep
\* running, a worker until the node is stopped.
Fairness ==
  /\ \A s \in Shards : WF_vars(TakeJob(s) /\ ~stopped) /\ WF_vars(Dispatch(s))
  /\ \A f \in Frames : WF_vars(Respond(f))
  /\ \A b \in Barriers : WF_vars(AnswerBarrier(b))

FairSpec == Spec /\ Fairness
-----------------------------------------------------------------------------
(* Properties *)

\* A barrier is answered only when admission has been decided for every frame that
\* was read before it.
BarrierWaits ==
  \A b \in Barriers : barrier[b] = "answered" =>
     \A f \in Frames : admissionSeq[f] \in 1 .. barrierSeq[b] => verdict[f] # "none"

AdmitsInOrder ==
  \A f, g \in Frames :
     /\ verdict[g] = "none" /\ verdict'[g] = "admitted"
     /\ shard[f] = shard[g] /\ admissionSeq[f] \in 1 .. (admissionSeq[g] - 1)
     => verdict[f] # "none"

\* Frames for one shard are admitted in the order in which they were read.
AdmittedInOrder == [][AdmitsInOrder]_vars

\* A call that was read is answered, unless it is cancelled or the connection or
\* the node goes away.
CallAnswered ==
  \A f \in Calls : job[f] = "queued" ~> (answers[f] = 1 \/ canceled[f] \/ ~open \/ stopped)
===============================================================================
