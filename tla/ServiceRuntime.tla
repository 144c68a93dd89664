---------------------------- MODULE ServiceRuntime ----------------------------
(***************************************************************************)
(* The mailbox runtime of one actor service (actor/system_runtime.go): the *)
(* scheduler goroutine serviceRuntime.run, one goroutine per activation    *)
(* (execute, Await), the goroutines of the callers (admit, callMailbox,    *)
(* sendMailbox, trySendMailbox) and the session table of actor/system.go.  *)
(*                                                                         *)
(* A request stands for its caller goroutine, its serviceEnvelope and its  *)
(* serviceActivation: the three exist once per request.  Of a Drainable    *)
(* system only the refusal by trackAdmission appears here (Draining); the  *)
(* count of tracked work is the subject of Drain.tla.  A handler calls     *)
(* Await, Call and NoYield from its own goroutine only.                    *)
(***************************************************************************)
EXTENDS Integers, Sequences, FiniteSets

CONSTANTS
  Requests,      \* the requests sent to the service
  None,          \* no activation (a nil *serviceActivation)
  MailboxSize,   \* ServiceOptions.MailboxSize
  MaxSuspended,  \* ServiceOptions.MaxSuspended
  NoInterleave,  \* ServiceOptions.NoInterleave
  Kinds,         \* the operations its callers use: "call", "send", "trySend"
  Draining,      \* Drain may close admission (Drain.tla)
  MaxYields      \* bound on the Awaits of one handler

ASSUME RuntimeAssumption ==
  /\ IsFiniteSet(Requests)
  /\ None \notin Requests
  /\ MailboxSize \in Nat \ {0}
  /\ MaxSuspended \in Nat \ {0}
  /\ NoInterleave \in BOOLEAN /\ Draining \in BOOLEAN
  /\ Kinds \subseteq {"call", "send", "trySend"}
  /\ MaxYields \in Nat

VARIABLES
  cancelled,     \* svc.ctx is done and svc.state is serviceStopping
  \* The callers
  pc,            \* where the caller goroutine of a request is
  kind,          \* the API it called: Call, Send or TrySend
  result,        \* what it returned
  \* The session table
  pending,       \* the sessions in System.pending
  response,      \* the content of the response channel of a call
  \* The mailbox
  slots,         \* len(rt.slots)
  slotHeld,      \* serviceEnvelope.slotHeld
  \* The locals of serviceRuntime.run
  loop,          \* where the scheduler goroutine is
  current, ready, suspended, segmentSeq, stopping,
  \* The activations
  act,           \* where the activation of a request is
  outcome,       \* what its handler returned
  grant,         \* the one-place channel serviceActivation.grant is full
  noYield,       \* the handler is inside a NoYield section
  yieldAt,       \* serviceActivation.yieldAtSegment
  version,       \* serviceActivation.interleaveVersion
  mark,          \* the version recorded by the last MarkTurn
  yields,        \* how often the handler has awaited
  \* History
  dirty          \* another activation has run since the last MarkTurn

clientVars == <<pc, kind, result>>
sessionVars == <<pending, response>>
slotVars == <<slots, slotHeld>>
loopVars == <<loop, current, ready, suspended, segmentSeq, stopping>>
turnVars == <<yieldAt, version, mark, dirty>>
actVars == <<act, outcome, grant, noYield, yields>>
vars == <<cancelled, clientVars, sessionVars, slotVars, loopVars, turnVars, actVars>>

PcStates == {"idle", "admit", "emit", "wait", "collect", "returned"}
Replies == {"ok", "handlerErr", "dropped"}
Results == Replies \cup {"none", "accepted", "rejected", "abandoned"}
LoopStates == {"top", "select", "purge", "exited"}
ActStates == {"none", "queued", "start", "run", "yield", "wait", "resume", "regrant",
              "hold", "finish", "deliver", "done", "dead", "dropped"}

\* The activation goroutine executes handler code, or is about to, or has just
\* returned from it: it owns the state of the service.
Owning == {"start", "run", "yield", "hold", "finish", "deliver", "done"}

Started(r) == act[r] \notin {"none", "queued", "dropped"}

Init ==
  /\ cancelled = FALSE
  /\ pc = [r \in Requests |-> "idle"]
  /\ kind \in [Requests -> Kinds]
  /\ result = [r \in Requests |-> "none"]
  /\ pending = {}
  /\ response = [r \in Requests |-> "none"]
  /\ slots = 0
  /\ slotHeld = [r \in Requests |-> FALSE]
  /\ loop = "top" /\ current = None /\ ready = <<>> /\ suspended = {}
  /\ segmentSeq = 0 /\ stopping = FALSE
  /\ act = [r \in Requests |-> "none"]
  /\ outcome = [r \in Requests |-> "none"]
  /\ grant = [r \in Requests |-> FALSE]
  /\ noYield = [r \in Requests |-> FALSE]
  /\ yieldAt = [r \in Requests |-> 0]
  /\ version = [r \in Requests |-> 0]
  /\ mark = [r \in Requests |-> 0]
  /\ yields = [r \in Requests |-> 0]
  /\ dirty = [r \in Requests |-> FALSE]
-----------------------------------------------------------------------------
(* The callers *)

Return(r, res) ==
  /\ pc' = [pc EXCEPT ![r] = "returned"]
  /\ result' = [result EXCEPT ![r] = res]

\* A call that is not admitted cancels its session.
RejectKeepsSession(r) == Return(r, "rejected") /\ UNCHANGED pending

RejectTriesAgain(r) ==
  /\ pc' = [pc EXCEPT ![r] = "idle"]
  /\ pending' = pending \ {r}
  /\ UNCHANGED result

Reject(r) == Return(r, "rejected") /\ pending' = pending \ {r}

\* Call, Send, TrySend: service(ref) refuses a service that is not running; a
\* call registers its session before it asks for admission.
Begin(r) ==
  /\ pc[r] = "idle"
  /\ IF cancelled
     THEN Reject(r)
     ELSE /\ pc' = [pc EXCEPT ![r] = "admit"]
          /\ pending' = IF kind[r] = "call" THEN pending \cup {r} ELSE pending
          /\ UNCHANGED result
  /\ UNCHANGED <<cancelled, kind, response, slotVars, loopVars, turnVars, actVars>>

\* admit, tryAdmit: rt.slots <- struct{}{}.
TakeSlot(r) ==
  /\ pc[r] = "admit"
  /\ slots < MailboxSize
  /\ slots' = slots + 1
  /\ slotHeld' = [slotHeld EXCEPT ![r] = TRUE]
  /\ pc' = [pc EXCEPT ![r] = "emit"]
  /\ UNCHANGED <<cancelled, kind, result, sessionVars, loopVars, turnVars, actVars>>

\* trackAdmission refuses while the system drains.  The other cases of the select:
\* for admit the timer, the caller's context or the service's context; for tryAdmit
\* the default case, when no slot is free.
AdmissionFails(r) ==
  /\ pc[r] = "admit"
  /\ kind[r] = "trySend" => Draining \/ slots = MailboxSize
  /\ Reject(r)
  /\ UNCHANGED <<cancelled, kind, response, slotVars, loopVars, turnVars, actVars>>

\* emit(eventEnqueue) after rt.done was closed: give the slot back and fail.
EmitFails(r) ==
  /\ pc[r] = "emit"
  /\ loop = "exited"
  /\ slots' = slots - 1
  /\ slotHeld' = [slotHeld EXCEPT ![r] = FALSE]
  /\ Reject(r)
  /\ UNCHANGED <<cancelled, kind, response, loopVars, turnVars, actVars>>

\* callMailbox: result := <-response, whether in the select or after a lost race
\* with completeSession.
TakeResponse(r) ==
  /\ pc[r] \in {"wait", "collect"}
  /\ response[r] # "none"
  /\ Return(r, response[r])
  /\ response' = [response EXCEPT ![r] = "none"]
  /\ UNCHANGED <<cancelled, kind, pending, slotVars, loopVars, turnVars, actVars>>

\* callMailbox: the call timer, the caller's context or the service's context.
\* The caller leaves only if cancelSession removed the session.
Abandon(r) ==
  /\ pc[r] = "wait"
  /\ IF r \in pending
     THEN Return(r, "abandoned") /\ pending' = pending \ {r}
     ELSE pc' = [pc EXCEPT ![r] = "collect"] /\ UNCHANGED <<result, pending>>
  /\ UNCHANGED <<cancelled, kind, response, slotVars, loopVars, turnVars, actVars>>

\* Service.Stop of a running service.
Stop ==
  /\ ~cancelled
  /\ cancelled' = TRUE
  /\ UNCHANGED <<clientVars, sessionVars, slotVars, loopVars, turnVars, actVars>>
-----------------------------------------------------------------------------
(* The scheduler goroutine *)

\* if env.slotHeld { <-rt.slots }
ReleaseSlotNever(r) == UNCHANGED slotVars

ReleaseSlot(r) ==
  /\ slots' = IF slotHeld[r] THEN slots - 1 ELSE slots
  /\ slotHeld' = [slotHeld EXCEPT ![r] = FALSE]

\* finishPending(act, ErrServiceStopping): give the slot back, answer the call.
FinishPending(r) ==
  /\ ReleaseSlot(r)
  /\ pending' = pending \ {r}
  /\ response' = IF r \in pending THEN [response EXCEPT ![r] = "dropped"] ELSE response
  /\ act' = [act EXCEPT ![r] = "dropped"]

\* run: the loop ends when it is stopping and nothing is left; rt.done is closed.
DrainedButSuspended == stopping /\ current = None /\ ready = <<>>

Drained == stopping /\ current = None /\ ready = <<>> /\ suspended = {}

Exit ==
  /\ loop = "top"
  /\ Drained
  /\ loop' = "exited"
  /\ UNCHANGED <<cancelled, clientVars, sessionVars, slotVars, current, ready, suspended,
                 segmentSeq, stopping, turnVars, actVars>>

\* schedule: a segment is running or nothing is ready.
NothingReady == ready = <<>>

NothingToSchedule == current # None \/ ready = <<>>

ScheduleNothing ==
  /\ loop = "top"
  /\ NothingToSchedule /\ ~Drained
  /\ loop' = "select"
  /\ UNCHANGED <<cancelled, clientVars, sessionVars, slotVars, current, ready, suspended,
                 segmentSeq, stopping, turnVars, actVars>>

\* Segments of other activations were granted since this one yielded.
InterleavedAlways(a) == Started(a)

Interleaved(a) == Started(a) /\ segmentSeq > yieldAt[a]

\* schedule: grant the service to activation a, the head of ready.
GrantSegment(a) ==
  /\ ReleaseSlot(a)
  /\ version' = IF Interleaved(a) THEN [version EXCEPT ![a] = @ + 1] ELSE version
  /\ segmentSeq' = segmentSeq + 1
  /\ current' = a
  /\ act' = IF Started(a) THEN act ELSE [act EXCEPT ![a] = "start"]
  /\ grant' = [grant EXCEPT ![a] = TRUE]
  /\ dirty' = [r \in Requests |-> IF r = a THEN dirty[r] ELSE Started(r)]
  /\ UNCHANGED sessionVars

Schedule ==
  /\ loop = "top"
  /\ ~NothingToSchedule
  /\ ready' = Tail(ready)
  /\ loop' = "select"
  /\ IF stopping /\ ~Started(Head(ready))
     THEN /\ FinishPending(Head(ready))
          /\ UNCHANGED <<current, segmentSeq, version, grant, dirty>>
     ELSE GrantSegment(Head(ready))
  /\ UNCHANGED <<cancelled, clientVars, suspended, stopping, yieldAt, mark, outcome,
                 noYield, yields>>

\* case <-serviceDone: read once, serviceDone is then nil.
ServiceDoneUnnoticed ==
  /\ loop = "select"
  /\ cancelled /\ ~stopping
  /\ loop' = "purge"
  /\ UNCHANGED <<cancelled, clientVars, sessionVars, slotVars, current, ready, suspended,
                 segmentSeq, stopping, turnVars, actVars>>

ServiceDone ==
  /\ loop = "select"
  /\ cancelled /\ ~stopping
  /\ stopping' = TRUE
  /\ loop' = "purge"
  /\ UNCHANGED <<cancelled, clientVars, sessionVars, slotVars, current, ready, suspended,
                 segmentSeq, turnVars, actVars>>

\* ... then fail, one after the other, the ready activations that never started
\* and keep the started ones in their order.
PurgeReady ==
  /\ loop = "purge"
  /\ \E i \in 1 .. Len(ready) :
       /\ ~Started(ready[i])
       /\ \A j \in 1 .. i - 1 : Started(ready[j])
       /\ FinishPending(ready[i])
       /\ ready' = SubSeq(ready, 1, i - 1) \o SubSeq(ready, i + 1, Len(ready))
  /\ UNCHANGED <<cancelled, clientVars, loop, current, suspended, segmentSeq, stopping,
                 turnVars, outcome, grant, noYield, yields>>

PurgeDone ==
  /\ loop = "purge"
  /\ \A i \in 1 .. Len(ready) : Started(ready[i])
  /\ loop' = "top"
  /\ UNCHANGED <<cancelled, clientVars, sessionVars, slotVars, current, ready, suspended,
                 segmentSeq, stopping, turnVars, actVars>>

\* An envelope that arrives while the loop is stopping is dropped.
Enqueue(r) ==
  IF stopping
  THEN FinishPending(r) /\ UNCHANGED ready
  ELSE /\ ready' = Append(ready, r)
       /\ act' = [act EXCEPT ![r] = "queued"]
       /\ UNCHANGED <<slotVars, sessionVars>>

\* case eventEnqueue.  emit returns in the caller: a notification is accepted, a
\* call goes on to wait for its response.
EventEnqueue(r) ==
  /\ loop = "select"
  /\ pc[r] = "emit"
  /\ IF kind[r] = "call"
     THEN pc' = [pc EXCEPT ![r] = "wait"] /\ UNCHANGED result
     ELSE Return(r, "accepted")
  /\ Enqueue(r)
  /\ loop' = "top"
  /\ UNCHANGED <<cancelled, kind, current, suspended, segmentSeq, stopping, turnVars,
                 outcome, grant, noYield, yields>>

YieldRefusedLate(r) ==
  NoInterleave \/ current # r \/ Cardinality(suspended) > MaxSuspended

\* A yield is refused in a NoInterleave service, for an activation that is not
\* running and above MaxSuspended; the handler then goes on with the error.
YieldRefused(r) ==
  NoInterleave \/ current # r \/ Cardinality(suspended) >= MaxSuspended

Suspend(r) ==
  /\ yieldAt' = [yieldAt EXCEPT ![r] = segmentSeq]
  /\ suspended' = suspended \cup {r}
  /\ current' = None

\* case eventYield.
EventYield(r) ==
  /\ loop = "select"
  /\ act[r] = "yield"
  /\ act' = [act EXCEPT ![r] = IF YieldRefused(r) THEN "run" ELSE "wait"]
  /\ IF YieldRefused(r) THEN UNCHANGED <<current, suspended, yieldAt>> ELSE Suspend(r)
  /\ loop' = "top"
  /\ UNCHANGED <<cancelled, clientVars, sessionVars, slotVars, ready, segmentSeq, stopping,
                 version, mark, dirty, outcome, grant, noYield, yields>>

Resume(r) ==
  suspended' = suspended \ {r} /\ ready' = Append(ready, r)

\* case eventResume.
EventResume(r) ==
  /\ loop = "select"
  /\ act[r] = "resume"
  /\ IF r \in suspended THEN Resume(r) ELSE UNCHANGED <<suspended, ready>>
  /\ act' = [act EXCEPT ![r] = "regrant"]
  /\ loop' = "top"
  /\ UNCHANGED <<cancelled, clientVars, sessionVars, slotVars, current, segmentSeq, stopping,
                 turnVars, outcome, grant, noYield, yields>>

\* case eventDone.
EventDone(r) ==
  /\ loop = "select"
  /\ act[r] = "done"
  /\ current' = IF current = r THEN None ELSE current
  /\ suspended' = suspended \ {r}
  /\ act' = [act EXCEPT ![r] = "dead"]
  /\ loop' = "top"
  /\ UNCHANGED <<cancelled, clientVars, sessionVars, slotVars, ready, segmentSeq, stopping,
                 turnVars, outcome, grant, noYield, yields>>
-----------------------------------------------------------------------------
(* The activation goroutines *)

Goto(r, from, to) ==
  /\ act[r] = from
  /\ act' = [act EXCEPT ![r] = to]

\* <-act.grant, at the start of execute or at the end of an Await.
ReceiveGrant(r) == grant[r] /\ grant' = [grant EXCEPT ![r] = FALSE]

TakeGrant(r) ==
  /\ act[r] \in {"start", "regrant"}
  /\ ReceiveGrant(r)
  /\ act' = [act EXCEPT ![r] = "run"]
  /\ UNCHANGED <<cancelled, clientVars, sessionVars, slotVars, loopVars, turnVars, outcome,
                 noYield, yields>>

\* MarkTurn.
MarkTurn(r) ==
  /\ act[r] = "run"
  /\ mark' = [mark EXCEPT ![r] = version[r]]
  /\ dirty' = [dirty EXCEPT ![r] = FALSE]
  /\ UNCHANGED <<cancelled, clientVars, sessionVars, slotVars, loopVars, yieldAt, version,
                 actVars>>

\* NoYield: act.noYield.Add(1) and the deferred Add(-1).
EnterNoYield(r) ==
  /\ act[r] = "run" /\ ~noYield[r]
  /\ noYield' = [noYield EXCEPT ![r] = TRUE]
  /\ UNCHANGED <<cancelled, clientVars, sessionVars, slotVars, loopVars, turnVars, act,
                 outcome, grant, yields>>

LeaveNoYield(r) ==
  /\ act[r] = "run" /\ noYield[r]
  /\ noYield' = [noYield EXCEPT ![r] = FALSE]
  /\ UNCHANGED <<cancelled, clientVars, sessionVars, slotVars, loopVars, turnVars, act,
                 outcome, grant, yields>>

\* Await, or a Call to another service: ErrYieldForbidden leaves the activation
\* as it is; a NoInterleave service waits without giving the service up.
YieldForbidden(r) == noYield[r]

Await(r) ==
  /\ yields[r] < MaxYields
  /\ ~YieldForbidden(r)
  /\ Goto(r, "run", IF NoInterleave THEN "hold" ELSE "yield")
  /\ yields' = [yields EXCEPT ![r] = @ + 1]
  /\ UNCHANGED <<cancelled, clientVars, sessionVars, slotVars, loopVars, turnVars, outcome,
                 grant, noYield>>

\* wait(ctx) returns.
WaitReturns(r) ==
  /\ \/ Goto(r, "wait", "resume")
     \/ Goto(r, "hold", "run")
  /\ UNCHANGED <<cancelled, clientVars, sessionVars, slotVars, loopVars, turnVars, outcome,
                 grant, noYield, yields>>

\* The handler returns a value or an error, or panics and is recovered.
HandlerReturns(r) ==
  /\ ~noYield[r]
  /\ Goto(r, "run", "finish")
  /\ \E res \in {"ok", "handlerErr"} : outcome' = [outcome EXCEPT ![r] = res]
  /\ UNCHANGED <<cancelled, clientVars, sessionVars, slotVars, loopVars, turnVars, grant,
                 noYield, yields>>

\* completeSession: LoadAndDelete.  A notification has no session.
CompletionLost(r) == "done"

Completion(r) == IF r \in pending THEN "deliver" ELSE "done"

CompleteSession(r) ==
  /\ Goto(r, "finish", Completion(r))
  /\ pending' = pending \ {r}
  /\ UNCHANGED <<cancelled, clientVars, response, slotVars, loopVars, turnVars, outcome,
                 grant, noYield, yields>>

\* completeSession: pending.response <- result.
DeliverResponse(r) ==
  /\ Goto(r, "deliver", "done")
  /\ response' = [response EXCEPT ![r] = outcome[r]]
  /\ UNCHANGED <<cancelled, clientVars, pending, slotVars, loopVars, turnVars, outcome,
                 grant, noYield, yields>>
-----------------------------------------------------------------------------
ClientStep(r) ==
  \/ Begin(r) \/ TakeSlot(r) \/ AdmissionFails(r) \/ EmitFails(r)
  \/ TakeResponse(r) \/ Abandon(r)

LoopStep ==
  \/ Exit \/ ScheduleNothing \/ Schedule \/ ServiceDone \/ PurgeReady \/ PurgeDone

Event(r) ==
  \/ EventEnqueue(r) \/ EventYield(r) \/ EventResume(r) \/ EventDone(r)

HandlerStep(r) ==
  \/ MarkTurn(r) \/ EnterNoYield(r) \/ Await(r)
  \/ TakeGrant(r) \/ LeaveNoYield(r) \/ WaitReturns(r) \/ HandlerReturns(r)
  \/ CompleteSession(r) \/ DeliverResponse(r)

\* Every caller has returned and the scheduler has exited.
Finished ==
  /\ loop = "exited"
  /\ \A r \in Requests : pc[r] = "returned"
  /\ UNCHANGED vars

Next ==
  \/ Stop
  \/ LoopStep
  \/ \E r \in Requests : ClientStep(r) \/ Event(r) \/ HandlerStep(r)
  \/ Finished

Spec == Init /\ [][Next]_vars

\* Goroutines keep running; timers fire, so an admission or a call that can only
\* time out does; awaited functions and handlers return.  A sender blocked on
\* rt.events or svc.ctx.Done() is served although the loop leaves the select in
\* between: channel senders queue in order and select chooses at random.
Fairness ==
  /\ WF_vars(Exit \/ ScheduleNothing \/ Schedule \/ PurgeReady \/ PurgeDone)
  /\ SF_vars(ServiceDone)
  /\ \A r \in Requests :
       /\ WF_vars(ClientStep(r) /\ pc[r] # "idle")
       /\ SF_vars(Event(r))
       /\ WF_vars(TakeGrant(r))
       /\ WF_vars(LeaveNoYield(r))
       /\ WF_vars(WaitReturns(r))
       /\ SF_vars(HandlerReturns(r))
       /\ WF_vars(CompleteSession(r) \/ DeliverResponse(r))

FairSpec == Spec /\ Fairness
-----------------------------------------------------------------------------
(* Properties *)

TypeOK ==
  /\ cancelled \in BOOLEAN
  /\ pc \in [Requests -> PcStates]
  /\ kind \in [Requests -> Kinds]
  /\ result \in [Requests -> Results]
  /\ pending \in SUBSET Requests
  /\ response \in [Requests -> Replies \cup {"none"}]
  /\ slots \in Nat
  /\ slotHeld \in [Requests -> BOOLEAN]
  /\ loop \in LoopStates
  /\ current \in Requests \cup {None}
  /\ ready \in Seq(Requests)
  /\ suspended \in SUBSET Requests
  /\ segmentSeq \in Nat
  /\ stopping \in BOOLEAN
  /\ act \in [Requests -> ActStates]
  /\ outcome \in [Requests -> {"none", "ok", "handlerErr"}]
  /\ grant \in [Requests -> BOOLEAN]
  /\ noYield \in [Requests -> BOOLEAN]
  /\ yieldAt \in [Requests -> Nat]
  /\ version \in [Requests -> Nat]
  /\ mark \in [Requests -> Nat]
  /\ yields \in [Requests -> Nat]
  /\ dirty \in [Requests -> BOOLEAN]

\* At most one activation of the service is between its grant and its next
\* yield or eventDone: handlers never run handler code at the same time.
SingleSegment ==
  \A r, s \in Requests : act[r] \in Owning /\ act[s] \in Owning => r = s

\* A token in rt.slots belongs to exactly one request that is being admitted or
\* waits unstarted in ready: the mailbox never exceeds its size, no slot leaks
\* on a timeout, a stop or a drop, and the receives on rt.slots never block.
SlotAccounting ==
  /\ slots = Cardinality({r \in Requests : slotHeld[r]})
  /\ slots <= MailboxSize
  /\ \A r \in Requests : slotHeld[r] <=> pc[r] = "emit" \/ act[r] = "queued"

\* The suspended map holds the activations that are inside an Await, at most
\* MaxSuspended of them and none in a NoInterleave service.
SuspendedBound ==
  /\ suspended = {r \in Requests : act[r] \in {"wait", "resume"}}
  /\ Cardinality(suspended) <= MaxSuspended
  /\ NoInterleave => suspended = {}

\* A NoYield section runs as one uninterrupted piece of its activation: the
\* service is not granted to anyone else before the section ends.
NoYieldIsAtomic ==
  \A r \in Requests : noYield[r] =>
     /\ act[r] = "run" /\ current = r
     /\ \A s \in Requests \ {r} : act[s] \notin Owning /\ ~grant[s]

\* InterleavedSince(ctx, mark) answers exactly whether another activation of the
\* service has run since MarkTurn.
InterleavedSinceExact ==
  \A r \in Requests :
    act[r] \in {"run", "yield", "hold", "finish"} => (version[r] # mark[r] <=> dirty[r])

\* Once the loop has seen the stop, ready holds started activations only, so the
\* drop inside schedule is dead code and no handler starts after the purge.
StopKeepsStarted ==
  stopping /\ loop # "purge" => \A i \in 1 .. Len(ready) : Started(ready[i])

\* schedule never blocks on the one-place grant channel: an activation that is
\* ready has consumed its last grant.
GrantNeverBlocks ==
  \A i \in 1 .. Len(ready) : ~grant[ready[i]]

\* A call that was admitted always has someone who will answer it: its session is
\* still pending and its activation alive, or the answer is on its way or there.
\* In particular a caller that lost the race in cancelSession is never left
\* waiting for a response that does not come, also when the runtime exits.
CallIsAnswered ==
  \A r \in Requests : pc[r] \in {"wait", "collect"} =>
     \/ pc[r] = "wait" /\ r \in pending
          /\ act[r] \notin {"none", "deliver", "done", "dead", "dropped"}
     \/ act[r] = "deliver"
     \/ response[r] # "none"

\* When rt.done is closed no activation is left behind: every handler that ever
\* started has emitted eventDone, so the failure branches of emit in Await and in
\* execute are never taken.
ExitLeavesNothing ==
  loop = "exited" => \A r \in Requests : act[r] \in {"none", "dead", "dropped"}

\* What a caller is told is what happened: a rejected request and one dropped by
\* the stop never ran, a result is the one its handler returned, and no session
\* outlives its caller.
ResultIsTruthful ==
  \A r \in Requests : pc[r] = "returned" =>
     /\ r \notin pending
     /\ result[r] = "rejected" => act[r] = "none"
     /\ result[r] = "dropped" => act[r] = "dropped"
     /\ result[r] \in {"ok", "handlerErr"} =>
          act[r] \in {"done", "dead"} /\ outcome[r] = result[r]

\* In a NoInterleave service a handler that has started ends before the next one
\* starts, its waits included.
SerialHandlers ==
  NoInterleave =>
    \A r, s \in Requests :
      act[r] \notin {"none", "queued", "dropped", "dead"} /\ act[s] \notin {"none", "queued", "dropped", "dead"}
        => r = s

\* Service.Stop terminates the runtime: the loop finishes the handlers that have
\* started, drops the others and closes rt.done.
StopCompletes == cancelled ~> loop = "exited"

\* An activation that was put into ready is run to its end or dropped by a stop.
QueuedIsServed ==
  \A r \in Requests : act[r] = "queued" ~> act[r] \in {"dead", "dropped"}

\* A caller that entered the mailbox returns.
CallerReturns ==
  \A r \in Requests : pc[r] = "admit" ~> pc[r] = "returned"
===============================================================================
