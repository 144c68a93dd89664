----------------------- MODULE ServiceRuntimeSessions ------------------------
(***************************************************************************)
(* Every step of ServiceRuntime keeps the types, and the parts of IInv     *)
(* about what the callers are owed and told, about the tokens of the       *)
(* mailbox and the suspended handlers, and about the turns that a handler  *)
(* has missed.                                                             *)
(***************************************************************************)
EXTENDS ServiceRuntimeInv
-----------------------------------------------------------------------------
(* Types *)

\* What a caller writes has its type.
LEMMA CallerTypes ==
  ASSUME TypeOK, NEW r \in Requests, ClientStep(r)
  PROVE  /\ pc' \in [Requests -> PcStates] /\ result' \in [Requests -> Results]
         /\ pending' \in SUBSET Requests /\ response' \in [Requests -> Replies \cup {"none"}]
         /\ slotHeld' \in [Requests -> BOOLEAN]
  <1>1. /\ pc \in [Requests -> PcStates] /\ result \in [Requests -> Results]
        /\ pending \in SUBSET Requests /\ response \in [Requests -> Replies \cup {"none"}]
        /\ slotHeld \in [Requests -> BOOLEAN]
    BY Types
  <1>2. CASE Begin(r)
    BY <1>1, <1>2 DEF Begin, Reject, Return, slotVars, PcStates, Results
  <1>3. CASE TakeSlot(r)
    BY <1>1, <1>3 DEF TakeSlot, sessionVars, PcStates
  <1>4. CASE AdmissionFails(r)
    BY <1>1, <1>4 DEF AdmissionFails, Reject, Return, slotVars, PcStates, Results
  <1>5. CASE EmitFails(r)
    BY <1>1, <1>5 DEF EmitFails, Reject, Return, PcStates, Results
  <1>6. CASE TakeResponse(r)
    BY <1>1, <1>6 DEF TakeResponse, Return, slotVars, PcStates, Results
  <1>7. CASE Abandon(r)
    BY <1>1, <1>7 DEF Abandon, Return, slotVars, PcStates, Results
  <1> QED
    BY <1>2, <1>3, <1>4, <1>5, <1>6, <1>7, Zenon DEF ClientStep

\* What an activation goroutine writes has its type.
LEMMA HandlerTypes ==
  ASSUME TypeOK, NEW r \in Requests, HandlerStep(r)
  PROVE  /\ pending' \in SUBSET Requests /\ response' \in [Requests -> Replies \cup {"none"}]
         /\ act' \in [Requests -> ActStates] /\ outcome' \in [Requests -> {"none", "ok", "handlerErr"}]
         /\ grant' \in [Requests -> BOOLEAN] /\ noYield' \in [Requests -> BOOLEAN]
         /\ mark' \in [Requests -> Nat] /\ dirty' \in [Requests -> BOOLEAN] /\ yields' \in [Requests -> Nat]
  <1>1. /\ pending \in SUBSET Requests /\ response \in [Requests -> Replies \cup {"none"}]
        /\ act \in [Requests -> ActStates] /\ outcome \in [Requests -> {"none", "ok", "handlerErr"}]
        /\ grant \in [Requests -> BOOLEAN] /\ noYield \in [Requests -> BOOLEAN]
        /\ mark \in [Requests -> Nat] /\ dirty \in [Requests -> BOOLEAN] /\ yields \in [Requests -> Nat]
        /\ version[r] \in Nat
    BY Types
  <1>2. CASE MarkTurn(r)
    BY <1>1, <1>2 DEF MarkTurn, sessionVars, actVars
  <1>3. CASE EnterNoYield(r)
    BY <1>1, <1>3 DEF EnterNoYield, sessionVars, turnVars
  <1>4. CASE LeaveNoYield(r)
    BY <1>1, <1>4 DEF LeaveNoYield, sessionVars, turnVars
  <1>5. CASE Await(r)
    BY <1>1, <1>5 DEF Await, Goto, sessionVars, turnVars, ActStates
  <1>6. CASE TakeGrant(r)
    BY <1>1, <1>6 DEF TakeGrant, ReceiveGrant, sessionVars, turnVars, ActStates
  <1>7. CASE WaitReturns(r)
    BY <1>1, <1>7 DEF WaitReturns, Goto, sessionVars, turnVars, ActStates
  <1>8. CASE HandlerReturns(r)
    BY <1>1, <1>8 DEF HandlerReturns, Goto, sessionVars, turnVars, ActStates
  <1>9. CASE CompleteSession(r)
    BY <1>1, <1>9 DEF CompleteSession, Goto, Completion, turnVars, ActStates
  <1>10. CASE DeliverResponse(r)
    BY <1>1, <1>10 DEF DeliverResponse, Goto, turnVars, ActStates, Replies
  <1> QED
    BY <1>2, <1>3, <1>4, <1>5, <1>6, <1>7, <1>8, <1>9, <1>10, Zenon DEF HandlerStep

\* What finishPending writes has its type.
LEMMA FinishTypes ==
  ASSUME TypeOK, NEW a \in Requests, FinishPending(a)
  PROVE  /\ pending' \in SUBSET Requests /\ response' \in [Requests -> Replies \cup {"none"}]
         /\ act' \in [Requests -> ActStates] /\ slotHeld' \in [Requests -> BOOLEAN]
  <1>1. /\ pending \in SUBSET Requests /\ response \in [Requests -> Replies \cup {"none"}]
        /\ act \in [Requests -> ActStates] /\ slotHeld \in [Requests -> BOOLEAN]
    BY Types
  <1>2. pending' \in SUBSET Requests /\ response' \in [Requests -> Replies \cup {"none"}]
    BY <1>1 DEF FinishPending, Replies
  <1>3. act' \in [Requests -> ActStates] /\ slotHeld' \in [Requests -> BOOLEAN]
    BY <1>1 DEF FinishPending, ReleaseSlot, ActStates
  <1> QED
    BY <1>2, <1>3, Zenon

\* What a grant writes has its type.
LEMMA GrantTypes ==
  ASSUME TypeOK, NEW a \in Requests, GrantSegment(a)
  PROVE  /\ current' \in Requests /\ segmentSeq' \in Nat /\ version' \in [Requests -> Nat]
         /\ dirty' \in [Requests -> BOOLEAN] /\ act' \in [Requests -> ActStates]
         /\ grant' \in [Requests -> BOOLEAN] /\ slotHeld' \in [Requests -> BOOLEAN]
         /\ UNCHANGED <<pending, response>>
  <1>1. /\ segmentSeq \in Nat /\ version \in [Requests -> Nat] /\ dirty \in [Requests -> BOOLEAN]
        /\ act \in [Requests -> ActStates] /\ grant \in [Requests -> BOOLEAN]
        /\ slotHeld \in [Requests -> BOOLEAN]
    BY Types
  <1>2. current' \in Requests /\ segmentSeq' \in Nat /\ version' \in [Requests -> Nat]
    BY <1>1 DEF GrantSegment
  <1>3. dirty' \in [Requests -> BOOLEAN]
    BY <1>1, Zenon DEF GrantSegment, Started
  <1>4. act' \in [Requests -> ActStates] /\ grant' \in [Requests -> BOOLEAN] /\ slotHeld' \in [Requests -> BOOLEAN]
    BY <1>1 DEF GrantSegment, ReleaseSlot, ActStates
  <1> QED
    BY <1>2, <1>3, <1>4, Zenon DEF GrantSegment, sessionVars

\* What an event other than an enqueue writes has its type.
LEMMA EventTypes ==
  ASSUME TypeOK, SuspendInv, NEW r \in Requests, EventYield(r) \/ EventResume(r) \/ EventDone(r)
  PROVE  /\ act' \in [Requests -> ActStates] /\ current' \in Requests \cup {None}
         /\ suspended' \in SUBSET Requests /\ ready' \in Seq(Requests) /\ yieldAt' \in [Requests -> Nat]
  <1>1. /\ act \in [Requests -> ActStates] /\ current \in Requests \cup {None}
        /\ suspended \in SUBSET Requests /\ ready \in Seq(Requests) /\ yieldAt \in [Requests -> Nat]
        /\ segmentSeq \in Nat
    BY Types
  <1>2. act' \in [Requests -> ActStates]
    BY <1>1 DEF EventYield, EventResume, EventDone, ActStates
  <1>3. CASE EventYield(r)
    <2>1. UNCHANGED ready /\ (UNCHANGED <<current, suspended, yieldAt>> \/ Suspend(r))
      BY <1>3, YieldEffect, Zenon
    <2> QED
      BY <1>1, <1>2, <2>1 DEF Suspend
  <1>4. CASE EventResume(r)
    <2>1. suspended' = suspended \ {r} /\ ready' = Append(ready, r) /\ UNCHANGED <<current, yieldAt>>
      BY <1>4, ResumeEffect, Zenon
    <2> QED
      BY <1>1, <1>2, <2>1
  <1>5. CASE EventDone(r)
    <2>1. current' \in Requests \cup {None} /\ suspended' \in SUBSET Requests /\ UNCHANGED <<ready, yieldAt>>
      BY <1>1, <1>5, DoneEffect, Zenon
    <2> QED
      BY <1>1, <1>2, <2>1, Zenon
  <1> QED
    BY <1>3, <1>4, <1>5, Zenon

\* Every step keeps the types; that a slot is given back only by a request that holds
\* one, so that their number stays a number, is for SlotStep.
LEMMA TypeStep ==
  ASSUME TypeOK, ReadyInv, SuspendInv, [Next]_vars, slots' \in Nat
  PROVE  TypeOK'
  <1>1. CASE Quiet
    <2>1. cancelled' \in BOOLEAN /\ stopping' \in BOOLEAN /\ loop' \in LoopStates
      BY <1>1, Zenon DEF Quiet, Stop, Exit, ScheduleNothing, ServiceDone, PurgeDone, Finished, vars, loopVars,
         TypeOK, LoopStates
    <2> QED
      BY <1>1, <2>1, QuietFrame, Zenon DEF TypeOK
  <1>2. CASE Schedule
    <2>1. /\ Leaves(1) /\ loop' = "select"
          /\ UNCHANGED <<cancelled, pc, kind, result, suspended, stopping, yieldAt, mark, outcome,
                         noYield, yields>>
      BY <1>2, ScheduleEffect, Zenon
    <2>2. ready[1] \in Requests /\ ready' \in Seq(Requests) /\ loop' \in LoopStates
      BY <2>1 DEF Leaves, LoopStates
    <2>3. Head(ready) = ready[1]
      BY <1>2, Types DEF Schedule, NothingToSchedule
    <2>4. \/ GrantSegment(ready[1])
          \/ FinishPending(ready[1]) /\ UNCHANGED <<current, segmentSeq, version, grant, dirty>>
      BY <1>2, <2>3, Zenon DEF Schedule
    <2>5. CASE GrantSegment(ready[1])
      <3>1. /\ current' \in Requests \cup {None} /\ segmentSeq' \in Nat /\ version' \in [Requests -> Nat]
            /\ dirty' \in [Requests -> BOOLEAN] /\ act' \in [Requests -> ActStates]
            /\ grant' \in [Requests -> BOOLEAN] /\ slotHeld' \in [Requests -> BOOLEAN]
            /\ UNCHANGED <<pending, response>>
        BY <2>2, <2>5, GrantTypes, Zenon
      <3> QED
        BY <2>1, <2>2, <3>1, Zenon DEF TypeOK
    <2>6. CASE FinishPending(ready[1]) /\ UNCHANGED <<current, segmentSeq, version, grant, dirty>>
      BY <2>1, <2>2, <2>6, FinishTypes, Zenon DEF TypeOK
    <2> QED
      BY <2>4, <2>5, <2>6, Zenon
  <1>3. CASE PurgeReady
    <2>1. PICK i \in 1 .. Len(ready) :
            /\ FinishPending(ready[i])
            /\ ready' = SubSeq(ready, 1, i - 1) \o SubSeq(ready, i + 1, Len(ready))
      BY <1>3, Zenon DEF PurgeReady
    <2>2. ready \in Seq(Requests) /\ ready[i] \in Requests
      BY Types
    <2>3. ready' \in Seq(Requests)
      BY <2>1, <2>2, RemovalFacts, Zenon
    <2>4. UNCHANGED <<cancelled, pc, kind, result, loop, current, suspended, segmentSeq, stopping,
                      yieldAt, version, mark, dirty, outcome, grant, noYield, yields>>
      BY <1>3, PurgeEffect, Zenon
    <2> QED
      BY <2>1, <2>2, <2>3, <2>4, FinishTypes, Zenon DEF TypeOK
  <1>4. ASSUME NEW r \in Requests, ClientStep(r) PROVE TypeOK'
    BY <1>4, CallerFrame, CallerTypes, Zenon DEF TypeOK
  <1>5. ASSUME NEW r \in Requests, HandlerStep(r) PROVE TypeOK'
    BY <1>5, HandlerFrame, HandlerTypes, Zenon DEF TypeOK
  <1>6. ASSUME NEW r \in Requests, EventEnqueue(r) PROVE TypeOK'
    <2>1. pc' \in [Requests -> PcStates] /\ result' \in [Requests -> Results] /\ loop' \in LoopStates
      BY <1>6, Types, Zenon DEF EventEnqueue, Return, PcStates, Results, LoopStates
    <2>2. UNCHANGED <<cancelled, kind, current, suspended, segmentSeq, stopping, yieldAt, version,
                      mark, dirty, outcome, grant, noYield, yields>>
      BY <1>6, EnqueueEffect, Zenon
    <2>3. CASE FinishPending(r) /\ UNCHANGED ready
      BY <2>1, <2>2, <2>3, FinishTypes, Zenon DEF TypeOK
    <2>4. CASE ready' = Append(ready, r) /\ act' = [act EXCEPT ![r] = "queued"] /\ UNCHANGED <<slotHeld, pending, response>>
      <3>1. ready' \in Seq(Requests) /\ act' \in [Requests -> ActStates]
        BY <2>4, Types DEF ActStates
      <3> QED
        BY <2>1, <2>2, <2>4, <3>1, Zenon DEF TypeOK
    <2> QED
      BY <1>6, <2>3, <2>4, Zenon DEF EventEnqueue, Enqueue, slotVars, sessionVars
  <1>7. ASSUME NEW r \in Requests, EventYield(r) \/ EventResume(r) \/ EventDone(r) PROVE TypeOK'
    <2>1. loop' \in LoopStates
      BY <1>7, EventFrame DEF LoopStates
    <2> QED
      BY <1>7, <2>1, EventFrame, EventTypes, Zenon DEF TypeOK
  <1> QED
    BY <1>1, <1>2, <1>3, <1>4, <1>5, <1>6, <1>7, StepCases, Zenon
-----------------------------------------------------------------------------
(* What the callers are owed and told *)

\* finishPending answers the session it removes.
LEMMA SessionDrops ==
  ASSUME PhaseInv, SessionInv, NEW a \in Requests, Drops(a), UNCHANGED <<pc, kind, outcome>>
  PROVE  SessionInv'
  <1>1. ASSUME NEW q \in Requests \ {a} PROVE SessionOf(q)'
    <2>1. SessionOf(q) /\ act'[q] = act[q] /\ SameSession(q)
      BY DEF SessionInv, Drops
    <2> QED
      BY <2>1 DEF SessionOf, SameSession
  <1>2. SessionOf(a)'
    <2>1. SessionOf(a) /\ pc[a] \notin {"admit", "emit"}
      BY DEF SessionInv, PhaseInv, Drops
    <2> QED
      BY <2>1 DEF SessionOf, Drops
  <1> QED
    BY <1>1, <1>2, Zenon DEF SessionInv

\* A caller that gives up removes its session, and one that has none collects.
LEMMA SessionCaller ==
  ASSUME NEW r \in Requests, SessionOf(r), PhaseInv, CallerMove(r),
         UNCHANGED <<kind, act, outcome>>
  PROVE  SessionOf(r)'
  <1>1. pc[r] \in {"idle", "admit", "emit"} => act[r] = "none"
    BY DEF PhaseInv
  <1> QED
    BY <1>1 DEF SessionOf, CallerMove, SameSession

\* A finished handler delivers what it returned if its caller still waits.
LEMMA SessionHandler ==
  ASSUME NEW r \in Requests, SessionOf(r), PhaseInv, HandlerMove(r), UNCHANGED <<pc, kind>>
  PROVE  SessionOf(r)'
  <1>1. CASE act[r] = "finish"
    <2>1. /\ act'[r] = (IF r \in pending THEN "deliver" ELSE "done") /\ r \notin pending'
          /\ outcome'[r] = outcome[r] /\ response'[r] = response[r]
      BY <1>1 DEF HandlerMove, Completion
    <2>2. pc[r] \notin {"idle", "admit", "emit"}
      BY <1>1 DEF PhaseInv
    <2> QED
      BY <1>1, <2>1, <2>2 DEF SessionOf
  <1>2. CASE act[r] = "deliver"
    BY <1>2 DEF SessionOf, HandlerMove
  <1>3. CASE act[r] \notin {"finish", "deliver"}
    <2>1. /\ act[r] \notin {"none", "dropped", "deliver", "done", "dead"}
          /\ act'[r] \notin {"none", "dropped", "deliver", "done", "dead"}
          /\ act'[r] = "finish" => outcome'[r] # "none"
          /\ act'[r] # "finish" => outcome'[r] = outcome[r]
          /\ response'[r] = response[r] /\ (r \in pending' <=> r \in pending)
      BY <1>3 DEF HandlerMove
    <2> QED
      BY <1>3, <2>1 DEF SessionOf
  <1> QED
    BY <1>1, <1>2, <1>3, Zenon

\* An enqueued envelope has no activation yet.
LEMMA SessionEnqueue ==
  ASSUME TypeOK, PhaseInv, NEW r \in Requests, SessionOf(r), EventEnqueue(r)
  PROVE  SessionOf(r)'
  <1>1. act[r] = "none" /\ pc[r] = "emit" /\ UNCHANGED <<kind, outcome>>
    BY EnqueueEffect DEF PhaseInv
  <1>2. response[r] = "none" /\ outcome[r] = "none" /\ (r \in pending <=> kind[r] = "call")
    BY <1>1 DEF SessionOf
  <1>3. pc'[r] = IF kind[r] = "call" THEN "wait" ELSE "returned"
    BY EnqueueEffect, Zenon
  <1>4. CASE stopping
    <2>1. act'[r] = "dropped" /\ r \notin pending' /\ response'[r] = IF r \in pending THEN "dropped" ELSE response[r]
      BY <1>4, EnqueueEffect, Zenon
    <2> QED
      BY <1>1, <1>2, <1>3, <2>1 DEF SessionOf
  <1>5. CASE ~stopping
    <2>1. act'[r] = "queued" /\ SameSession(r)
      BY <1>5, EnqueueEffect, Zenon
    <2> QED
      BY <1>1, <1>2, <1>3, <2>1 DEF SessionOf, SameSession
  <1> QED
    BY <1>4, <1>5, Zenon

\* Whoever removes a session delivers or gives up.
LEMMA SessionStep ==
  ASSUME TypeOK, PhaseInv, ReadyInv, SuspendInv, SessionInv, [Next]_vars
  PROVE  SessionInv'
  <1>1. CASE Quiet
    BY <1>1, QuietFrame DEF SessionInv, SessionOf
  <1>2. CASE Schedule
    <2>1. ready[1] \in Requests /\ UNCHANGED <<pc, kind, outcome>> /\ act[ready[1]] \in {"queued", "regrant"}
      BY <1>2, ScheduleEffect, Zenon DEF Leaves
    <2>2. CASE Grants(ready[1])
      BY <2>1, <2>2 DEF Grants, SessionInv, SessionOf
    <2>3. CASE Drops(ready[1])
      BY <2>1, <2>3, SessionDrops, Zenon
    <2> QED
      BY <1>2, <2>2, <2>3, ScheduleEffect, Zenon
  <1>3. CASE PurgeReady
    <2>1. PICK i \in 1 .. Len(ready) : Leaves(i) /\ Drops(ready[i])
      BY <1>3, PurgeEffect, Zenon
    <2>2. ready[i] \in Requests /\ UNCHANGED <<pc, kind, outcome>>
      BY <1>3, <2>1, PurgeEffect, Zenon DEF Leaves
    <2> QED
      BY <2>1, <2>2, SessionDrops, Zenon
  <1>4. ASSUME NEW r \in Requests, ClientStep(r) PROVE SessionInv'
    <2>1. UNCHANGED <<kind, act, outcome>> /\ CallerMove(r)
      BY <1>4, CallerFrame, CallerEffect, Zenon
    <2>2. ASSUME NEW q \in Requests \ {r} PROVE SessionOf(q)'
      <3>1. SessionOf(q) /\ SameCaller(q) /\ SameSession(q)
        BY <1>4, CallerEffect, Zenon DEF SessionInv
      <3> QED
        BY <2>1, <3>1 DEF SessionOf, SameCaller, SameSession
    <2> QED
      BY <2>1, <2>2, SessionCaller, Zenon DEF SessionInv
  <1>5. ASSUME NEW r \in Requests, HandlerStep(r) PROVE SessionInv'
    <2>1. UNCHANGED <<pc, kind>> /\ HandlerMove(r)
      BY <1>5, HandlerFrame, HandlerEffect, Zenon
    <2>2. ASSUME NEW q \in Requests \ {r} PROVE SessionOf(q)'
      <3>1. SessionOf(q) /\ SameActivation(q) /\ SameSession(q)
        BY <1>5, HandlerEffect, Zenon DEF SessionInv
      <3> QED
        BY <2>1, <3>1 DEF SessionOf, SameActivation, SameSession
    <2> QED
      BY <2>1, <2>2, SessionHandler, Zenon DEF SessionInv
  <1>6. ASSUME NEW r \in Requests, EventEnqueue(r) PROVE SessionInv'
    <2>1. ASSUME NEW q \in Requests \ {r} PROVE SessionOf(q)'
      <3>1. /\ SessionOf(q) /\ SameSession(q) /\ act'[q] = act[q] /\ pc'[q] = pc[q]
            /\ UNCHANGED <<kind, outcome>>
        BY <1>6, EnqueueEffect, Zenon DEF SessionInv
      <3> QED
        BY <3>1 DEF SessionOf, SameSession
    <2> QED
      BY <1>6, <2>1, SessionEnqueue, Zenon DEF SessionInv
  <1>7. ASSUME NEW r \in Requests, EventYield(r) \/ EventResume(r) \/ EventDone(r) PROVE SessionInv'
    <2>1. /\ UNCHANGED <<pc, kind, pending, response, outcome>>
          /\ \A q \in Requests \ {r} : act'[q] = act[q]
      BY <1>7, EventFrame, Zenon
    <2>2. \/ act[r] = "done" /\ act'[r] = "dead"
          \/ act[r] \in {"yield", "resume"} /\ act'[r] \in {"run", "wait", "regrant"}
      BY <1>7, YieldEffect, ResumeEffect, DoneEffect
    <2> QED
      BY <2>1, <2>2 DEF SessionInv, SessionOf
  <1> QED
    BY <1>1, <1>2, <1>3, <1>4, <1>5, <1>6, <1>7, StepCases, Zenon

\* A caller returns with what its session delivered, and then nobody owes it a thing.
LEMMA ResultStep ==
  ASSUME TypeOK, PhaseInv, ReadyInv, SuspendInv, SessionInv, ResultIsTruthful, [Next]_vars
  PROVE  ResultIsTruthful'
  <1>1. CASE Quiet
    BY <1>1, QuietFrame DEF ResultIsTruthful
  <1>2. ASSUME NEW a \in Requests, act[a] = "queued", Drops(a) \/ Grants(a), UNCHANGED <<pc, result, outcome>>
        PROVE  ResultIsTruthful'
    BY <1>2 DEF ResultIsTruthful, Drops, Grants, SameSession
  <1>3. CASE Schedule
    <2>1. /\ ready[1] \in Requests /\ UNCHANGED <<pc, result, outcome>> /\ act[ready[1]] \in {"queued", "regrant"}
          /\ Grants(ready[1]) \/ Drops(ready[1])
      BY <1>3, ScheduleEffect, Zenon DEF Leaves
    <2>2. CASE act[ready[1]] = "regrant"
      BY <2>1, <2>2 DEF Grants, Drops, ResultIsTruthful
    <2> QED
      BY <1>2, <2>1, <2>2
  <1>4. CASE PurgeReady
    <2>1. PICK i \in 1 .. Len(ready) : Leaves(i) /\ Drops(ready[i])
      BY <1>4, PurgeEffect, Zenon
    <2>2. ready[i] \in Requests /\ UNCHANGED <<pc, result, outcome>> /\ act[ready[i]] = "queued"
      BY <1>4, <2>1, PurgeEffect, Zenon DEF Leaves, Drops
    <2> QED
      BY <1>2, <2>1, <2>2, Zenon
  <1>5. ASSUME NEW r \in Requests, ClientStep(r) PROVE ResultIsTruthful'
    <2>1. /\ UNCHANGED <<act, outcome>> /\ CallerMove(r) /\ SessionOf(r)
          /\ pc[r] \in {"idle", "admit", "emit"} => act[r] = "none"
          /\ \A q \in Requests \ {r} : SameCaller(q) /\ SameSession(q)
      BY <1>5, CallerFrame, CallerEffect, Zenon DEF SessionInv, PhaseInv
    <2>2. ASSUME pc'[r] = "returned"
          PROVE  \/ result'[r] = "rejected" /\ act[r] = "none" /\ r \notin pending'
                 \/ result'[r] = "abandoned" /\ r \notin pending'
                 \/ r \notin pending' /\ act[r] = "dropped" /\ result'[r] = "dropped"
                 \/ r \notin pending' /\ act[r] \in {"done", "dead"} /\ result'[r] = outcome[r] /\ outcome[r] # "none"
      BY <2>1, <2>2 DEF CallerMove, SessionOf
    <2>3. outcome[r] \in {"none", "ok", "handlerErr"}
      BY Types
    <2> QED
      BY <2>1, <2>2, <2>3 DEF ResultIsTruthful, SameCaller, SameSession
  <1>6. ASSUME NEW r \in Requests, HandlerStep(r) PROVE ResultIsTruthful'
    <2>1. /\ UNCHANGED <<pc, result>>
          /\ \A q \in Requests \ {r} : SameActivation(q) /\ SameSession(q)
      BY <1>6, HandlerFrame, HandlerEffect, Zenon
    <2>2. act[r] \notin {"none", "dropped", "done", "dead"} /\ (r \in pending' => r \in pending)
      BY <1>6, HandlerEffect DEF HandlerMove
    <2> QED
      BY <2>1, <2>2 DEF ResultIsTruthful, SameActivation, SameSession
  <1>7. ASSUME NEW r \in Requests, EventEnqueue(r) PROVE ResultIsTruthful'
    <2>1. /\ UNCHANGED <<kind, outcome>>
          /\ \A q \in Requests \ {r} : SameSession(q) /\ act'[q] = act[q] /\ pc'[q] = pc[q] /\ result'[q] = result[q]
      BY <1>7, EnqueueEffect, Zenon
    <2>2. SessionOf(r)
      BY DEF SessionInv
    <2>3. ASSUME pc'[r] = "returned" PROVE r \notin pending /\ r \notin pending' /\ result'[r] = "accepted"
      BY <1>7, <2>2, <2>3, EnqueueEffect DEF SessionOf, SameSession
    <2> QED
      BY <2>1, <2>3 DEF ResultIsTruthful, SameSession
  <1>8. ASSUME NEW r \in Requests, EventYield(r) \/ EventResume(r) \/ EventDone(r) PROVE ResultIsTruthful'
    <2>1. UNCHANGED <<pc, result, pending, outcome>> /\ \A q \in Requests \ {r} : act'[q] = act[q]
      BY <1>8, EventFrame, Zenon
    <2>2. (act[r] = "done" /\ act'[r] = "dead") \/ act[r] \in {"yield", "resume"}
      BY <1>8, YieldEffect, ResumeEffect, DoneEffect
    <2> QED
      BY <2>1, <2>2 DEF ResultIsTruthful
  <1> QED
    BY <1>1, <1>3, <1>4, <1>5, <1>6, <1>7, <1>8, StepCases, Zenon
-----------------------------------------------------------------------------
(* The tokens of the mailbox *)

\* What is needed of finite sets here.
CountingLaws ==
  /\ \A S : IsFiniteSet(S) =>
       /\ Cardinality(S) \in Nat
       /\ \A T \in SUBSET S : IsFiniteSet(T) /\ Cardinality(T) <= Cardinality(S)
       /\ \A x : x \notin S => Cardinality(S \cup {x}) = Cardinality(S) + 1
       /\ \A x \in S : Cardinality(S \ {x}) = Cardinality(S) - 1

\* The requests that hold a token of rt.slots.
Held == {r \in Requests : slotHeld[r]}

\* Finitely many requests hold a token of rt.slots.
LEMMA HeldFinite ==
  ASSUME CountingLaws
  PROVE  IsFiniteSet(Held) /\ Cardinality(Held) \in Nat
  <1>1. Held \subseteq Requests /\ IsFiniteSet(Requests)
    BY RuntimeAssumption DEF Held
  <1> QED
    BY <1>1, Zenon DEF CountingLaws

\* <-rt.slots for a request that holds a token never blocks and keeps the count.
LEMMA ReleaseCounts ==
  ASSUME CountingLaws, TypeOK, slots = Cardinality(Held), NEW r \in Requests, ReleaseSlot(r)
  PROVE  /\ slots' \in Nat /\ slots' <= slots /\ slots' = Cardinality(Held')
         /\ slotHeld' \in [Requests -> BOOLEAN]
  <1>1. slotHeld \in [Requests -> BOOLEAN]
    BY DEF TypeOK
  <1>2. slotHeld' = [slotHeld EXCEPT ![r] = FALSE] /\ slots' = IF slotHeld[r] THEN slots - 1 ELSE slots
    BY DEF ReleaseSlot
  <1>3. Held' = Held \ {r}
    BY <1>1, <1>2 DEF Held
  <1>4. CASE slotHeld[r]
    <2>1. r \in Held
      BY <1>4 DEF Held
    <2>2. Cardinality(Held \ {r}) = Cardinality(Held) - 1 /\ Cardinality(Held \ {r}) \in Nat
      <3>1. Held \ {r} \in SUBSET Held
        OBVIOUS
      <3> QED
        BY <2>1, <3>1, HeldFinite, Zenon DEF CountingLaws
    <2> QED
      BY <1>1, <1>2, <1>3, <1>4, <2>2, HeldFinite
  <1>5. CASE ~slotHeld[r]
    <2>1. Held \ {r} = Held
      BY <1>5 DEF Held
    <2> QED
      BY <1>1, <1>2, <1>3, <1>5, <2>1, HeldFinite
  <1> QED
    BY <1>4, <1>5

\* rt.slots <- struct{}{} counts the request that takes the token.
LEMMA TakeCounts ==
  ASSUME CountingLaws, TypeOK, slots = Cardinality(Held), NEW r \in Requests, ~slotHeld[r],
         slots' = slots + 1, slotHeld' = [slotHeld EXCEPT ![r] = TRUE]
  PROVE  slots' = Cardinality(Held')
  <1>1. slotHeld \in [Requests -> BOOLEAN]
    BY DEF TypeOK
  <1>2. Held' = Held \cup {r} /\ r \notin Held
    BY <1>1 DEF Held
  <1>3. Cardinality(Held \cup {r}) = Cardinality(Held) + 1
    BY <1>2, HeldFinite, Zenon DEF CountingLaws
  <1> QED
    BY <1>2, <1>3

\* The number of tokens is a number after every step that counts them.
LEMMA SlotsCounted ==
  ASSUME CountingLaws, SlotAccounting'
  PROVE  slots' \in Nat
  <1>1. slots' = Cardinality({r \in Requests : slotHeld'[r]})
    BY DEF SlotAccounting
  <1>2. {r \in Requests : slotHeld'[r]} \subseteq Requests /\ IsFiniteSet(Requests)
    BY RuntimeAssumption
  <1> QED
    BY <1>1, <1>2, Zenon DEF CountingLaws

\* A token that is given back leaves room for another.
LEMMA SlotReleases ==
  ASSUME CountingLaws, TypeOK, SlotAccounting, NEW a \in Requests, ReleaseSlot(a),
         pc'[a] # "emit", act'[a] # "queued",
         \A q \in Requests \ {a} : pc'[q] = pc[q] /\ act'[q] = act[q]
  PROVE  SlotAccounting'
  <1>1. slots = Cardinality(Held) /\ slots <= MailboxSize /\ slots \in Nat /\ MailboxSize \in Nat
    BY RuntimeAssumption, Types DEF SlotAccounting, Held
  <1>2. slots' \in Nat /\ slots' <= slots /\ slots' = Cardinality(Held')
    BY <1>1, ReleaseCounts, Zenon
  <1>3. ~slotHeld'[a] /\ \A q \in Requests \ {a} : slotHeld'[q] <=> slotHeld[q]
    BY Types DEF ReleaseSlot
  <1>4. \A q \in Requests : slotHeld'[q] <=> pc'[q] = "emit" \/ act'[q] = "queued"
    BY <1>3 DEF SlotAccounting
  <1>5. slots' <= MailboxSize
    BY <1>1, <1>2
  <1> QED
    BY <1>2, <1>4, <1>5, Zenon DEF SlotAccounting, Held

\* No token moves, and no envelope comes or goes.
LEMMA SlotStays ==
  ASSUME SlotAccounting, UNCHANGED <<slots, slotHeld>>,
         \A q \in Requests : (pc'[q] = "emit" \/ act'[q] = "queued") <=> (pc[q] = "emit" \/ act[q] = "queued")
  PROVE  SlotAccounting'
  BY Zenon DEF SlotAccounting

\* The callers take a token and give it back when the envelope is not taken.
LEMMA SlotCaller ==
  ASSUME CountingLaws, TypeOK, PhaseInv, SlotAccounting, NEW r \in Requests, ClientStep(r)
  PROVE  SlotAccounting'
  <1>1. UNCHANGED act /\ CallerMove(r) /\ \A q \in Requests \ {r} : pc'[q] = pc[q]
    BY CallerFrame, CallerEffect, Zenon DEF SameCaller
  <1>2. CASE TakeSlot(r)
    <2>1. /\ pc[r] = "admit" /\ pc'[r] = "emit" /\ slots < MailboxSize
          /\ slots' = slots + 1 /\ slotHeld' = [slotHeld EXCEPT ![r] = TRUE]
      BY <1>2, Types DEF TakeSlot
    <2>2. slots \in Nat /\ MailboxSize \in Nat /\ slotHeld \in [Requests -> BOOLEAN]
      BY Types, RuntimeAssumption
    <2>3. ~slotHeld[r] /\ slots = Cardinality(Held)
      BY <2>1 DEF PhaseInv, SlotAccounting, Held
    <2>4. slots' = Cardinality(Held')
      BY <2>1, <2>3, TakeCounts, Zenon
    <2>5. slots' <= MailboxSize
      BY <2>1, <2>2
    <2>6. \A q \in Requests : slotHeld'[q] <=> pc'[q] = "emit" \/ act'[q] = "queued"
      BY <1>1, <2>1, <2>2 DEF SlotAccounting
    <2> QED
      BY <2>4, <2>5, <2>6, Zenon DEF SlotAccounting, Held
  <1>3. CASE EmitFails(r)
    <2>1. pc[r] = "emit" /\ pc'[r] = "returned" /\ ReleaseSlot(r)
      BY <1>3, Types DEF EmitFails, Reject, Return, ReleaseSlot, SlotAccounting
    <2>2. act'[r] # "queued"
      BY <1>1, <2>1 DEF PhaseInv
    <2> QED
      BY <1>1, <2>1, <2>2, SlotReleases, Zenon
  <1>4. CASE ~TakeSlot(r) /\ ~EmitFails(r)
    <2>1. UNCHANGED <<slots, slotHeld>> /\ pc[r] # "emit"
      BY <1>4, Zenon DEF ClientStep, Begin, AdmissionFails, TakeResponse, Abandon, slotVars
    <2>2. pc'[r] # "emit"
      BY <1>4, Types DEF ClientStep, Begin, AdmissionFails, TakeResponse, Abandon, Reject, Return
    <2> QED
      BY <1>1, <2>1, <2>2, SlotStays, Zenon
  <1> QED
    BY <1>2, <1>3, <1>4, Zenon

\* A token is taken and given back together with the state it stands for.
LEMMA SlotStep ==
  ASSUME CountingLaws, TypeOK, PhaseInv, ReadyInv, SuspendInv, SlotAccounting, [Next]_vars
  PROVE  SlotAccounting'
  <1>1. CASE Quiet
    BY <1>1, QuietFrame, SlotStays, Zenon
  <1>2. ASSUME NEW a \in Requests, act[a] \in {"queued", "regrant"}, UNCHANGED pc,
               Grants(a) \/ Drops(a), ReleaseSlot(a)
        PROVE  SlotAccounting'
    <2>1. pc'[a] # "emit" /\ act'[a] # "queued" /\ \A q \in Requests \ {a} : pc'[q] = pc[q] /\ act'[q] = act[q]
      BY <1>2 DEF Grants, Drops, PhaseInv
    <2> QED
      BY <1>2, <2>1, SlotReleases, Zenon
  <1>3. CASE Schedule
    <2>1. /\ ready[1] \in Requests /\ UNCHANGED pc /\ act[ready[1]] \in {"queued", "regrant"}
          /\ Grants(ready[1]) \/ Drops(ready[1])
          /\ ReleaseSlot(ready[1])
      BY <1>3, ScheduleEffect, Zenon DEF Leaves
    <2> QED
      BY <1>2, <2>1, Zenon
  <1>4. CASE PurgeReady
    <2>1. PICK i \in 1 .. Len(ready) : Leaves(i) /\ Drops(ready[i]) /\ ReleaseSlot(ready[i])
      BY <1>4, PurgeEffect, Zenon
    <2>2. ready[i] \in Requests /\ UNCHANGED pc /\ act[ready[i]] = "queued"
      BY <1>4, <2>1, PurgeEffect, Zenon DEF Leaves, Drops
    <2> QED
      BY <1>2, <2>1, <2>2
  <1>5. ASSUME NEW r \in Requests, ClientStep(r) PROVE SlotAccounting'
    BY <1>5, SlotCaller, Zenon
  <1>6. ASSUME NEW r \in Requests, HandlerStep(r) PROVE SlotAccounting'
    <2>1. UNCHANGED <<pc, slots, slotHeld>>
      BY <1>6, HandlerFrame, Zenon
    <2>2. HandlerMove(r) /\ \A q \in Requests \ {r} : SameActivation(q)
      BY <1>6, HandlerEffect
    <2>3. act[r] # "queued" /\ act'[r] # "queued" /\ \A q \in Requests \ {r} : act'[q] = act[q]
      BY <2>2 DEF HandlerMove, Completion, SameActivation
    <2> QED
      BY <2>1, <2>3, SlotStays, Zenon
  <1>7. ASSUME NEW r \in Requests, EventEnqueue(r) PROVE SlotAccounting'
    <2>1. /\ pc[r] = "emit" /\ \A q \in Requests \ {r} : pc'[q] = pc[q] /\ act'[q] = act[q]
          /\ pc'[r] = IF kind[r] = "call" THEN "wait" ELSE "returned"
      BY <1>7, EnqueueEffect, Zenon
    <2>2. CASE stopping
      <3>1. act'[r] = "dropped" /\ ReleaseSlot(r)
        BY <1>7, <2>2, EnqueueEffect, Zenon
      <3>2. pc'[r] # "emit" /\ act'[r] # "queued"
        BY <2>1, <3>1
      <3> QED
        BY <2>1, <3>1, <3>2, SlotReleases, Zenon
    <2>3. CASE ~stopping
      <3>1. act'[r] = "queued" /\ UNCHANGED <<slots, slotHeld>>
        BY <1>7, <2>3, EnqueueEffect, Zenon
      <3> QED
        BY <2>1, <3>1, SlotStays, Zenon
    <2> QED
      BY <2>2, <2>3, Zenon
  <1>8. ASSUME NEW r \in Requests, EventYield(r) \/ EventResume(r) \/ EventDone(r) PROVE SlotAccounting'
    <2>1. UNCHANGED <<pc, slots, slotHeld>> /\ \A q \in Requests \ {r} : act'[q] = act[q]
      BY <1>8, EventFrame, Zenon
    <2>2. act[r] # "queued" /\ act'[r] # "queued"
      BY <1>8, YieldEffect, ResumeEffect, DoneEffect
    <2> QED
      BY <2>1, <2>2, SlotStays, Zenon
  <1> QED
    BY <1>1, <1>3, <1>4, <1>5, <1>6, <1>7, <1>8, StepCases, Zenon
-----------------------------------------------------------------------------
(* The suspended handlers *)

\* The suspended map of the loop is finite, so its length is a number.
LEMMA SuspendedFinite ==
  ASSUME CountingLaws, TypeOK
  PROVE  IsFiniteSet(suspended) /\ Cardinality(suspended) \in Nat
  <1>1. suspended \in SUBSET Requests /\ IsFiniteSet(Requests)
    BY Types, RuntimeAssumption
  <1> QED
    BY <1>1, Zenon DEF CountingLaws

\* Nobody is suspended or comes back.
LEMMA SuspendStays ==
  ASSUME SuspendInv, UNCHANGED suspended,
         \A q \in Requests : act'[q] \in {"wait", "resume"} <=> act[q] \in {"wait", "resume"},
         \A q \in Requests : act'[q] = "regrant" => act[q] = "regrant"
  PROVE  SuspendInv'
  <1>1. SuspendedBound'
    BY DEF SuspendInv, SuspendedBound
  <1> QED
    BY <1>1, Zenon DEF SuspendInv

\* A yield is refused above MaxSuspended and in a NoInterleave service.
LEMMA SuspendYield ==
  ASSUME CountingLaws, TypeOK, SuspendInv, NEW r \in Requests, EventYield(r)
  PROVE  SuspendInv'
  <1>1. act[r] = "yield" /\ \A q \in Requests \ {r} : act'[q] = act[q]
    BY YieldEffect, EventFrame, Zenon
  <1>2. CASE YieldRefused(r)
    <2>1. act'[r] = "run" /\ UNCHANGED suspended
      BY <1>2, YieldEffect, Zenon
    <2> QED
      BY <1>1, <2>1, SuspendStays
  <1>3. CASE ~YieldRefused(r)
    <2>1. ~NoInterleave /\ suspended' = suspended \cup {r} /\ act'[r] = "wait"
      BY <1>3, YieldEffect, Zenon DEF YieldRefused, Suspend
    <2>2. Cardinality(suspended) < MaxSuspended /\ MaxSuspended \in Nat /\ Cardinality(suspended) \in Nat
      BY <1>3, SuspendedFinite, RuntimeAssumption DEF YieldRefused
    <2>3. Cardinality(suspended \cup {r}) = Cardinality(suspended) + 1
      <3>1. r \notin suspended
        BY <1>1 DEF SuspendInv, SuspendedBound
      <3> QED
        BY <3>1, SuspendedFinite, Zenon DEF CountingLaws
    <2>4. Cardinality(suspended') <= MaxSuspended
      BY <2>1, <2>2, <2>3
    <2> QED
      BY <1>1, <2>1, <2>4 DEF SuspendInv, SuspendedBound
  <1> QED
    BY <1>2, <1>3, Zenon

\* Who resumes leaves the suspended map.
LEMMA SuspendResume ==
  ASSUME CountingLaws, TypeOK, SuspendInv, NEW r \in Requests, EventResume(r)
  PROVE  SuspendInv'
  <1>1. /\ act[r] = "resume" /\ act'[r] = "regrant" /\ suspended' = suspended \ {r} /\ r \in suspended
        /\ \A q \in Requests \ {r} : act'[q] = act[q]
    BY ResumeEffect, EventFrame, Zenon
  <1>2. ~NoInterleave
    BY <1>1 DEF SuspendInv, SuspendedBound
  <1>3. Cardinality(suspended \ {r}) <= Cardinality(suspended) /\ Cardinality(suspended \ {r}) \in Nat
    <2>1. suspended \ {r} \in SUBSET suspended
      OBVIOUS
    <2> QED
      BY <2>1, SuspendedFinite, Zenon DEF CountingLaws
  <1>4. Cardinality(suspended') <= MaxSuspended
    BY <1>1, <1>3, SuspendedFinite, RuntimeAssumption DEF SuspendInv, SuspendedBound
  <1> QED
    BY <1>1, <1>2, <1>4 DEF SuspendInv, SuspendedBound

\* The suspended map holds exactly the activations inside an Await.
LEMMA SuspendStep ==
  ASSUME CountingLaws, TypeOK, PhaseInv, ReadyInv, SuspendInv, [Next]_vars
  PROVE  SuspendInv'
  <1>1. CASE Quiet
    BY <1>1, QuietFrame, SuspendStays, Zenon
  <1>2. ASSUME NEW a \in Requests, act[a] \in {"queued", "regrant"}, UNCHANGED suspended, Grants(a) \/ Drops(a)
        PROVE  SuspendInv'
    <2>1. act'[a] \in {"start", "regrant", "dropped"} /\ (act'[a] = "regrant" => act[a] = "regrant")
      BY <1>2 DEF Grants, Drops
    <2>2. \A q \in Requests \ {a} : act'[q] = act[q]
      BY <1>2 DEF Grants, Drops
    <2> QED
      BY <1>2, <2>1, <2>2, SuspendStays
  <1>3. CASE Schedule
    <2>1. /\ ready[1] \in Requests /\ UNCHANGED suspended /\ act[ready[1]] \in {"queued", "regrant"}
          /\ Grants(ready[1]) \/ Drops(ready[1])
      BY <1>3, ScheduleEffect, Zenon DEF Leaves
    <2> QED
      BY <1>2, <2>1, Zenon
  <1>4. CASE PurgeReady
    <2>1. PICK i \in 1 .. Len(ready) : Leaves(i) /\ Drops(ready[i])
      BY <1>4, PurgeEffect, Zenon
    <2>2. ready[i] \in Requests /\ UNCHANGED suspended /\ act[ready[i]] = "queued"
      BY <1>4, <2>1, PurgeEffect, Zenon DEF Leaves, Drops
    <2> QED
      BY <1>2, <2>1, <2>2
  <1>5. ASSUME NEW r \in Requests, ClientStep(r) PROVE SuspendInv'
    BY <1>5, CallerFrame, SuspendStays, Zenon
  <1>6. ASSUME NEW r \in Requests, HandlerStep(r) PROVE SuspendInv'
    <2>1. UNCHANGED suspended /\ \A q \in Requests \ {r} : act'[q] = act[q]
      BY <1>6, HandlerFrame, HandlerEffect, Zenon DEF SameActivation
    <2>2. act'[r] # "regrant" /\ (act'[r] \in {"wait", "resume"} <=> act[r] \in {"wait", "resume"})
      BY <1>6, HandlerEffect DEF HandlerMove, Completion
    <2> QED
      BY <2>1, <2>2, SuspendStays, Zenon
  <1>7. ASSUME NEW r \in Requests, EventEnqueue(r) PROVE SuspendInv'
    <2>1. pc[r] = "emit" /\ UNCHANGED suspended /\ \A q \in Requests \ {r} : act'[q] = act[q]
      BY <1>7, EnqueueEffect, Zenon
    <2>2. act[r] = "none" /\ act'[r] \in {"queued", "dropped"}
      BY <1>7, <2>1, EnqueueEffect DEF PhaseInv
    <2> QED
      BY <2>1, <2>2, SuspendStays
  <1>8. ASSUME NEW r \in Requests, EventYield(r) \/ EventResume(r) PROVE SuspendInv'
    BY <1>8, SuspendYield, SuspendResume, Zenon
  <1>9. ASSUME NEW r \in Requests, EventDone(r) PROVE SuspendInv'
    <2>1. /\ act[r] = "done" /\ act'[r] = "dead" /\ suspended' = suspended \ {r}
          /\ \A q \in Requests \ {r} : act'[q] = act[q]
      BY <1>9, DoneEffect, EventFrame, Zenon
    <2>2. suspended' = suspended
      BY <2>1 DEF SuspendInv, SuspendedBound
    <2> QED
      BY <2>1, <2>2, SuspendStays
  <1> QED
    BY <1>1, <1>3, <1>4, <1>5, <1>6, <1>7, <1>8, <1>9, StepCases, Zenon
-----------------------------------------------------------------------------
(* Whether a handler was interleaved *)

\* The turn of an activation begins: the others notice, and its own version moves if
\* another turn has passed since it yielded.
LEMMA TurnGranted ==
  ASSUME TypeOK, OwnerInv, TurnInv, NEW a \in Requests, act[a] \in {"queued", "regrant"}, current = None,
         Grants(a), TurnBegins(a), UNCHANGED <<yieldAt, mark>>
  PROVE  TurnInv'
  <1>1. /\ None \notin Requests /\ segmentSeq \in Nat
        /\ \A q \in Requests : version[q] \in Nat /\ mark[q] \in Nat /\ yieldAt[q] \in Nat
    BY Types, RuntimeAssumption
  <1>2. TurnOf(a)'
    <2>1. TurnOf(a) /\ current # a
      BY <1>1 DEF TurnInv
    <2>2. CASE act[a] = "queued"
      <3>1. /\ act'[a] = "start" /\ current' = a /\ version'[a] = version[a] /\ (dirty'[a] <=> dirty[a])
            /\ segmentSeq' = segmentSeq + 1
        BY <2>2 DEF Grants, TurnBegins, Interleaved, Started
      <3> QED
        BY <1>1, <2>1, <2>2, <3>1 DEF TurnOf
    <2>3. CASE act[a] = "regrant"
      <3>1. /\ act'[a] = "regrant" /\ current' = a /\ (dirty'[a] <=> dirty[a]) /\ segmentSeq' = segmentSeq + 1
            /\ version'[a] = IF segmentSeq > yieldAt[a] THEN version[a] + 1 ELSE version[a]
        BY <2>3 DEF Grants, TurnBegins, Interleaved, Started
      <3> QED
        BY <1>1, <2>1, <2>3, <3>1 DEF TurnOf, Owning
    <2> QED
      BY <2>2, <2>3, Zenon
  <1>3. ASSUME NEW q \in Requests \ {a} PROVE TurnOf(q)'
    <2>1. TurnOf(q) /\ act[q] \notin Owning
      BY <1>1 DEF TurnInv, OwnerInv
    <2>2. /\ act'[q] = act[q] /\ version'[q] = version[q] /\ segmentSeq' = segmentSeq + 1 /\ current' = a
          /\ dirty'[q] <=> act[q] \notin {"none", "queued", "dropped"}
      BY DEF Grants, TurnBegins, Started
    <2> QED
      BY <1>1, <2>1, <2>2 DEF TurnOf
  <1> QED
    BY <1>2, <1>3, Zenon DEF TurnInv

\* An activation goroutine forgets the turns of the others in MarkTurn only.
LEMMA TurnHandler ==
  ASSUME TypeOK, OwnerInv, NEW r \in Requests, TurnOf(r), HandlerMove(r),
         UNCHANGED <<current, segmentSeq, yieldAt, version>>
  PROVE  TurnOf(r)'
  <1>1. version[r] \in Nat /\ mark[r] \in Nat /\ yieldAt[r] \in Nat /\ segmentSeq \in Nat
    BY Types
  <1>2. act[r] \in {"start", "regrant"} /\ grant[r] => current = r
    BY DEF OwnerInv
  <1>3. \/ act[r] = "wait" /\ act'[r] = "resume" /\ SameTurn(r)
        \/ /\ act[r] \in Owning \/ (act[r] = "regrant" /\ current = r)
           /\ act'[r] \in Owning \cup {"done"}
           /\ SameTurn(r) \/ (mark'[r] = version[r] /\ ~dirty'[r])
    BY <1>2 DEF HandlerMove, Owning, Completion
  <1> QED
    BY <1>1, <1>3 DEF TurnOf, SameTurn, Owning

\* MarkTurn and InterleavedSince see exactly the turns of the others.
LEMMA TurnStep ==
  ASSUME TypeOK, PhaseInv, ReadyInv, OwnerInv, SuspendInv, TurnInv, [Next]_vars
  PROVE  TurnInv'
  <1>1. CASE Quiet
    BY <1>1, QuietFrame, Zenon DEF TurnInv, TurnOf
  <1>2. ASSUME NEW a \in Requests, Drops(a), NoTurn, UNCHANGED <<yieldAt, mark>>
        PROVE  TurnInv'
    BY <1>2 DEF Drops, NoTurn, TurnInv, TurnOf, Owning
  <1>3. CASE Schedule
    <2>1. /\ ready[1] \in Requests /\ UNCHANGED <<yieldAt, mark>> /\ current = None
          /\ act[ready[1]] \in {"queued", "regrant"}
      BY <1>3, ScheduleEffect, Zenon DEF Leaves
    <2>2. (Grants(ready[1]) /\ TurnBegins(ready[1])) \/ (Drops(ready[1]) /\ NoTurn)
      BY <1>3, ScheduleEffect, Zenon
    <2> QED
      BY <1>2, <2>1, <2>2, TurnGranted, Zenon
  <1>4. CASE PurgeReady
    <2>1. PICK i \in 1 .. Len(ready) : Leaves(i) /\ Drops(ready[i])
      BY <1>4, PurgeEffect, Zenon
    <2>2. ready[i] \in Requests /\ NoTurn /\ UNCHANGED <<yieldAt, mark>>
      BY <1>4, <2>1, PurgeEffect, Zenon DEF Leaves, NoTurn
    <2> QED
      BY <1>2, <2>1, <2>2, Zenon
  <1>5. ASSUME NEW r \in Requests, ClientStep(r) PROVE TurnInv'
    <2>1. UNCHANGED <<act, current, segmentSeq, yieldAt, version, mark, dirty>>
      BY <1>5, CallerFrame, Zenon
    <2> QED
      BY <2>1, Zenon DEF TurnInv, TurnOf
  <1>6. ASSUME NEW r \in Requests, HandlerStep(r) PROVE TurnInv'
    <2>1. UNCHANGED <<current, segmentSeq, yieldAt, version>>
      BY <1>6, HandlerFrame, Zenon
    <2>2. HandlerMove(r) /\ \A q \in Requests \ {r} : SameActivation(q) /\ SameTurn(q)
      BY <1>6, HandlerEffect
    <2>3. ASSUME NEW q \in Requests \ {r} PROVE TurnOf(q)'
      <3>1. TurnOf(q) /\ SameActivation(q) /\ SameTurn(q)
        BY <2>2, Zenon DEF TurnInv
      <3> QED
        BY <2>1, <3>1 DEF TurnOf, SameActivation, SameTurn
    <2> QED
      BY <2>1, <2>2, <2>3, TurnHandler, Zenon DEF TurnInv
  <1>7. ASSUME NEW r \in Requests, EventEnqueue(r) PROVE TurnInv'
    <2>1. /\ pc[r] = "emit" /\ UNCHANGED <<current, segmentSeq, yieldAt, version, mark, dirty>>
          /\ \A q \in Requests \ {r} : act'[q] = act[q]
      BY <1>7, EnqueueEffect, Zenon
    <2>2. act[r] = "none" /\ act'[r] \in {"queued", "dropped"}
      BY <1>7, <2>1, EnqueueEffect DEF PhaseInv
    <2> QED
      BY <2>1, <2>2 DEF TurnInv, TurnOf, Owning
  <1>8. ASSUME NEW r \in Requests, EventYield(r) \/ EventResume(r) \/ EventDone(r) PROVE TurnInv'
    <2>1. UNCHANGED <<segmentSeq, version, mark, dirty>> /\ \A q \in Requests \ {r} : act'[q] = act[q]
      BY <1>8, EventFrame, Zenon
    <2>2. None \notin Requests /\ segmentSeq \in Nat /\ yieldAt \in [Requests -> Nat]
      BY Types, RuntimeAssumption
    <2>3. CASE EventYield(r) /\ YieldRefused(r)
      <3>1. act[r] = "yield" /\ act'[r] = "run" /\ UNCHANGED <<current, yieldAt>>
        BY <2>3, YieldEffect, Zenon
      <3> QED
        BY <2>1, <3>1 DEF TurnInv, TurnOf, Owning
    <2>4. CASE EventYield(r) /\ ~YieldRefused(r)
      <3>1. /\ act[r] = "yield" /\ act'[r] = "wait" /\ current = r /\ current' = None
            /\ yieldAt' = [yieldAt EXCEPT ![r] = segmentSeq]
        BY <2>4, YieldEffect, Zenon DEF YieldRefused, Suspend
      <3> QED
        BY <2>1, <2>2, <3>1 DEF TurnInv, TurnOf, Owning
    <2>5. CASE EventResume(r)
      <3>1. act[r] = "resume" /\ act'[r] = "regrant" /\ UNCHANGED <<current, yieldAt>> /\ current # r
        BY <2>2, <2>5, ResumeEffect DEF OwnerInv, Owning
      <3> QED
        BY <2>1, <3>1 DEF TurnInv, TurnOf, Owning
    <2>6. CASE EventDone(r)
      <3>1. act[r] = "done" /\ act'[r] = "dead" /\ UNCHANGED yieldAt /\ current' = IF current = r THEN None ELSE current
        BY <2>6, DoneEffect, Zenon
      <3> QED
        BY <2>1, <2>2, <3>1 DEF TurnInv, TurnOf, Owning
    <2> QED
      BY <1>8, <2>3, <2>4, <2>5, <2>6, Zenon
  <1> QED
    BY <1>1, <1>3, <1>4, <1>5, <1>6, <1>7, <1>8, StepCases, Zenon
===============================================================================
