-------------------------- MODULE ServiceRuntimeInv --------------------------
(***************************************************************************)
(* The inductive invariant of ServiceRuntime, what single steps do to the  *)
(* scheduler, and that they keep the parts of IInv about it: who owns the  *)
(* service, what ready holds and when the loop ends.                       *)
(*                                                                         *)
(* SingleSegment and its companions are not inductive: that two handlers   *)
(* never run together follows from where the scheduler's current, its      *)
(* ready queue and the grants in flight are.  IInv says so.                *)
(***************************************************************************)
EXTENDS ServiceRuntime, TLAPS

\* A request has no activation before its envelope is enqueued.
PhaseInv ==
  \A r \in Requests : pc[r] \in {"idle", "admit", "emit"} => act[r] = "none"

\* ready holds each activation once, unstarted or woken from an Await, without a
\* grant.
ReadyInv ==
  /\ \A i \in 1 .. Len(ready) : act[ready[i]] \in {"queued", "regrant"} /\ ~grant[ready[i]]
  /\ \A i, j \in 1 .. Len(ready) : ready[i] = ready[j] => i = j

\* Who runs, who has a grant in flight and who is in a NoYield section is current.
OwnerInv ==
  /\ \A r \in Requests : act[r] \in Owning => current = r
  /\ \A r \in Requests : grant[r] => current = r /\ act[r] \in {"start", "regrant"}
  /\ current # None => act[current] \in Owning \/ (act[current] = "regrant" /\ grant[current])
  /\ \A r \in Requests : noYield[r] => act[r] = "run"

\* In a NoInterleave service nobody is suspended or comes back from a suspension.
SuspendInv ==
  /\ SuspendedBound
  /\ NoInterleave => \A r \in Requests : act[r] # "regrant"

\* Nothing is lost: what waits for the service is in ready.
WaitsForTurn(r) == act[r] = "queued" \/ (act[r] = "regrant" /\ current # r)

InReady(r) == \E i \in 1 .. Len(ready) : ready[i] = r

PlacedInv == \A r \in Requests : WaitsForTurn(r) => InReady(r)

\* The loop returns with nobody current, ready or suspended.
ExitInv == loop = "exited" => stopping /\ current = None /\ ready = <<>> /\ suspended = {}

\* Who still owes a call its answer.  A session is registered until the call is
\* answered or gives up, and whoever removes it delivers.
SessionOf(r) ==
  /\ r \in pending =>
       /\ kind[r] = "call" /\ pc[r] \in {"admit", "emit", "wait"} /\ response[r] = "none"
       /\ act[r] \notin {"deliver", "done", "dead", "dropped"}
  /\ pc[r] \in {"admit", "emit"} /\ kind[r] = "call" => r \in pending
  /\ outcome[r] # "none" <=> act[r] \in {"finish", "deliver", "done", "dead"}
  /\ act[r] = "deliver" => pc[r] \in {"wait", "collect"} /\ response[r] = "none"
  /\ response[r] # "none" =>
       /\ pc[r] \in {"wait", "collect"}
       /\ \/ act[r] = "dropped" /\ response[r] = "dropped"
          \/ act[r] \in {"done", "dead"} /\ response[r] = outcome[r]
  /\ pc[r] \in {"wait", "collect"} => act[r] # "none"
  /\ pc[r] \in {"wait", "collect"} /\ r \notin pending => act[r] = "deliver" \/ response[r] # "none"

SessionInv == \A r \in Requests : SessionOf(r)

\* interleaveVersion moves when a suspended activation gets its next turn after one
\* of another activation; until then the difference shows in segmentSeq.
TurnOf(r) ==
  /\ mark[r] <= version[r] /\ yieldAt[r] <= segmentSeq
  /\ act[r] \in {"none", "queued", "dropped"} => version[r] = 0 /\ mark[r] = 0 /\ ~dirty[r]
  /\ act[r] \in Owning \/ (act[r] = "regrant" /\ current = r) => (version[r] # mark[r] <=> dirty[r])
  /\ act[r] \in {"wait", "resume", "regrant"} /\ current # r =>
       IF segmentSeq = yieldAt[r] THEN version[r] # mark[r] <=> dirty[r] ELSE dirty[r]

TurnInv == \A r \in Requests : TurnOf(r)

\* The inductive invariant.
IInv ==
  /\ TypeOK /\ PhaseInv /\ SlotAccounting /\ ReadyInv /\ OwnerInv /\ SuspendInv
  /\ StopKeepsStarted /\ PlacedInv /\ ExitInv /\ SessionInv /\ ResultIsTruthful
  /\ TurnInv
-----------------------------------------------------------------------------
(* What the steps do to the scheduler *)

\* What is left of a sequence without one position (the loop that compacts ready).
LEMMA RemovalFacts ==
  ASSUME NEW S, NEW s \in Seq(S), NEW i \in 1 .. Len(s)
  PROVE  /\ SubSeq(s, 1, i - 1) \o SubSeq(s, i + 1, Len(s)) \in Seq(S)
         /\ Len(SubSeq(s, 1, i - 1) \o SubSeq(s, i + 1, Len(s))) = Len(s) - 1
         /\ \A j \in 1 .. Len(s) - 1 :
              (SubSeq(s, 1, i - 1) \o SubSeq(s, i + 1, Len(s)))[j] = IF j < i THEN s[j] ELSE s[j + 1]
  <1> DEFINE front == SubSeq(s, 1, i - 1)
             back == SubSeq(s, i + 1, Len(s))
  <1>1. Len(s) \in Nat /\ i \in Int /\ \A j \in 1 .. Len(s) : s[j] \in S
    OBVIOUS
  <1>2. /\ front \in Seq(S) /\ Len(front) = i - 1
        /\ \A j \in 1 .. i - 1 : front[j] = s[j]
    BY <1>1
  <1>3. /\ back \in Seq(S) /\ Len(back) = Len(s) - i
        /\ \A j \in 1 .. Len(s) - i : back[j] = s[i + j]
    BY <1>1
  <1> HIDE DEF front, back
  <1>4. /\ front \o back \in Seq(S)
        /\ Len(front \o back) = Len(front) + Len(back)
        /\ \A j \in 1 .. Len(front) + Len(back) :
             (front \o back)[j] = IF j <= Len(front) THEN front[j] ELSE back[j - Len(front)]
    <2>1. front \in Seq(S) /\ back \in Seq(S)
      BY <1>2, <1>3
    <2>2. front \o back \in Seq(S) /\ Len(front \o back) = Len(front) + Len(back)
      BY <2>1
    <2>3. \A j \in 1 .. Len(front) + Len(back) :
             (front \o back)[j] = IF j <= Len(front) THEN front[j] ELSE back[j - Len(front)]
      BY <2>1
    <2> QED
      BY <2>2, <2>3
  <1>5. /\ front \o back \in Seq(S) /\ Len(front \o back) = Len(s) - 1
        /\ \A j \in 1 .. Len(s) - 1 : (front \o back)[j] = IF j < i THEN s[j] ELSE s[j + 1]
    <2>1. Len(front) + Len(back) = Len(s) - 1
      BY <1>1, <1>2, <1>3
    <2>2. ASSUME NEW j \in 1 .. Len(s) - 1
          PROVE  (front \o back)[j] = IF j < i THEN s[j] ELSE s[j + 1]
      <3>1. CASE j < i
        BY <1>1, <1>2, <1>4, <2>1, <3>1
      <3>2. CASE ~(j < i)
        <4>1. (front \o back)[j] = back[j - (i - 1)]
          BY <1>1, <1>2, <1>4, <2>1, <3>2
        <4>2. j - (i - 1) \in 1 .. Len(s) - i /\ i + (j - (i - 1)) = j + 1
          BY <1>1, <3>2
        <4>3. back[j - (i - 1)] = s[i + (j - (i - 1))]
          BY <1>3, <4>2
        <4> QED
          BY <3>2, <4>1, <4>2, <4>3
      <3> QED
        BY <3>1, <3>2, Zenon
    <2> QED
      BY <1>4, <2>1, <2>2
  <1> QED
    BY <1>5, Zenon DEF front, back

\* The session of request q is left alone.
SameSession(q) == response'[q] = response[q] /\ (q \in pending' <=> q \in pending)

\* So is its activation.
SameActivation(q) ==
  /\ act'[q] = act[q] /\ outcome'[q] = outcome[q]
  /\ grant'[q] <=> grant[q]
  /\ noYield'[q] <=> noYield[q]

\* And what it knows of the turns of the others.
SameTurn(q) == mark'[q] = mark[q] /\ (dirty'[q] <=> dirty[q])

\* So is its caller.
SameCaller(q) == pc'[q] = pc[q] /\ result'[q] = result[q] /\ (slotHeld'[q] <=> slotHeld[q])

\* The moves of a caller.
CallerMove(r) ==
  \/ /\ pc[r] = "idle" /\ pc'[r] = "admit"
     /\ result'[r] = result[r] /\ response'[r] = response[r]
     /\ r \in pending' <=> r \in pending \/ kind[r] = "call"
  \/ /\ pc[r] = "admit" /\ pc'[r] = "emit" /\ slots < MailboxSize
     /\ result'[r] = result[r] /\ SameSession(r)
  \/ /\ pc[r] \in {"idle", "admit", "emit"} /\ pc'[r] = "returned"
     /\ pc[r] = "emit" => loop = "exited"
     /\ result'[r] = "rejected" /\ r \notin pending' /\ response'[r] = response[r]
  \/ /\ pc[r] \in {"wait", "collect"} /\ pc'[r] = "returned"
     /\ response[r] # "none" /\ result'[r] = response[r]
     /\ response'[r] = "none" /\ (r \in pending' <=> r \in pending)
  \/ /\ pc[r] = "wait" /\ pc'[r] = "returned"
     /\ result'[r] = "abandoned" /\ r \notin pending' /\ response'[r] = response[r]
     /\ r \in pending
  \/ /\ pc[r] = "wait" /\ pc'[r] = "collect"
     /\ result'[r] = result[r] /\ SameSession(r) /\ r \notin pending

\* The moves of an activation goroutine.
HandlerMove(r) ==
  /\ \/ act[r] \in {"start", "regrant"} /\ grant[r] /\ act'[r] = "run"
     \/ act[r] = "run" /\ act'[r] = "run"
     \/ act[r] = "run" /\ ~noYield[r] /\ act'[r] = IF NoInterleave THEN "hold" ELSE "yield"
     \/ act[r] = "run" /\ ~noYield[r] /\ act'[r] = "finish"
     \/ act[r] = "wait" /\ act'[r] = "resume"
     \/ act[r] = "hold" /\ act'[r] = "run"
     \/ act[r] = "finish" /\ act'[r] = Completion(r)
     \/ act[r] = "deliver" /\ act'[r] = "done"
  /\ grant'[r] <=> grant[r] /\ act[r] \notin {"start", "regrant"}
  /\ (noYield'[r] <=> noYield[r]) \/ (act[r] = "run" /\ act'[r] = "run")
  /\ r \in pending' <=> r \in pending /\ act[r] # "finish"
  /\ response'[r] = IF act[r] = "deliver" THEN outcome[r] ELSE response[r]
  /\ IF act'[r] = "finish" THEN outcome'[r] \in {"ok", "handlerErr"} ELSE outcome'[r] = outcome[r]
  /\ SameTurn(r) \/ (act[r] = "run" /\ act'[r] = "run" /\ mark'[r] = version[r] /\ ~dirty'[r])

\* Only these pieces of its type are needed to read a step off an action.
LEMMA Types ==
  ASSUME TypeOK
  PROVE  /\ pc \in [Requests -> PcStates] /\ result \in [Requests -> Results]
         /\ pending \in SUBSET Requests /\ response \in [Requests -> Replies \cup {"none"}]
         /\ slotHeld \in [Requests -> BOOLEAN]
         /\ act \in [Requests -> ActStates] /\ outcome \in [Requests -> {"none", "ok", "handlerErr"}]
         /\ grant \in [Requests -> BOOLEAN] /\ noYield \in [Requests -> BOOLEAN]
         /\ mark \in [Requests -> Nat] /\ dirty \in [Requests -> BOOLEAN]
         /\ version \in [Requests -> Nat] /\ yieldAt \in [Requests -> Nat]
         /\ ready \in Seq(Requests) /\ current \in Requests \cup {None}
         /\ suspended \in SUBSET Requests /\ segmentSeq \in Nat
         /\ slots \in Nat /\ yields \in [Requests -> Nat]
  BY Zenon DEF TypeOK

\* The callers do not touch the scheduler and the activations.
LEMMA CallerFrame ==
  ASSUME NEW r \in Requests, ClientStep(r)
  PROVE  UNCHANGED <<cancelled, kind, loop, current, ready, suspended, segmentSeq, stopping,
                     yieldAt, version, mark, dirty, act, outcome, grant, noYield, yields>>
  BY Zenon DEF ClientStep, Begin, TakeSlot, AdmissionFails, EmitFails, TakeResponse, Abandon, loopVars,
     turnVars, actVars

\* A step of a caller moves that caller only.
LEMMA CallerEffect ==
  ASSUME TypeOK, NEW r \in Requests, ClientStep(r)
  PROVE  /\ \A q \in Requests \ {r} : SameCaller(q) /\ SameSession(q)
         /\ CallerMove(r)
  <1> USE DEF SameCaller, SameSession, CallerMove
  <1> /\ pc \in [Requests -> PcStates] /\ result \in [Requests -> Results]
      /\ response \in [Requests -> Replies \cup {"none"}] /\ slotHeld \in [Requests -> BOOLEAN]
    BY Types
  <1>1. CASE Begin(r)
    BY <1>1 DEF Begin, Reject, Return, slotVars
  <1>2. CASE TakeSlot(r)
    BY <1>2 DEF TakeSlot, sessionVars
  <1>3. CASE AdmissionFails(r)
    BY <1>3 DEF AdmissionFails, Reject, Return, slotVars
  <1>4. CASE EmitFails(r)
    BY <1>4 DEF EmitFails, Reject, Return
  <1>5. CASE TakeResponse(r)
    BY <1>5 DEF TakeResponse, Return, slotVars
  <1>6. CASE Abandon(r)
    <2>1. CASE r \in pending
      BY <1>6, <2>1 DEF Abandon, Return, slotVars
    <2>2. CASE r \notin pending
      BY <1>6, <2>2 DEF Abandon, slotVars
    <2> QED
      BY <2>1, <2>2
  <1> QED
    BY <1>1, <1>2, <1>3, <1>4, <1>5, <1>6, Zenon DEF ClientStep

\* The activations do not touch the callers, the slots and the scheduler.
LEMMA HandlerFrame ==
  ASSUME NEW r \in Requests, HandlerStep(r)
  PROVE  UNCHANGED <<cancelled, pc, kind, result, slots, slotHeld, loop, current, ready, suspended,
                     segmentSeq, stopping, yieldAt, version>>
  BY Zenon DEF HandlerStep, MarkTurn, EnterNoYield, Await, TakeGrant, LeaveNoYield, WaitReturns,
     HandlerReturns, CompleteSession, DeliverResponse, clientVars, slotVars, loopVars, turnVars

\* A step of an activation goroutine moves that activation only.
LEMMA HandlerEffect ==
  ASSUME TypeOK, NEW r \in Requests, HandlerStep(r)
  PROVE  /\ \A q \in Requests \ {r} : SameActivation(q) /\ SameSession(q) /\ SameTurn(q)
         /\ HandlerMove(r)
  <1> /\ act \in [Requests -> ActStates] /\ outcome \in [Requests -> {"none", "ok", "handlerErr"}]
      /\ grant \in [Requests -> BOOLEAN] /\ noYield \in [Requests -> BOOLEAN]
      /\ response \in [Requests -> Replies \cup {"none"}]
      /\ mark \in [Requests -> Nat] /\ dirty \in [Requests -> BOOLEAN]
    BY Types, Zenon
  <1> USE DEF SameActivation, SameSession, SameTurn, HandlerMove
  <1>1. CASE MarkTurn(r)
    BY <1>1 DEF MarkTurn, sessionVars, actVars
  <1>2. CASE EnterNoYield(r)
    BY <1>2 DEF EnterNoYield, sessionVars, turnVars
  <1>3. CASE LeaveNoYield(r)
    BY <1>3 DEF LeaveNoYield, sessionVars, turnVars
  <1>4. CASE Await(r)
    BY <1>4 DEF Await, Goto, YieldForbidden, sessionVars, turnVars
  <1>5. CASE TakeGrant(r)
    BY <1>5 DEF TakeGrant, ReceiveGrant, sessionVars, turnVars
  <1>6. CASE WaitReturns(r)
    BY <1>6 DEF WaitReturns, Goto, sessionVars, turnVars
  <1>7. CASE HandlerReturns(r)
    BY <1>7 DEF HandlerReturns, Goto, sessionVars, turnVars
  <1>8. CASE CompleteSession(r)
    BY <1>8 DEF CompleteSession, Goto, Completion, turnVars
  <1>9. CASE DeliverResponse(r)
    BY <1>9 DEF DeliverResponse, Goto, turnVars
  <1> QED
    BY <1>1, <1>2, <1>3, <1>4, <1>5, <1>6, <1>7, <1>8, <1>9, Zenon DEF HandlerStep
-----------------------------------------------------------------------------
(* What the scheduler does *)

\* Position i leaves ready and the others keep their order.
Leaves(i) ==
  /\ i \in 1 .. Len(ready) /\ ready[i] \in Requests
  /\ ready' \in Seq(Requests) /\ Len(ready') = Len(ready) - 1
  /\ \A j \in 1 .. Len(ready) - 1 : ready'[j] = IF j < i THEN ready[j] ELSE ready[j + 1]

\* The service is granted to activation a.
Grants(a) ==
  /\ current' = a /\ grant'[a]
  /\ act'[a] = IF act[a] = "queued" THEN "start" ELSE act[a]
  /\ \A q \in Requests \ {a} : act'[q] = act[q] /\ (grant'[q] <=> grant[q])
  /\ UNCHANGED <<pending, response>>

\* Its turn begins, and the started others notice.
TurnBegins(a) ==
  /\ segmentSeq' = segmentSeq + 1
  /\ version'[a] = IF Interleaved(a) THEN version[a] + 1 ELSE version[a]
  /\ dirty'[a] <=> dirty[a]
  /\ \A q \in Requests \ {a} : version'[q] = version[q] /\ (dirty'[q] <=> Started(q))

\* Activation a is dropped unstarted and its call is answered.
Drops(a) ==
  /\ act[a] = "queued" /\ act'[a] = "dropped"
  /\ a \notin pending' /\ response'[a] = IF a \in pending THEN "dropped" ELSE response[a]
  /\ \A q \in Requests \ {a} : act'[q] = act[q] /\ SameSession(q)
  /\ UNCHANGED <<current, grant>>

\* No turn begins.
NoTurn == UNCHANGED <<segmentSeq, version, dirty>>

\* The steps that change neither ready nor an activation.
Quiet ==
  \/ Stop \/ Exit \/ ScheduleNothing \/ ServiceDone \/ PurgeDone \/ Finished \/ UNCHANGED vars

\* They leave everything but the place of the loop and the stop flags alone.
LEMMA QuietFrame ==
  ASSUME Quiet
  PROVE  UNCHANGED <<pc, kind, result, pending, response, slots, slotHeld, current, ready, suspended,
                     segmentSeq, yieldAt, version, mark, dirty, act, outcome, grant, noYield, yields>>
  BY Zenon DEF Quiet, Stop, Exit, ScheduleNothing, ServiceDone, PurgeDone, Finished, vars, clientVars,
     sessionVars, slotVars, loopVars, turnVars, actVars

\* finishPending drops activation a and answers its call.
LEMMA FinishEffect ==
  ASSUME TypeOK, NEW a \in Requests, FinishPending(a)
  PROVE  /\ act'[a] = "dropped" /\ ReleaseSlot(a)
         /\ a \notin pending' /\ response'[a] = IF a \in pending THEN "dropped" ELSE response[a]
         /\ \A q \in Requests \ {a} : act'[q] = act[q] /\ SameSession(q)
  <1>1. /\ act \in [Requests -> ActStates] /\ response \in [Requests -> Replies \cup {"none"}]
        /\ pending \in SUBSET Requests
    BY Types
  <1>2. act'[a] = "dropped" /\ \A q \in Requests \ {a} : act'[q] = act[q]
    BY <1>1 DEF FinishPending
  <1>3. /\ a \notin pending' /\ response'[a] = IF a \in pending THEN "dropped" ELSE response[a]
        /\ \A q \in Requests \ {a} : SameSession(q)
    BY <1>1 DEF FinishPending, SameSession
  <1> QED
    BY <1>2, <1>3, Zenon DEF FinishPending

\* schedule takes the head of ready, and only when nobody is current.
LEMMA ScheduleEffect ==
  ASSUME TypeOK, ReadyInv, Schedule
  PROVE  /\ Leaves(1) /\ current = None
         /\ act[ready[1]] \in {"queued", "regrant"} /\ ~grant[ready[1]]
         /\ \/ Grants(ready[1]) /\ TurnBegins(ready[1]) /\ (act[ready[1]] = "queued" => ~stopping)
            \/ Drops(ready[1]) /\ NoTurn /\ stopping
         /\ ReleaseSlot(ready[1])
         /\ loop = "top" /\ loop' = "select"
         /\ UNCHANGED <<cancelled, pc, kind, result, suspended, stopping, yieldAt, mark, outcome,
                        noYield, yields>>
  <1>0. ready \in Seq(Requests)
    BY Types
  <1>1. ready # <<>> /\ current = None
    BY DEF Schedule, NothingToSchedule
  <1>2. Head(ready) = ready[1] /\ ready' = Tail(ready)
    BY <1>0, <1>1 DEF Schedule
  <1>3. Leaves(1)
    BY <1>0, <1>1, <1>2 DEF Leaves
  <1>4. ready[1] \in Requests /\ act[ready[1]] \in {"queued", "regrant"} /\ ~grant[ready[1]]
    BY <1>3 DEF ReadyInv, Leaves
  <1>5. ASSUME GrantSegment(ready[1]), stopping => Started(ready[1])
        PROVE  Grants(ready[1]) /\ TurnBegins(ready[1]) /\ (act[ready[1]] = "queued" => ~stopping)
    <2>1. Grants(ready[1])
      <3>1. act \in [Requests -> ActStates] /\ grant \in [Requests -> BOOLEAN]
        BY Types
      <3>2. /\ act' = IF Started(ready[1]) THEN act ELSE [act EXCEPT ![ready[1]] = "start"]
            /\ grant' = [grant EXCEPT ![ready[1]] = TRUE]
            /\ current' = ready[1] /\ UNCHANGED <<pending, response>>
        BY <1>5, Zenon DEF GrantSegment, sessionVars
      <3> QED
        BY <1>4, <3>1, <3>2 DEF Grants, Started
    <2>2. TurnBegins(ready[1])
      <3>1. version \in [Requests -> Nat] /\ dirty \in [Requests -> BOOLEAN]
        BY Types
      <3>2. /\ segmentSeq' = segmentSeq + 1
            /\ version' = IF Interleaved(ready[1]) THEN [version EXCEPT ![ready[1]] = version[ready[1]] + 1] ELSE version
            /\ dirty' = [r \in Requests |-> IF r = ready[1] THEN dirty[r] ELSE Started(r)]
        BY <1>5, Zenon DEF GrantSegment
      <3>3. dirty'[ready[1]] = dirty[ready[1]] /\ \A q \in Requests \ {ready[1]} : dirty'[q] = Started(q)
        BY <1>4, <3>2
      <3>4. /\ version'[ready[1]] = IF Interleaved(ready[1]) THEN version[ready[1]] + 1 ELSE version[ready[1]]
            /\ \A q \in Requests \ {ready[1]} : version'[q] = version[q]
        BY <1>4, <3>1, <3>2
      <3> QED
        BY <3>2, <3>3, <3>4, Zenon DEF TurnBegins
    <2> QED
      BY <1>5, <2>1, <2>2 DEF Started
  <1>6. ASSUME stopping, ~Started(ready[1]), FinishPending(ready[1]),
               UNCHANGED <<current, segmentSeq, version, grant, dirty>>
        PROVE  Drops(ready[1]) /\ NoTurn
    BY <1>4, <1>6, FinishEffect, Zenon DEF Drops, NoTurn, Started
  <1>7. /\ loop = "top" /\ loop' = "select"
        /\ UNCHANGED <<cancelled, pc, kind, result, suspended, stopping, yieldAt, mark, outcome,
                       noYield, yields>>
    BY DEF Schedule, clientVars
  <1>8. ReleaseSlot(ready[1])
    BY <1>2, Zenon DEF Schedule, GrantSegment, FinishPending
  <1> QED
    <2>1. \/ GrantSegment(ready[1]) /\ (stopping => Started(ready[1]))
          \/ /\ stopping /\ ~Started(ready[1]) /\ FinishPending(ready[1])
             /\ UNCHANGED <<current, segmentSeq, version, grant, dirty>>
      BY <1>2, Zenon DEF Schedule
    <2>2. \/ Grants(ready[1]) /\ TurnBegins(ready[1]) /\ (act[ready[1]] = "queued" => ~stopping)
          \/ Drops(ready[1]) /\ NoTurn /\ stopping
      BY <1>5, <1>6, <2>1, Zenon
    <2> QED
      BY <1>1, <1>3, <1>4, <1>7, <1>8, <2>2, Zenon

\* A step of the purge takes one unstarted activation out of ready.
LEMMA PurgeEffect ==
  ASSUME TypeOK, ReadyInv, PurgeReady
  PROVE  /\ \E i \in 1 .. Len(ready) : Leaves(i) /\ Drops(ready[i]) /\ ReleaseSlot(ready[i])
         /\ loop = "purge"
         /\ UNCHANGED <<cancelled, pc, kind, result, loop, current, suspended, segmentSeq, stopping,
                        yieldAt, version, mark, dirty, outcome, grant, noYield, yields>>
  <1>1. ready \in Seq(Requests)
    BY Types
  <1>2. PICK i \in 1 .. Len(ready) :
          /\ ~Started(ready[i]) /\ FinishPending(ready[i])
          /\ ready' = SubSeq(ready, 1, i - 1) \o SubSeq(ready, i + 1, Len(ready))
    BY Zenon DEF PurgeReady
  <1>3. UNCHANGED <<cancelled, pc, kind, result, loop, current, suspended, segmentSeq, stopping,
                    yieldAt, version, mark, dirty, outcome, grant, noYield, yields>> /\ loop = "purge"
    BY Zenon DEF PurgeReady, clientVars, turnVars
  <1>4. ready[i] \in Requests /\ act[ready[i]] \in {"queued", "regrant"}
    BY <1>1 DEF ReadyInv
  <1>5. Leaves(i)
    <2>1. /\ ready' \in Seq(Requests) /\ Len(ready') = Len(ready) - 1
          /\ \A j \in 1 .. Len(ready) - 1 : ready'[j] = IF j < i THEN ready[j] ELSE ready[j + 1]
      BY <1>1, <1>2, RemovalFacts, Zenon
    <2> QED
      BY <1>4, <2>1, Zenon DEF Leaves
  <1>6. Drops(ready[i])
    BY <1>2, <1>3, <1>4, FinishEffect, Zenon DEF Drops, Started
  <1> QED
    BY <1>2, <1>3, <1>5, <1>6, Zenon DEF FinishPending

\* An envelope that reaches the loop is put into ready, or dropped by a stopping loop.
LEMMA EnqueueEffect ==
  ASSUME TypeOK, NEW r \in Requests, EventEnqueue(r)
  PROVE  /\ loop = "select" /\ loop' = "top" /\ pc[r] = "emit"
         /\ pc'[r] = IF kind[r] = "call" THEN "wait" ELSE "returned"
         /\ result'[r] = IF kind[r] = "call" THEN result[r] ELSE "accepted"
         /\ \A q \in Requests \ {r} :
              pc'[q] = pc[q] /\ result'[q] = result[q] /\ act'[q] = act[q] /\ SameSession(q)
         /\ IF stopping
            THEN /\ act'[r] = "dropped" /\ UNCHANGED ready /\ ReleaseSlot(r)
                 /\ r \notin pending' /\ response'[r] = IF r \in pending THEN "dropped" ELSE response[r]
            ELSE act'[r] = "queued" /\ ready' = Append(ready, r) /\ SameSession(r) /\ UNCHANGED <<slots, slotHeld>>
         /\ UNCHANGED <<cancelled, kind, current, suspended, segmentSeq, stopping, yieldAt, version,
                        mark, dirty, outcome, grant, noYield, yields>>
  <1>1. /\ loop = "select" /\ loop' = "top" /\ pc[r] = "emit"
        /\ UNCHANGED <<cancelled, kind, current, suspended, segmentSeq, stopping, yieldAt, version,
                       mark, dirty, outcome, grant, noYield, yields>>
    BY Zenon DEF EventEnqueue, turnVars
  <1>2. pc \in [Requests -> PcStates] /\ result \in [Requests -> Results] /\ act \in [Requests -> ActStates]
    BY Types
  <1>3. /\ pc'[r] = IF kind[r] = "call" THEN "wait" ELSE "returned"
        /\ result'[r] = IF kind[r] = "call" THEN result[r] ELSE "accepted"
        /\ \A q \in Requests \ {r} : pc'[q] = pc[q] /\ result'[q] = result[q]
    BY <1>2 DEF EventEnqueue, Return
  <1>4. ASSUME stopping
        PROVE  /\ act'[r] = "dropped" /\ UNCHANGED ready /\ ReleaseSlot(r)
               /\ r \notin pending' /\ response'[r] = IF r \in pending THEN "dropped" ELSE response[r]
               /\ \A q \in Requests \ {r} : act'[q] = act[q] /\ SameSession(q)
    <2>1. FinishPending(r) /\ UNCHANGED ready
      BY <1>4, Zenon DEF EventEnqueue, Enqueue
    <2> QED
      BY <2>1, FinishEffect, Zenon
  <1>5. ASSUME ~stopping
        PROVE  /\ act'[r] = "queued" /\ ready' = Append(ready, r) /\ SameSession(r) /\ UNCHANGED <<slots, slotHeld>>
               /\ \A q \in Requests \ {r} : act'[q] = act[q] /\ SameSession(q)
    BY <1>2, <1>5 DEF EventEnqueue, Enqueue, SameSession, slotVars, sessionVars
  <1> QED
    BY <1>1, <1>3, <1>4, <1>5, Zenon

\* The other events concern the activations only.
LEMMA EventFrame ==
  ASSUME TypeOK, NEW r \in Requests, EventYield(r) \/ EventResume(r) \/ EventDone(r)
  PROVE  /\ loop = "select" /\ loop' = "top"
         /\ \A q \in Requests \ {r} : act'[q] = act[q]
         /\ UNCHANGED <<cancelled, pc, kind, result, pending, response, slots, slotHeld, segmentSeq,
                        stopping, version, mark, dirty, outcome, grant, noYield, yields>>
  <1>1. \E to \in ActStates : act' = [act EXCEPT ![r] = to]
    BY DEF EventYield, EventResume, EventDone, ActStates
  <1>2. \A q \in Requests \ {r} : act'[q] = act[q]
    BY <1>1, Types
  <1> QED
    BY <1>2, Zenon DEF EventYield, EventResume, EventDone, clientVars, sessionVars, slotVars, turnVars

\* A yield is refused or suspends the activation.
LEMMA YieldEffect ==
  ASSUME TypeOK, NEW r \in Requests, EventYield(r)
  PROVE  /\ act[r] = "yield" /\ UNCHANGED ready
         /\ \/ YieldRefused(r) /\ act'[r] = "run" /\ UNCHANGED <<current, suspended, yieldAt>>
            \/ ~YieldRefused(r) /\ act'[r] = "wait" /\ Suspend(r)
  BY Types DEF EventYield

\* A resumed activation waits in ready for its next turn.
LEMMA ResumeEffect ==
  ASSUME TypeOK, SuspendInv, NEW r \in Requests, EventResume(r)
  PROVE  /\ act[r] = "resume" /\ act'[r] = "regrant" /\ r \in suspended
         /\ suspended' = suspended \ {r} /\ ready' = Append(ready, r)
         /\ UNCHANGED <<current, yieldAt>>
  BY Types DEF EventResume, Resume, SuspendInv, SuspendedBound, turnVars

\* A finished activation gives the service back.
LEMMA DoneEffect ==
  ASSUME TypeOK, NEW r \in Requests, EventDone(r)
  PROVE  /\ act[r] = "done" /\ act'[r] = "dead"
         /\ current' = IF current = r THEN None ELSE current
         /\ suspended' = suspended \ {r}
         /\ UNCHANGED <<ready, yieldAt>>
  BY Types DEF EventDone, turnVars

\* Every step is one of these.
LEMMA StepCases ==
  ASSUME [Next]_vars
  PROVE  \/ Quiet \/ Schedule \/ PurgeReady
         \/ \E r \in Requests :
              \/ ClientStep(r) \/ HandlerStep(r)
              \/ EventEnqueue(r) \/ EventYield(r) \/ EventResume(r) \/ EventDone(r)
  BY Zenon DEF Next, LoopStep, Event, Quiet
-----------------------------------------------------------------------------
(* The ready queue *)

\* ReadyInv survives when an activation leaves ready ...
LEMMA ReadyLeaves ==
  ASSUME TypeOK, ReadyInv, NEW i \in 1 .. Len(ready), Leaves(i),
         \A r \in Requests \ {ready[i]} : act'[r] = act[r] /\ (grant'[r] <=> grant[r])
  PROVE  ReadyInv'
  <1> DEFINE old(j) == IF j < i THEN j ELSE j + 1
  <1>0. ready \in Seq(Requests)
    BY Types
  <1>1. Len(ready) \in Nat /\ \A j \in 1 .. Len(ready) : ready[j] \in Requests
    BY <1>0
  <1>2. ASSUME NEW j \in 1 .. Len(ready')
        PROVE  /\ old(j) \in 1 .. Len(ready) \ {i}
               /\ ready'[j] = ready[old(j)] /\ ready'[j] \in Requests \ {ready[i]}
    BY <1>1 DEF Leaves, ReadyInv
  <1> HIDE DEF old
  <1>3. ASSUME NEW j \in 1 .. Len(ready')
        PROVE  act'[ready'[j]] \in {"queued", "regrant"} /\ ~grant'[ready'[j]]
    <2>1. act[ready[old(j)]] \in {"queued", "regrant"} /\ ~grant[ready[old(j)]]
      BY <1>2 DEF ReadyInv
    <2> QED
      BY <1>2, <2>1, Zenon
  <1>4. ASSUME NEW j \in 1 .. Len(ready'), NEW k \in 1 .. Len(ready'), ready'[j] = ready'[k]
        PROVE  j = k
    <2>1. ready[old(j)] = ready[old(k)] /\ old(j) \in 1 .. Len(ready) /\ old(k) \in 1 .. Len(ready)
      BY <1>2, <1>4
    <2>2. old(j) = old(k)
      BY <2>1 DEF ReadyInv
    <2> QED
      BY <1>1, <2>2 DEF Leaves, old
  <1> QED
    BY <1>3, <1>4 DEF ReadyInv

\* What Append does to ready.
LEMMA Appended ==
  ASSUME TypeOK, NEW r \in Requests, ready' = Append(ready, r)
  PROVE  /\ Len(ready) \in Nat /\ Len(ready') = Len(ready) + 1 /\ ready'[Len(ready) + 1] = r
         /\ \A j \in 1 .. Len(ready) : ready'[j] = ready[j] /\ ready[j] \in Requests
  <1>1. ready \in Seq(Requests)
    BY Types
  <1> QED
    BY <1>1

\* ... and when one that was not there enters it.
LEMMA ReadyEnters ==
  ASSUME TypeOK, ReadyInv, NEW r \in Requests, ~grant[r], act[r] \notin {"queued", "regrant"},
         act'[r] \in {"queued", "regrant"}, \A q \in Requests \ {r} : act'[q] = act[q],
         ready' = Append(ready, r), UNCHANGED grant
  PROVE  ReadyInv'
  <1>1. /\ Len(ready) \in Nat /\ Len(ready') = Len(ready) + 1 /\ ready'[Len(ready) + 1] = r
        /\ \A j \in 1 .. Len(ready) : ready'[j] = ready[j] /\ ready[j] \in Requests
    BY Appended
  <1>2. \A j \in 1 .. Len(ready) : ready[j] # r
    BY DEF ReadyInv
  <1>3. \A j \in 1 .. Len(ready') : act'[ready'[j]] \in {"queued", "regrant"} /\ ~grant'[ready'[j]]
    BY <1>1, <1>2 DEF ReadyInv
  <1>4. \A j, k \in 1 .. Len(ready') : ready'[j] = ready'[k] => j = k
    BY <1>1, <1>2 DEF ReadyInv
  <1> QED
    BY <1>3, <1>4 DEF ReadyInv

\* An element that stays in ready is found again.
LEMMA StaysInReady ==
  ASSUME TypeOK, NEW i \in 1 .. Len(ready), Leaves(i), NEW k \in 1 .. Len(ready), k # i
  PROVE  \E j \in 1 .. Len(ready') : ready'[j] = ready[k]
  <1>1. ready \in Seq(Requests)
    BY Types
  <1>2. CASE k < i
    <2>1. k \in 1 .. Len(ready') /\ ready'[k] = ready[k]
      BY <1>1, <1>2 DEF Leaves
    <2> QED
      BY <2>1
  <1>3. CASE k > i
    <2>1. k - 1 \in 1 .. Len(ready') /\ ready'[k - 1] = ready[k]
      BY <1>1, <1>3 DEF Leaves
    <2> QED
      BY <2>1
  <1> QED
    BY <1>1, <1>2, <1>3
-----------------------------------------------------------------------------
(* Who has the service *)

\* An activation is created by the enqueue of its envelope.
LEMMA PhaseStep ==
  ASSUME TypeOK, ReadyInv, SuspendInv, PhaseInv, [Next]_vars
  PROVE  PhaseInv'
  <1> USE DEF PhaseInv
  <1>1. CASE Quiet
    BY <1>1, QuietFrame, Zenon
  <1>2. CASE Schedule
    BY <1>2, ScheduleEffect DEF Grants, Drops, Leaves
  <1>3. CASE PurgeReady
    <2>1. PICK i \in 1 .. Len(ready) : ready[i] \in Requests /\ Drops(ready[i])
      BY <1>3, PurgeEffect, Zenon DEF Leaves
    <2>2. UNCHANGED pc
      BY <1>3, PurgeEffect, Zenon
    <2> QED
      BY <2>1, <2>2 DEF Drops
  <1>4. ASSUME NEW r \in Requests, ClientStep(r) PROVE PhaseInv'
    BY <1>4, CallerFrame, CallerEffect DEF SameCaller, CallerMove
  <1>5. ASSUME NEW r \in Requests, HandlerStep(r) PROVE PhaseInv'
    BY <1>5, HandlerFrame, HandlerEffect DEF SameActivation, HandlerMove, Completion
  <1>6. ASSUME NEW r \in Requests, EventEnqueue(r) PROVE PhaseInv'
    BY <1>6, EnqueueEffect
  <1>7. ASSUME NEW r \in Requests, EventYield(r) PROVE PhaseInv'
    BY <1>7, EventFrame, YieldEffect
  <1>8. ASSUME NEW r \in Requests, EventResume(r) PROVE PhaseInv'
    BY <1>8, EventFrame, ResumeEffect
  <1>9. ASSUME NEW r \in Requests, EventDone(r) PROVE PhaseInv'
    BY <1>9, EventFrame, DoneEffect
  <1> QED
    BY <1>1, <1>2, <1>3, <1>4, <1>5, <1>6, <1>7, <1>8, <1>9, StepCases, Zenon

\* A request that does not have the service may move without getting it.
LEMMA OwnerKeeps ==
  ASSUME OwnerInv, NEW a \in Requests, act[a] \notin Owning \cup {"regrant"}, act'[a] \notin Owning,
         \A q \in Requests \ {a} : act'[q] = act[q], UNCHANGED <<current, grant, noYield>>,
         current \in Requests \cup {None}
  PROVE  OwnerInv'
  <1>1. current # a /\ ~grant[a] /\ ~noYield[a]
    BY RuntimeAssumption DEF OwnerInv, Owning
  <1> QED
    BY <1>1 DEF OwnerInv

\* Only schedule grants the service, and only when it is free.
LEMMA OwnerStep ==
  ASSUME TypeOK, PhaseInv, ReadyInv, SuspendInv, OwnerInv, [Next]_vars
  PROVE  OwnerInv'
  <1>0. None \notin Requests /\ current \in Requests \cup {None}
    BY RuntimeAssumption, Types, Zenon
  <1>1. CASE Quiet
    BY <1>1, QuietFrame, Zenon DEF OwnerInv
  <1>2. CASE Schedule
    BY <1>0, <1>2, ScheduleEffect DEF OwnerInv, Owning, Grants, Drops, Leaves
  <1>3. CASE PurgeReady
    <2>1. PICK i \in 1 .. Len(ready) : Leaves(i) /\ Drops(ready[i])
      BY <1>3, PurgeEffect, Zenon
    <2>2. UNCHANGED <<current, grant, noYield>>
      BY <1>3, PurgeEffect, Zenon
    <2> QED
      BY <1>0, <2>1, <2>2, OwnerKeeps DEF Drops, Leaves, Owning
  <1>4. ASSUME NEW r \in Requests, ClientStep(r) PROVE OwnerInv'
    BY <1>4, CallerFrame, Zenon DEF OwnerInv
  <1>5. ASSUME NEW r \in Requests, HandlerStep(r) PROVE OwnerInv'
    BY <1>0, <1>5, HandlerFrame, HandlerEffect DEF OwnerInv, Owning, SameActivation, HandlerMove, Completion
  <1>6. ASSUME NEW r \in Requests, EventEnqueue(r) PROVE OwnerInv'
    <2>1. act[r] = "none" /\ act'[r] \in {"queued", "dropped"}
      BY <1>6, EnqueueEffect DEF PhaseInv
    <2> QED
      BY <1>0, <1>6, <2>1, EnqueueEffect, OwnerKeeps DEF Owning
  <1>7. ASSUME NEW r \in Requests, EventYield(r) PROVE OwnerInv'
    BY <1>0, <1>7, EventFrame, YieldEffect DEF OwnerInv, Owning, Suspend
  <1>8. ASSUME NEW r \in Requests, EventResume(r) PROVE OwnerInv'
    BY <1>0, <1>8, EventFrame, ResumeEffect, OwnerKeeps DEF Owning
  <1>9. ASSUME NEW r \in Requests, EventDone(r) PROVE OwnerInv'
    BY <1>0, <1>9, EventFrame, DoneEffect DEF OwnerInv, Owning
  <1> QED
    BY <1>1, <1>2, <1>3, <1>4, <1>5, <1>6, <1>7, <1>8, <1>9, StepCases, Zenon

\* What enters ready was not there and has no grant.
LEMMA ReadyStep ==
  ASSUME TypeOK, PhaseInv, ReadyInv, OwnerInv, SuspendInv, [Next]_vars
  PROVE  ReadyInv'
  <1>0. \A i \in 1 .. Len(ready) : ready[i] \in Requests
    <2>1. ready \in Seq(Requests)
      BY Types, Zenon
    <2> QED
      BY <2>1
  <1>1. CASE Quiet
    BY <1>1, QuietFrame, Zenon DEF ReadyInv
  <1>2. CASE Schedule
    <2>1. Leaves(1) /\ \A q \in Requests \ {ready[1]} : act'[q] = act[q] /\ (grant'[q] <=> grant[q])
      BY <1>2, ScheduleEffect, Zenon DEF Grants, Drops
    <2> QED
      BY <2>1, ReadyLeaves DEF Leaves
  <1>3. CASE PurgeReady
    <2>1. PICK i \in 1 .. Len(ready) : Leaves(i) /\ Drops(ready[i])
      BY <1>3, PurgeEffect, Zenon
    <2>2. \A q \in Requests \ {ready[i]} : act'[q] = act[q] /\ (grant'[q] <=> grant[q])
      BY <2>1, Zenon DEF Drops
    <2> QED
      BY <2>1, <2>2, ReadyLeaves, Zenon
  <1>4. ASSUME NEW r \in Requests, ClientStep(r) PROVE ReadyInv'
    BY <1>4, CallerFrame, Zenon DEF ReadyInv
  <1>5. ASSUME NEW r \in Requests, act'[r] = act[r] \/ act[r] \notin {"queued", "regrant"} \/ grant[r],
               grant'[r] => grant[r], \A q \in Requests \ {r} : act'[q] = act[q] /\ (grant'[q] <=> grant[q]),
               UNCHANGED ready
        PROVE  ReadyInv'
    BY <1>0, <1>5 DEF ReadyInv
  <1>6. ASSUME NEW r \in Requests, HandlerStep(r) PROVE ReadyInv'
    BY <1>5, <1>6, HandlerFrame, HandlerEffect, Zenon DEF SameActivation, HandlerMove
  <1>7. ASSUME NEW r \in Requests, EventEnqueue(r) PROVE ReadyInv'
    <2>1. act[r] = "none" /\ ~grant[r] /\ UNCHANGED grant
      BY <1>7, EnqueueEffect DEF PhaseInv, OwnerInv
    <2>2. CASE stopping
      <3>1. UNCHANGED ready /\ \A q \in Requests \ {r} : act'[q] = act[q]
        BY <1>7, <2>2, EnqueueEffect, Zenon
      <3> QED
        BY <1>5, <2>1, <3>1, Zenon
    <2>3. CASE ~stopping
      <3>1. /\ act'[r] = "queued" /\ ready' = Append(ready, r)
            /\ \A q \in Requests \ {r} : act'[q] = act[q]
        BY <1>7, <2>3, EnqueueEffect, Zenon
      <3> QED
        BY <2>1, <3>1, ReadyEnters
    <2> QED
      BY <2>2, <2>3
  <1>8. ASSUME NEW r \in Requests, EventYield(r) PROVE ReadyInv'
    <2>1. act[r] = "yield" /\ UNCHANGED <<ready, grant>> /\ \A q \in Requests \ {r} : act'[q] = act[q]
      BY <1>8, EventFrame, YieldEffect, Zenon
    <2> QED
      BY <1>5, <2>1, Zenon
  <1>9. ASSUME NEW r \in Requests, EventResume(r) PROVE ReadyInv'
    <2>1. act[r] = "resume"
      BY <1>9, ResumeEffect, Zenon
    <2>2. ~grant[r]
      BY <2>1, Zenon DEF OwnerInv
    <2>3. /\ act'[r] = "regrant" /\ ready' = Append(ready, r) /\ UNCHANGED grant
          /\ \A q \in Requests \ {r} : act'[q] = act[q]
      BY <1>9, EventFrame, ResumeEffect, Zenon
    <2> QED
      BY <2>1, <2>2, <2>3, ReadyEnters
  <1>10. ASSUME NEW r \in Requests, EventDone(r) PROVE ReadyInv'
    <2>1. act[r] = "done" /\ UNCHANGED <<ready, grant>> /\ \A q \in Requests \ {r} : act'[q] = act[q]
      BY <1>10, EventFrame, DoneEffect, Zenon
    <2> QED
      BY <1>5, <2>1, Zenon
  <1> QED
    BY <1>1, <1>2, <1>3, <1>4, <1>6, <1>7, <1>8, <1>9, <1>10, StepCases, Zenon

\* An activation leaves ready only for a grant or a drop, ...
LEMMA PlacedLeaves ==
  ASSUME TypeOK, PlacedInv, NEW i \in 1 .. Len(ready), Leaves(i),
         \A q \in Requests : WaitsForTurn(q)' => q # ready[i] /\ WaitsForTurn(q)
  PROVE  PlacedInv'
  <1> SUFFICES ASSUME NEW q \in Requests, WaitsForTurn(q)' PROVE InReady(q)'
    BY DEF PlacedInv
  <1>1. PICK k \in 1 .. Len(ready) : ready[k] = q
    BY Zenon DEF PlacedInv, InReady
  <1>2. k # i
    BY <1>1, Zenon
  <1> QED
    BY <1>1, <1>2, StaysInReady, Zenon DEF InReady

\* ... and enters it with its place in the queue.
LEMMA PlacedEnters ==
  ASSUME TypeOK, PlacedInv, NEW r \in Requests, ready' = Append(ready, r),
         \A q \in Requests \ {r} : WaitsForTurn(q)' => WaitsForTurn(q)
  PROVE  PlacedInv'
  <1>1. /\ Len(ready) \in Nat /\ Len(ready') = Len(ready) + 1 /\ ready'[Len(ready) + 1] = r
        /\ \A j \in 1 .. Len(ready) : ready'[j] = ready[j]
    BY Appended
  <1>2. InReady(r)' /\ \A q \in Requests : InReady(q) => InReady(q)'
    BY <1>1 DEF InReady
  <1> QED
    BY <1>2, Zenon DEF PlacedInv

\* Otherwise ready stays and nobody begins to wait.
LEMMA PlacedStays ==
  ASSUME PlacedInv, UNCHANGED ready, \A q \in Requests : WaitsForTurn(q)' => WaitsForTurn(q)
  PROVE  PlacedInv'
  BY DEF PlacedInv, InReady

\* What waits for the service is in ready.
LEMMA PlacedStep ==
  ASSUME TypeOK, PhaseInv, ReadyInv, OwnerInv, SuspendInv, PlacedInv, [Next]_vars
  PROVE  PlacedInv'
  <1>1. CASE Quiet
    BY <1>1, PlacedStays, QuietFrame, Zenon DEF WaitsForTurn
  <1>2. CASE Schedule
    <2>1. \A q \in Requests : WaitsForTurn(q)' => q # ready[1] /\ WaitsForTurn(q)
      BY <1>2, ScheduleEffect, RuntimeAssumption DEF Grants, Drops, Leaves, WaitsForTurn
    <2> QED
      BY <1>2, <2>1, PlacedLeaves, ScheduleEffect, Zenon DEF Leaves
  <1>3. CASE PurgeReady
    <2>1. PICK i \in 1 .. Len(ready) : Leaves(i) /\ Drops(ready[i])
      BY <1>3, PurgeEffect, Zenon
    <2>2. \A q \in Requests : WaitsForTurn(q)' => q # ready[i] /\ WaitsForTurn(q)
      BY <2>1 DEF Drops, Leaves, WaitsForTurn
    <2> QED
      BY <2>1, <2>2, PlacedLeaves, Zenon
  <1>4. ASSUME NEW r \in Requests, ClientStep(r) PROVE PlacedInv'
    BY <1>4, PlacedStays, CallerFrame, Zenon DEF WaitsForTurn
  <1>5. ASSUME NEW r \in Requests, HandlerStep(r) PROVE PlacedInv'
    BY <1>5, PlacedStays, HandlerFrame, HandlerEffect, Zenon DEF SameActivation, HandlerMove, Completion, WaitsForTurn
  <1>6. ASSUME NEW r \in Requests, EventEnqueue(r) PROVE PlacedInv'
    BY <1>6, PlacedEnters, PlacedStays, EnqueueEffect, Zenon DEF WaitsForTurn
  <1>7. ASSUME NEW r \in Requests, EventYield(r) \/ EventDone(r) PROVE PlacedInv'
    <2>1. act[r] \in Owning /\ act'[r] \in {"run", "wait", "dead"} /\ UNCHANGED ready
      BY <1>7, YieldEffect, DoneEffect, Zenon DEF Owning
    <2>2. current = r /\ \A q \in Requests \ {r} : act'[q] = act[q]
      BY <1>7, <2>1, EventFrame, Zenon DEF OwnerInv
    <2> QED
      BY <2>1, <2>2, PlacedStays, Zenon DEF WaitsForTurn
  <1>8. ASSUME NEW r \in Requests, EventResume(r) PROVE PlacedInv'
    BY <1>8, PlacedEnters, EventFrame, ResumeEffect, Zenon DEF WaitsForTurn
  <1> QED
    BY <1>1, <1>2, <1>3, <1>4, <1>5, <1>6, <1>7, <1>8, StepCases, Zenon
-----------------------------------------------------------------------------
(* The end of the loop *)

\* What the callers and the handlers do leaves started activations started.
LEMMA StopStays ==
  ASSUME TypeOK, StopKeepsStarted, UNCHANGED <<loop, stopping, ready>>,
         \A q \in Requests : Started(q) => Started(q)'
  PROVE  StopKeepsStarted'
  <1>1. \A i \in 1 .. Len(ready) : ready[i] \in Requests
    BY Types
  <1> QED
    BY <1>1 DEF StopKeepsStarted

\* The purge leaves started activations, and nothing unstarted comes after it.
LEMMA StopStep ==
  ASSUME TypeOK, PhaseInv, ReadyInv, SuspendInv, StopKeepsStarted, [Next]_vars
  PROVE  StopKeepsStarted'
  <1>0. \A i \in 1 .. Len(ready) : ready[i] \in Requests
    BY Types
  <1>1. CASE Stop \/ Finished \/ UNCHANGED vars
    BY <1>1, Zenon DEF Stop, Finished, vars, loopVars, actVars, StopKeepsStarted, Started
  <1>2. CASE Exit \/ ScheduleNothing \/ ServiceDone \/ PurgeDone
    BY <1>2, Zenon DEF Exit, ScheduleNothing, ServiceDone, PurgeDone, actVars, StopKeepsStarted, Started
  <1>3. CASE Schedule
    <2>1. /\ Leaves(1) /\ loop = "top" /\ UNCHANGED stopping
          /\ \A q \in Requests \ {ready[1]} : Started(q) => Started(q)'
      BY <1>3, ScheduleEffect, Zenon DEF Grants, Drops, Started
    <2>2. ASSUME stopping, NEW j \in 1 .. Len(ready') PROVE act'[ready'[j]] \notin {"none", "queued", "dropped"}
      <3>1. ready'[j] = ready[j + 1] /\ j + 1 \in 1 .. Len(ready) /\ j + 1 # 1
        BY <2>1 DEF Leaves
      <3>2. Started(ready[j + 1]) /\ ready[j + 1] \in Requests /\ ready[j + 1] # ready[1]
        BY <1>0, <2>1, <2>2, <3>1 DEF StopKeepsStarted, ReadyInv, Leaves
      <3> QED
        BY <2>1, <3>1, <3>2, Zenon DEF Started
    <2> QED
      BY <2>1, <2>2, Zenon DEF StopKeepsStarted, Started
  <1>4. CASE PurgeReady
    BY <1>4, PurgeEffect, Zenon DEF StopKeepsStarted
  <1>5. ASSUME NEW r \in Requests, ClientStep(r) PROVE StopKeepsStarted'
    BY <1>5, CallerFrame, StopStays DEF Started
  <1>6. ASSUME NEW r \in Requests, HandlerStep(r) PROVE StopKeepsStarted'
    BY <1>6, HandlerFrame, HandlerEffect, StopStays, Zenon DEF Started, SameActivation, HandlerMove, Completion
  <1>7. ASSUME NEW r \in Requests, EventEnqueue(r) PROVE StopKeepsStarted'
    <2>1. loop = "select" /\ act[r] = "none" /\ UNCHANGED stopping /\ (stopping => UNCHANGED ready)
      BY <1>7, EnqueueEffect DEF PhaseInv
    <2>2. \A q \in Requests : Started(q) => Started(q)'
      BY <1>7, <2>1, EnqueueEffect DEF Started
    <2> QED
      BY <1>0, <2>1, <2>2 DEF StopKeepsStarted
  <1>8. ASSUME NEW r \in Requests, EventYield(r) \/ EventDone(r) PROVE StopKeepsStarted'
    <2>1. loop = "select" /\ UNCHANGED <<stopping, ready>> /\ Started(r)'
      BY <1>8, EventFrame, YieldEffect, DoneEffect DEF Started
    <2>2. \A q \in Requests : Started(q) => Started(q)'
      BY <1>8, <2>1, EventFrame DEF Started
    <2> QED
      BY <1>0, <2>1, <2>2 DEF StopKeepsStarted
  <1>9. ASSUME NEW r \in Requests, EventResume(r) PROVE StopKeepsStarted'
    <2>1. loop = "select" /\ UNCHANGED stopping /\ Started(r)' /\ ready' = Append(ready, r)
      BY <1>9, EventFrame, ResumeEffect DEF Started
    <2>2. \A q \in Requests : Started(q) => Started(q)'
      BY <1>9, <2>1, EventFrame DEF Started
    <2>3. /\ Len(ready) \in Nat /\ Len(ready') = Len(ready) + 1 /\ ready'[Len(ready) + 1] = r
          /\ \A j \in 1 .. Len(ready) : ready'[j] = ready[j]
      BY <2>1, Appended
    <2> QED
      BY <1>0, <2>1, <2>2, <2>3 DEF StopKeepsStarted
  <1> QED
    BY <1>1, <1>2, <1>3, <1>4, <1>5, <1>6, <1>7, <1>8, <1>9, StepCases, Zenon DEF Quiet

\* The scheduler exits with nothing left, and nothing comes back.
LEMMA ExitStep ==
  ASSUME TypeOK, ReadyInv, ExitInv, [Next]_vars
  PROVE  ExitInv'
  <1>1. CASE Quiet
    BY <1>1, QuietFrame DEF ExitInv, Quiet, Stop, Exit, Drained, ScheduleNothing, ServiceDone, PurgeDone,
       Finished, vars, loopVars
  <1>2. CASE Schedule
    BY <1>2, ScheduleEffect DEF ExitInv
  <1>3. CASE PurgeReady
    BY <1>3, PurgeEffect DEF ExitInv
  <1>4. ASSUME NEW r \in Requests, ClientStep(r) PROVE ExitInv'
    BY <1>4, CallerFrame, Zenon DEF ExitInv
  <1>5. ASSUME NEW r \in Requests, HandlerStep(r) PROVE ExitInv'
    BY <1>5, HandlerFrame, Zenon DEF ExitInv
  <1>6. ASSUME NEW r \in Requests, EventEnqueue(r) PROVE ExitInv'
    BY <1>6, EnqueueEffect DEF ExitInv
  <1>7. ASSUME NEW r \in Requests, EventYield(r) \/ EventResume(r) \/ EventDone(r) PROVE ExitInv'
    BY <1>7, EventFrame DEF ExitInv
  <1> QED
    BY <1>1, <1>2, <1>3, <1>4, <1>5, <1>6, <1>7, StepCases, Zenon
==============================================================================
