------------------------ MODULE ServiceRuntimeProofs ------------------------
(***************************************************************************)
(* What holds of ServiceRuntime for every set of requests, mailbox size,   *)
(* suspension limit and number of yields: the inductive invariant, what    *)
(* follows from it, and that each step that keeps it is a step of the      *)
(* specification in module Mailbox, or none.                               *)
(***************************************************************************)
EXTENDS ServiceRuntimeSessions, ServiceMailbox

-----------------------------------------------------------------------------
(* The inductive invariant *)

\* newServiceRuntime starts with empty channels, no activation and nobody current.
LEMMA InitIInv ==
  ASSUME Cardinality({}) = 0, Init
  PROVE  IInv
  <1> USE RuntimeAssumption DEF Init
  <1>1. TypeOK
    <2>1. ready \in Seq(Requests) /\ pending \in SUBSET Requests /\ suspended \in SUBSET Requests
      OBVIOUS
    <2>2. /\ pc \in [Requests -> PcStates] /\ result \in [Requests -> Results]
          /\ response \in [Requests -> Replies \cup {"none"}] /\ act \in [Requests -> ActStates]
          /\ loop \in LoopStates /\ kind \in [Requests -> Kinds]
          /\ outcome \in [Requests -> {"none", "ok", "handlerErr"}]
      BY DEF PcStates, Results, Replies, LoopStates, ActStates
    <2>3. /\ slotHeld \in [Requests -> BOOLEAN] /\ grant \in [Requests -> BOOLEAN]
          /\ noYield \in [Requests -> BOOLEAN] /\ dirty \in [Requests -> BOOLEAN]
      OBVIOUS
    <2>4. /\ yieldAt \in [Requests -> Nat] /\ version \in [Requests -> Nat]
          /\ mark \in [Requests -> Nat] /\ yields \in [Requests -> Nat]
          /\ slots \in Nat /\ segmentSeq \in Nat
      OBVIOUS
    <2> QED
      BY <2>1, <2>2, <2>3, <2>4, Zenon DEF TypeOK
  <1>2. Len(ready) = 0
    OBVIOUS
  <1>3. SlotAccounting
    <2>1. {r \in Requests : slotHeld[r]} = {}
      OBVIOUS
    <2>2. slots = 0 /\ 0 <= MailboxSize
      OBVIOUS
    <2>3. \A r \in Requests : slotHeld[r] <=> pc[r] = "emit" \/ act[r] = "queued"
      OBVIOUS
    <2> HIDE DEF Init
    <2> QED
      BY <2>1, <2>2, <2>3, Zenon DEF SlotAccounting
  <1>4. SuspendInv
    <2>1. {r \in Requests : act[r] \in {"wait", "resume"}} = {}
      OBVIOUS
    <2>2. SuspendedBound
      BY <2>1 DEF SuspendedBound
    <2> QED
      BY <2>2 DEF SuspendInv
  <1>5. PhaseInv /\ OwnerInv /\ ExitInv
    BY DEF PhaseInv, OwnerInv, ExitInv, Owning
  <1>6. ReadyInv /\ StopKeepsStarted /\ PlacedInv
    BY <1>2 DEF ReadyInv, StopKeepsStarted, PlacedInv, WaitsForTurn
  <1>7. SessionInv /\ ResultIsTruthful /\ TurnInv
    BY DEF SessionInv, SessionOf, ResultIsTruthful, TurnInv, TurnOf, Owning
  <1> QED
    BY <1>1, <1>3, <1>4, <1>5, <1>6, <1>7, Zenon DEF IInv

\* Every step of the service runtime keeps IInv.
LEMMA IInvStep ==
  ASSUME CountingLaws, IInv, [Next]_vars
  PROVE  IInv'
  <1>1. /\ TypeOK /\ PhaseInv /\ SlotAccounting /\ ReadyInv /\ OwnerInv /\ SuspendInv
        /\ StopKeepsStarted /\ PlacedInv /\ ExitInv /\ SessionInv /\ ResultIsTruthful /\ TurnInv
    BY Zenon DEF IInv
  <1>2. SlotAccounting'
    BY <1>1, SlotStep, Zenon
  <1>3. TypeOK'
    <2>1. slots' \in Nat
      BY <1>2, SlotsCounted, Zenon
    <2> QED
      BY <1>1, <2>1, TypeStep, Zenon
  <1>4. PhaseInv' /\ ReadyInv' /\ OwnerInv' /\ SuspendInv'
    BY <1>1, PhaseStep, ReadyStep, OwnerStep, SuspendStep, Zenon
  <1>5. StopKeepsStarted' /\ PlacedInv' /\ ExitInv'
    BY <1>1, StopStep, PlacedStep, ExitStep, Zenon
  <1>6. SessionInv' /\ ResultIsTruthful' /\ TurnInv'
    BY <1>1, SessionStep, ResultStep, TurnStep, Zenon
  <1> QED
    BY <1>2, <1>3, <1>4, <1>5, <1>6, Zenon DEF IInv

\* What the invariant says of the state of a service runtime.
LEMMA Consequences ==
  IInv =>
    /\ TypeOK /\ SingleSegment /\ SlotAccounting /\ SuspendedBound
    /\ NoYieldIsAtomic /\ StopKeepsStarted /\ GrantNeverBlocks /\ CallIsAnswered
    /\ ExitLeavesNothing /\ ResultIsTruthful /\ SerialHandlers /\ InterleavedSinceExact
  <1>1. IInv => TypeOK
    BY Zenon DEF IInv
  <1>2. IInv => SingleSegment
    BY DEF IInv, OwnerInv, SingleSegment
  <1>3. IInv => SlotAccounting
    BY Zenon DEF IInv
  <1>4. IInv => SuspendedBound
    BY Zenon DEF IInv, SuspendInv
  <1>5. IInv => NoYieldIsAtomic
    <2> SUFFICES ASSUME IInv, NEW r \in Requests, noYield[r]
                 PROVE  /\ act[r] = "run" /\ current = r
                        /\ \A s \in Requests \ {r} : act[s] \notin Owning /\ ~grant[s]
      BY DEF NoYieldIsAtomic
    <2>1. act[r] = "run" /\ current = r
      BY DEF IInv, OwnerInv, Owning
    <2> QED
      BY <2>1 DEF IInv, OwnerInv
  <1>6. IInv => StopKeepsStarted
    BY Zenon DEF IInv
  <1>7. IInv => GrantNeverBlocks
    BY Zenon DEF IInv, ReadyInv, GrantNeverBlocks
  <1>8. IInv => CallIsAnswered
    BY DEF IInv, SessionInv, SessionOf, CallIsAnswered
  <1>9. IInv => ExitLeavesNothing
    <2> SUFFICES ASSUME IInv, loop = "exited", NEW r \in Requests
                 PROVE  act[r] \in {"none", "dead", "dropped"}
      BY DEF ExitLeavesNothing
    <2>1. act[r] \in ActStates
      BY Types, Zenon DEF IInv
    <2>2. current = None /\ ready = <<>> /\ suspended = {}
      BY Zenon DEF IInv, ExitInv
    <2>3. act[r] \notin Owning
      BY <2>2, RuntimeAssumption DEF IInv, OwnerInv
    <2>4. act[r] \notin {"wait", "resume"}
      BY <2>2 DEF IInv, SuspendInv, SuspendedBound
    <2>5. act[r] \notin {"queued", "regrant"}
      <3>1. ~\E i \in 1 .. Len(ready) : ready[i] = r
        BY <2>2
      <3> QED
        BY <2>2, <3>1, RuntimeAssumption DEF IInv, PlacedInv, WaitsForTurn, InReady
    <2> QED
      BY <2>1, <2>3, <2>4, <2>5 DEF ActStates, Owning
  <1>10. IInv => ResultIsTruthful
    BY Zenon DEF IInv
  <1>11. IInv => SerialHandlers
    <2> SUFFICES ASSUME IInv, NoInterleave, NEW r \in Requests, NEW s \in Requests,
                        act[r] \notin {"none", "queued", "dropped", "dead"},
                        act[s] \notin {"none", "queued", "dropped", "dead"}
                 PROVE  r = s
      BY DEF SerialHandlers
    <2>1. ASSUME NEW q \in Requests, act[q] \notin {"none", "queued", "dropped", "dead"}
          PROVE  act[q] \in Owning
      <3>1. act[q] \in ActStates
        BY Types, Zenon DEF IInv
      <3>2. act[q] \notin {"wait", "resume", "regrant"}
        <4>1. SuspendInv
          BY Zenon DEF IInv
        <4> QED
          BY <4>1 DEF SuspendInv, SuspendedBound
      <3> QED
        BY <2>1, <3>1, <3>2 DEF ActStates, Owning
    <2> QED
      BY <2>1 DEF IInv, OwnerInv
  <1>12. IInv => InterleavedSinceExact
    BY DEF IInv, TurnInv, TurnOf, InterleavedSinceExact, Owning
  <1> QED
    BY <1>1, <1>2, <1>3, <1>4, <1>5, <1>6, <1>7, <1>8, <1>9, <1>10, <1>11, <1>12, Zenon

-----------------------------------------------------------------------------
(* Each step is a step of Mailbox, or none *)

\* A sender has been told something only when its call has returned, and the loop
\* purges ready only after it has seen the stop.
UntoldInv ==
  /\ \A r \in Requests : pc[r] # "returned" => result[r] = "none"
  /\ loop = "purge" => stopping

\* The steps of the mailbox, or none.
MailboxStep == [Promised!MailboxNext]_(Promised!mailboxVars)

\* Callers return once, and the stop is seen once.
LEMMA UntoldStep ==
  ASSUME TypeOK, ReadyInv, SuspendInv, UntoldInv, [Next]_vars
  PROVE  UntoldInv'
  <1>1. CASE Quiet
    <2>1. UNCHANGED <<pc, result>>
      BY <1>1, QuietFrame, Zenon
    <2>2. loop' = "purge" => stopping'
      BY <1>1 DEF Quiet, Stop, Exit, ScheduleNothing, ServiceDone, PurgeDone, Finished, vars, loopVars, UntoldInv
    <2> QED
      BY <2>1, <2>2, Zenon DEF UntoldInv
  <1>2. CASE Schedule
    <2>1. UNCHANGED <<pc, result>> /\ loop' = "select"
      BY <1>2, ScheduleEffect, Zenon
    <2> QED
      BY <2>1 DEF UntoldInv
  <1>3. CASE PurgeReady
    <2>1. UNCHANGED <<pc, result, loop, stopping>>
      BY <1>3, PurgeEffect, Zenon
    <2> QED
      BY <2>1, Zenon DEF UntoldInv
  <1>4. ASSUME NEW r \in Requests, ClientStep(r) PROVE UntoldInv'
    <2>1. UNCHANGED <<loop, stopping>> /\ \A q \in Requests \ {r} : SameCaller(q)
      BY <1>4, CallerFrame, CallerEffect, Zenon
    <2>2. pc[r] # "returned" /\ (pc'[r] # "returned" => result'[r] = result[r])
      BY <1>4, CallerEffect DEF CallerMove
    <2> QED
      BY <2>1, <2>2, Zenon DEF UntoldInv, SameCaller
  <1>5. ASSUME NEW r \in Requests, HandlerStep(r) PROVE UntoldInv'
    <2>1. UNCHANGED <<pc, result, loop, stopping>>
      BY <1>5, HandlerFrame, Zenon
    <2> QED
      BY <2>1, Zenon DEF UntoldInv
  <1>6. ASSUME NEW r \in Requests, EventEnqueue(r) PROVE UntoldInv'
    <2>1. /\ loop' = "top" /\ pc[r] = "emit"
          /\ \A q \in Requests \ {r} : pc'[q] = pc[q] /\ result'[q] = result[q]
      BY <1>6, EnqueueEffect, Zenon
    <2>2. pc'[r] # "returned" => result'[r] = result[r]
      BY <1>6, EnqueueEffect
    <2> QED
      BY <2>1, <2>2 DEF UntoldInv
  <1>7. ASSUME NEW r \in Requests, EventYield(r) \/ EventResume(r) \/ EventDone(r) PROVE UntoldInv'
    <2>1. UNCHANGED <<pc, result>> /\ loop' = "top"
      BY <1>7, EventFrame, Zenon
    <2> QED
      BY <2>1 DEF UntoldInv
  <1> QED
    BY <1>1, <1>2, <1>3, <1>4, <1>5, <1>6, <1>7, StepCases, Zenon
-----------------------------------------------------------------------------
(* Where a request is *)

\* The phases, by the places of the caller and of the activation.
PhaseTable(r) ==
  /\ PhaseOf(r) = "inbox" <=> pc[r] = "emit" \/ act[r] = "queued"
  /\ PhaseOf(r) = "outside" <=> pc[r] \in {"idle", "admit"}
  /\ PhaseOf(r) = "away" <=>
       act[r] = "dropped" \/ (act[r] = "none" /\ pc[r] \notin {"idle", "admit", "emit"})
  /\ PhaseOf(r) = "running" <=>
       act[r] \in {"start", "run", "yield", "hold"} \/ (act[r] = "regrant" /\ current = r)
  /\ PhaseOf(r) = "parked" <=> act[r] \in {"wait", "resume"}
  /\ PhaseOf(r) = "ready" <=> act[r] = "regrant" /\ current # r
  /\ PhaseOf(r) = "ended" <=> act[r] \in {"finish", "deliver", "done", "dead"}

\* PhaseTable is what PhaseOf says ...
LEMMA Phases ==
  ASSUME TypeOK, PhaseInv, NEW r \in Requests
  PROVE  PhaseTable(r)
  <1>1. act[r] \in ActStates /\ (pc[r] \in {"idle", "admit", "emit"} => act[r] = "none")
    BY Types DEF PhaseInv
  <1> QED
    BY <1>1 DEF PhaseOf, ActStates, PhaseTable

\* ... and also after a step.
LEMMA PhasesAfter ==
  ASSUME TypeOK', PhaseInv', NEW r \in Requests
  PROVE  PhaseTable(r)'
  <1>1. act'[r] \in ActStates /\ (pc'[r] \in {"idle", "admit", "emit"} => act'[r] = "none")
    BY DEF TypeOK, PhaseInv
  <1> QED
    BY <1>1 DEF PhaseOf, ActStates, PhaseTable

\* Nothing that the phase of a request depends on changes.
Same(r) ==
  /\ pc'[r] = pc[r] /\ act'[r] = act[r]
  /\ act[r] = "regrant" => (current' = r <=> current = r)

\* A request whose phase depends on nothing that changed keeps it.
LEMMA SamePhase ==
  ASSUME NEW r \in Requests, Same(r)
  PROVE  PhaseOf(r)' = PhaseOf(r)
  BY DEF PhaseOf, Same

\* A step that moves one request is the move of module Mailbox.
LEMMA OneMoves ==
  ASSUME NEW r \in Requests, \A s \in Requests \ {r} : Same(s),
         NEW from, NEW to, PhaseOf(r) = from, PhaseOf(r)' = to
  PROVE  Promised!Move(r, from, to)
  <1>1. \A s \in Requests \ {r} : PhaseOf(s)' = PhaseOf(s)
    BY SamePhase
  <1>2. Phase[r] = from
    BY DEF Phase
  <1>3. \A s \in Requests : PhaseOf(s)' = IF s = r THEN to ELSE Phase[s]
    BY <1>1 DEF Phase
  <1>4. Phase' = [Phase EXCEPT ![r] = to]
    BY <1>3, Zenon DEF Phase
  <1> QED
    BY <1>2, <1>4, Zenon DEF Promised!Move

\* A step in which the one request it concerns keeps its phase moves none.
LEMMA NoneMoves ==
  ASSUME NEW r \in Requests, \A s \in Requests \ {r} : Same(s), PhaseOf(r)' = PhaseOf(r)
  PROVE  Phase' = Phase
  <1>1. \A s \in Requests \ {r} : PhaseOf(s)' = PhaseOf(s)
    BY SamePhase
  <1> QED
    BY <1>1 DEF Phase

\* Nor does one in which nothing changes that a phase depends on.
LEMMA AllStay ==
  ASSUME UNCHANGED <<pc, act, current>>
  PROVE  Phase' = Phase
  <1>1. \A s \in Requests : PhaseOf(s)' = PhaseOf(s)
    BY SamePhase DEF Same
  <1> QED
    BY <1>1 DEF Phase

\* A step that tells one sender is the Tell of module Mailbox.
LEMMA OneHears ==
  ASSUME TypeOK, TypeOK', NEW r \in Requests, result[r] = "none",
         \A s \in Requests \ {r} : result'[s] = result[s]
  PROVE  Promised!Tell(r, result'[r])
  <1>1. result \in [Requests -> Results] /\ result' \in [Requests -> Results]
    BY Zenon DEF TypeOK
  <1>2. result' = [result EXCEPT ![r] = result'[r]]
    BY <1>1
  <1> QED
    BY <1>2, Zenon DEF Promised!Tell

\* A step that tells nobody leaves what was told alone.
LEMMA NoneHears ==
  ASSUME TypeOK, TypeOK', \A s \in Requests : result'[s] = result[s]
  PROVE  result' = result
  <1>1. result \in [Requests -> Results] /\ result' \in [Requests -> Results]
    BY Zenon DEF TypeOK
  <1> QED
    BY <1>1

\* The two modules count alike.
LEMMA SameCount == \A S : Promised!Cardinality(S) = Cardinality(S)
  BY Zenon DEF Promised!Cardinality, Cardinality
-----------------------------------------------------------------------------
(* The steps of the callers *)

\* A request that takes a slot enters the inbox.
LEMMA Enters ==
  ASSUME TypeOK, PhaseInv, SlotAccounting, TypeOK', PhaseInv', NEW r \in Requests,
         pc[r] = "admit", pc'[r] = "emit", slots < MailboxSize, \A s \in Requests \ {r} : Same(s),
         UNCHANGED <<ServiceState, outcome, result>>
  PROVE  Promised!Enter(r)
  <1>1. PhaseOf(r) = "outside" /\ PhaseOf(r)' = "inbox"
    BY Phases, PhasesAfter DEF PhaseTable
  <1>2. Promised!Move(r, "outside", "inbox")
    BY <1>1, OneMoves
  <1>3. ASSUME NEW s \in Requests PROVE PhaseOf(s) = "inbox" <=> slotHeld[s]
    <2>1. PhaseTable(s) /\ (slotHeld[s] <=> pc[s] = "emit" \/ act[s] = "queued")
      BY Phases DEF SlotAccounting
    <2> QED
      BY <2>1, Zenon DEF PhaseTable
  <1>4. Promised!In("inbox") = {s \in Requests : slotHeld[s]}
    BY <1>3, Zenon DEF Promised!In, Phase
  <1>5. Cardinality(Promised!In("inbox")) = slots
    BY <1>4, Zenon DEF SlotAccounting
  <1> QED
    BY <1>2, <1>5, SameCount, Zenon DEF Promised!Enter

\* A rejected request does not enter, or leaves the inbox of a closed service.
LEMMA TurnsAway ==
  ASSUME TypeOK, PhaseInv, UntoldInv, TypeOK', PhaseInv', NEW r \in Requests,
         pc[r] \in {"idle", "admit", "emit"}, pc[r] = "emit" => loop = "exited",
         pc'[r] = "returned", result'[r] = "rejected", act'[r] = act[r],
         \A s \in Requests \ {r} : Same(s) /\ result'[s] = result[s],
         UNCHANGED <<ServiceState, outcome>>
  PROVE  Promised!TurnAway(r)
  <1>1. result[r] = "none" /\ act[r] = "none"
    BY DEF UntoldInv, PhaseInv
  <1>2. Promised!Tell(r, "rejected")
    BY <1>1, OneHears
  <1>3. PhaseOf(r) = (IF pc[r] = "emit" THEN "inbox" ELSE "outside") /\ PhaseOf(r)' = "away"
    BY <1>1, Phases, PhasesAfter DEF PhaseTable
  <1>4. Promised!Move(r, IF pc[r] = "emit" THEN "inbox" ELSE "outside", "away")
    BY <1>3, OneMoves, Zenon
  <1>5. pc[r] = "emit" => ServiceState = "closed"
    BY DEF ServiceState
  <1> QED
    BY <1>2, <1>4, <1>5, Zenon DEF Promised!TurnAway

\* A caller that waits hears what became of its request, or gives up.
LEMMA Answers ==
  ASSUME TypeOK, PhaseInv, UntoldInv, TypeOK', NEW r \in Requests, SessionOf(r),
         pc[r] \in {"wait", "collect"}, UNCHANGED <<Phase, ServiceState, outcome>>,
         \/ response[r] # "none" /\ result'[r] = response[r]
         \/ result'[r] = "abandoned",
         \A s \in Requests \ {r} : result'[s] = result[s]
  PROVE  Promised!Answer(r)
  <1>1. result[r] = "none" /\ act[r] # "none"
    BY DEF UntoldInv, SessionOf
  <1>2. Promised!Tell(r, result'[r])
    BY <1>1, OneHears, Zenon
  <1>3. \/ act[r] = "dropped" /\ result'[r] = "dropped"
        \/ act[r] \in {"done", "dead"} /\ result'[r] = outcome[r]
        \/ result'[r] = "abandoned"
    BY DEF SessionOf
  <1>4. \/ PhaseOf(r) = "away" /\ result'[r] = "dropped"
        \/ PhaseOf(r) = "ended" /\ result'[r] = outcome[r]
        \/ PhaseOf(r) # "outside" /\ result'[r] = "abandoned"
    BY <1>3, Phases DEF PhaseTable
  <1>5. Phase[r] = PhaseOf(r)
    BY DEF Phase
  <1> QED
    BY <1>2, <1>4, <1>5, Zenon DEF Promised!Answer

\* The steps of the callers.
LEMMA ClientRefines ==
  ASSUME TypeOK, PhaseInv, SlotAccounting, SessionInv, UntoldInv, TypeOK', PhaseInv',
         NEW r \in Requests, ClientStep(r)
  PROVE  MailboxStep
  <1>1. UNCHANGED <<loop, stopping, act, current, outcome>>
    BY CallerFrame, Zenon
  <1>2. CallerMove(r) /\ \A s \in Requests \ {r} : SameCaller(s)
    BY CallerEffect, Zenon
  <1>3. UNCHANGED ServiceState
    BY <1>1, Zenon DEF ServiceState
  <1>4. \A s \in Requests \ {r} : Same(s) /\ result'[s] = result[s]
    BY <1>1, <1>2, Zenon DEF Same, SameCaller
  <1>5. CASE pc[r] \in {"idle", "admit", "emit"} /\ pc'[r] = "returned"
    <2>1. result'[r] = "rejected" /\ (pc[r] = "emit" => loop = "exited")
      BY <1>2, <1>5 DEF CallerMove
    <2>2. Promised!TurnAway(r)
      BY <1>1, <1>3, <1>4, <1>5, <2>1, TurnsAway, Zenon
    <2> QED
      BY <2>2, Zenon DEF Promised!MailboxNext, MailboxStep
  <1>6. CASE pc[r] = "admit" /\ pc'[r] = "emit"
    <2>1. result'[r] = result[r] /\ slots < MailboxSize
      BY <1>2, <1>6 DEF CallerMove
    <2>2. UNCHANGED result
      BY <1>4, <2>1, NoneHears, Zenon
    <2>3. Promised!Enter(r)
      BY <1>1, <1>3, <1>4, <1>6, <2>1, <2>2, Enters, Zenon
    <2> QED
      BY <2>3, Zenon DEF Promised!MailboxNext, MailboxStep
  <1>7. CASE pc[r] = "idle" /\ pc'[r] = "admit"
    <2>1. result'[r] = result[r]
      BY <1>2, <1>7 DEF CallerMove
    <2>2. PhaseOf(r) = "outside" /\ PhaseOf(r)' = "outside"
      BY <1>7, Phases, PhasesAfter DEF PhaseTable
    <2>3. UNCHANGED <<Phase, result>>
      BY <1>4, <2>1, <2>2, NoneMoves, NoneHears, Zenon
    <2> QED
      BY <1>1, <1>3, <2>3, Zenon DEF Promised!mailboxVars, MailboxStep
  <1>8. CASE pc[r] \in {"wait", "collect"}
    <2>1. /\ pc'[r] \in {"returned", "collect"}
          /\ \/ response[r] # "none" /\ result'[r] = response[r]
             \/ result'[r] = "abandoned"
             \/ result'[r] = result[r]
      BY <1>2, <1>8 DEF CallerMove
    <2>2. SessionOf(r) /\ act[r] # "none"
      BY <1>8 DEF SessionInv, SessionOf
    <2>3. PhaseOf(r)' = PhaseOf(r)
      BY <1>1, <1>8, <2>1, <2>2 DEF PhaseOf
    <2>4. UNCHANGED Phase
      BY <1>4, <2>3, NoneMoves, Zenon
    <2>5. CASE result'[r] = result[r]
      <3>1. UNCHANGED result
        BY <1>4, <2>5, NoneHears, Zenon
      <3> QED
        BY <1>1, <1>3, <2>4, <3>1, Zenon DEF Promised!mailboxVars, MailboxStep
    <2>6. CASE result'[r] # result[r]
      <3>1. Promised!Answer(r)
        BY <1>1, <1>3, <1>4, <1>8, <2>1, <2>2, <2>4, <2>6, Answers, Zenon
      <3> QED
        BY <3>1, Zenon DEF Promised!MailboxNext, MailboxStep
    <2> QED
      BY <2>5, <2>6, Zenon
  <1> QED
    BY <1>2, <1>5, <1>6, <1>7, <1>8 DEF CallerMove
-----------------------------------------------------------------------------
(* The steps of the scheduler loop *)

\* A request that is dropped leaves the inbox of a closing service.
LEMMA Aborts ==
  ASSUME TypeOK, PhaseInv, TypeOK', PhaseInv', NEW a \in Requests,
         PhaseOf(a) = "inbox", act'[a] = "dropped", pc'[a] # "emit",
         \A s \in Requests \ {a} : Same(s),
         stopping, loop # "exited", UNCHANGED <<ServiceState, outcome, result>>
  PROVE  MailboxStep
  <1>1. PhaseOf(a)' = "away"
    BY PhasesAfter DEF PhaseTable
  <1>2. Promised!Move(a, "inbox", "away")
    BY <1>1, OneMoves
  <1>3. ServiceState = "closing"
    BY DEF ServiceState
  <1>4. Promised!Abort(a)
    BY <1>2, <1>3, Zenon DEF Promised!Abort
  <1> QED
    BY <1>4, Zenon DEF Promised!MailboxNext, MailboxStep

\* So does one that the loop drops from ready.
LEMMA DropRefines ==
  ASSUME TypeOK, PhaseInv, TypeOK', PhaseInv', NEW a \in Requests, Drops(a), stopping, loop # "exited",
         loop' # "exited", UNCHANGED <<pc, result, outcome, stopping>>
  PROVE  MailboxStep
  <1>1. PhaseOf(a) = "inbox" /\ pc'[a] # "emit"
    BY Phases DEF Drops, PhaseTable, PhaseInv
  <1>2. act'[a] = "dropped" /\ \A s \in Requests \ {a} : Same(s)
    BY Zenon DEF Drops, Same
  <1>3. UNCHANGED ServiceState
    BY DEF ServiceState
  <1> QED
    BY <1>1, <1>2, <1>3, Aborts, Zenon

\* No handler runs while nobody is current.
LEMMA NobodyRuns ==
  ASSUME TypeOK, PhaseInv, OwnerInv, current = None
  PROVE  Promised!In("running") = {}
  <1>1. ASSUME NEW s \in Requests PROVE PhaseOf(s) # "running"
    <2>1. act[s] \notin {"start", "run", "yield", "hold"} /\ current # s
      BY RuntimeAssumption DEF OwnerInv, Owning
    <2> QED
      BY <2>1, Phases DEF PhaseTable
  <1> QED
    BY <1>1, Zenon DEF Promised!In, Phase

\* A grant runs an activation; a stopping service grants to started ones only.
LEMMA GrantRefines ==
  ASSUME TypeOK, PhaseInv, OwnerInv, TypeOK', PhaseInv', NEW a \in Requests, Grants(a),
         act[a] \in {"queued", "regrant"}, act[a] = "queued" => ~stopping, current = None,
         loop # "exited", UNCHANGED <<pc, result, outcome, ServiceState>>
  PROVE  MailboxStep
  <1>1. current' = a /\ act'[a] = (IF act[a] = "queued" THEN "start" ELSE "regrant") /\ current # a
    BY RuntimeAssumption DEF Grants
  <1>2. PhaseOf(a) = (IF act[a] = "queued" THEN "inbox" ELSE "ready") /\ PhaseOf(a)' = "running"
    <2>1. PhaseTable(a) /\ PhaseTable(a)'
      BY Phases, PhasesAfter, Zenon
    <2> QED
      BY <1>1, <2>1 DEF PhaseTable
  <1>3. \A s \in Requests \ {a} : Same(s)
    BY <1>1, RuntimeAssumption DEF Grants, Same
  <1>4. Promised!Move(a, IF act[a] = "queued" THEN "inbox" ELSE "ready", "running")
    BY <1>2, <1>3, OneMoves, Zenon
  <1>5. act[a] = "queued" => ServiceState = "open"
    BY DEF ServiceState
  <1>6. Promised!Run(a)
    BY <1>4, <1>5, NobodyRuns, Zenon DEF Promised!Run
  <1> QED
    BY <1>6, Zenon DEF Promised!MailboxNext, MailboxStep

\* The loop returns behind the last handler.
LEMMA ExitRefines ==
  ASSUME TypeOK, PhaseInv, OwnerInv, SuspendInv, PlacedInv, Exit
  PROVE  MailboxStep
  <1>1. /\ current = None /\ ready = <<>> /\ suspended = {} /\ stopping /\ loop # "exited" /\ loop' = "exited"
        /\ UNCHANGED <<pc, act, current, result, outcome>>
    BY DEF Exit, Drained, clientVars, actVars
  <1>2. ASSUME NEW s \in Requests PROVE PhaseOf(s) \notin {"running", "ready", "parked"}
    <2>1. current # s /\ act[s] \notin {"start", "run", "yield", "hold"}
      BY <1>1, RuntimeAssumption DEF OwnerInv, Owning
    <2>2. act[s] # "regrant"
      BY <1>1, <2>1 DEF PlacedInv, WaitsForTurn, InReady
    <2>3. act[s] \notin {"wait", "resume"}
      BY <1>1 DEF SuspendInv, SuspendedBound
    <2> QED
      BY <2>1, <2>2, <2>3, Phases DEF PhaseTable
  <1>3. Promised!In("running") \cup Promised!In("ready") \cup Promised!In("parked") = {}
    BY <1>2 DEF Promised!In, Phase
  <1>4. UNCHANGED Phase
    BY <1>1, AllStay, Zenon
  <1>5. ServiceState = "closing" /\ ServiceState' = "closed"
    BY <1>1 DEF ServiceState
  <1>6. Promised!Shut
    BY <1>1, <1>3, <1>4, <1>5, Zenon DEF Promised!Shut
  <1> QED
    BY <1>6, Zenon DEF Promised!MailboxNext, MailboxStep

\* The stop is seen once; nothing else that is Quiet shows.
LEMMA QuietRefines ==
  ASSUME TypeOK, PhaseInv, OwnerInv, SuspendInv, PlacedInv, Quiet
  PROVE  MailboxStep
  <1>1. UNCHANGED <<result, outcome, pc, act, current>>
    BY QuietFrame, Zenon
  <1>2. UNCHANGED Phase
    BY <1>1, AllStay, Zenon
  <1>3. CASE Exit
    BY <1>3, ExitRefines, Zenon
  <1>4. CASE ServiceDone
    <2>1. ServiceState = "open" /\ ServiceState' = "closing"
      BY <1>4 DEF ServiceDone, ServiceState
    <2>2. Promised!Close
      BY <1>1, <1>2, <2>1, Zenon DEF Promised!Close
    <2> QED
      BY <2>2, Zenon DEF Promised!MailboxNext, MailboxStep
  <1>5. CASE ~Exit /\ ~ServiceDone
    <2>1. UNCHANGED ServiceState
      BY <1>5 DEF Quiet, Stop, ScheduleNothing, PurgeDone, Finished, vars, loopVars, ServiceState
    <2> QED
      BY <1>1, <1>2, <2>1, Zenon DEF Promised!mailboxVars, MailboxStep
  <1> QED
    BY <1>3, <1>4, <1>5, Zenon

\* schedule and the purge.
LEMMA LoopRefines ==
  ASSUME TypeOK, PhaseInv, ReadyInv, OwnerInv, UntoldInv, TypeOK', PhaseInv', Schedule \/ PurgeReady
  PROVE  MailboxStep
  <1>1. CASE Schedule
    <2>1. /\ ready[1] \in Requests /\ current = None /\ act[ready[1]] \in {"queued", "regrant"}
          /\ loop = "top" /\ loop' = "select" /\ UNCHANGED <<pc, result, outcome, stopping>>
      BY <1>1, ScheduleEffect, Zenon DEF Leaves
    <2>2. loop # "exited" /\ loop' # "exited" /\ UNCHANGED ServiceState
      BY <2>1 DEF ServiceState
    <2>3. CASE Grants(ready[1]) /\ (act[ready[1]] = "queued" => ~stopping)
      BY <2>1, <2>2, <2>3, GrantRefines, Zenon
    <2>4. CASE Drops(ready[1]) /\ stopping
      BY <2>1, <2>2, <2>4, DropRefines, Zenon
    <2> QED
      BY <1>1, <2>3, <2>4, ScheduleEffect, Zenon
  <1>2. CASE PurgeReady
    <2>1. PICK i \in 1 .. Len(ready) : Leaves(i) /\ Drops(ready[i])
      BY <1>2, PurgeEffect, Zenon
    <2>2. /\ ready[i] \in Requests /\ loop = "purge" /\ UNCHANGED <<pc, result, outcome, stopping, loop>>
      BY <1>2, <2>1, PurgeEffect, Zenon DEF Leaves
    <2>3. stopping /\ loop # "exited" /\ loop' # "exited"
      BY <2>2 DEF UntoldInv
    <2> QED
      BY <2>1, <2>2, <2>3, DropRefines, Zenon
  <1> QED
    BY <1>1, <1>2, Zenon

\* The loop takes an envelope: it stays in the inbox, or a stopping loop drops it; the
\* sender of a notification has its answer.
LEMMA EnqueueRefines ==
  ASSUME TypeOK, PhaseInv, UntoldInv, TypeOK', PhaseInv', NEW r \in Requests, EventEnqueue(r)
  PROVE  MailboxStep
  <1>1. /\ loop = "select" /\ loop' = "top" /\ UNCHANGED <<stopping, outcome, current>> /\ pc[r] = "emit"
        /\ \A s \in Requests \ {r} : pc'[s] = pc[s] /\ act'[s] = act[s] /\ result'[s] = result[s]
    BY EnqueueEffect, Zenon
  <1>2. /\ pc'[r] \in {"wait", "returned"} /\ act'[r] = IF stopping THEN "dropped" ELSE "queued"
        /\ result'[r] = IF kind[r] = "call" THEN result[r] ELSE "accepted"
    BY EnqueueEffect
  <1>3. \A s \in Requests \ {r} : Same(s)
    BY <1>1, Zenon DEF Same
  <1>4. PhaseOf(r) = "inbox" /\ PhaseOf(r)' = IF stopping THEN "away" ELSE "inbox"
    <2>1. PhaseTable(r) /\ PhaseTable(r)'
      BY Phases, PhasesAfter, Zenon
    <2> QED
      BY <1>1, <1>2, <2>1 DEF PhaseTable
  <1>5. UNCHANGED ServiceState /\ (stopping => ServiceState = "closing")
    BY <1>1 DEF ServiceState
  <1>6. CASE kind[r] = "call"
    <2>1. UNCHANGED result
      BY <1>1, <1>2, <1>6, NoneHears, Zenon
    <2>2. CASE stopping
      <3>1. act'[r] = "dropped" /\ pc'[r] # "emit" /\ loop # "exited"
        BY <1>1, <1>2, <2>2
      <3> QED
        BY <1>1, <1>3, <1>4, <1>5, <2>1, <2>2, <3>1, Aborts, Zenon
    <2>3. CASE ~stopping
      <3>1. UNCHANGED Phase
        BY <1>3, <1>4, <2>3, NoneMoves, Zenon
      <3> QED
        BY <1>1, <1>5, <2>1, <3>1, Zenon DEF Promised!mailboxVars, MailboxStep
    <2> QED
      BY <2>2, <2>3, Zenon
  <1>7. CASE kind[r] # "call"
    <2>1. Promised!Tell(r, "accepted")
      BY <1>1, <1>2, <1>7, OneHears DEF UntoldInv
    <2>2. Phase[r] = "inbox"
      BY <1>4 DEF Phase
    <2>3. stopping => Promised!Move(r, "inbox", "away")
      BY <1>3, <1>4, OneMoves, Zenon
    <2>4. ~stopping => UNCHANGED Phase
      BY <1>3, <1>4, NoneMoves, Zenon
    <2>5. Promised!Accept(r)
      BY <1>1, <1>5, <2>1, <2>2, <2>3, <2>4, Zenon DEF Promised!Accept
    <2> QED
      BY <2>5, Zenon DEF Promised!MailboxNext, MailboxStep
  <1> QED
    BY <1>6, <1>7, Zenon

\* A yield parks the handler when the suspended map has room.
LEMMA YieldRefines ==
  ASSUME TypeOK, PhaseInv, SuspendInv, TypeOK', PhaseInv', Cardinality(suspended) \in Nat,
         NEW r \in Requests, EventYield(r),
         UNCHANGED <<ServiceState, outcome, result, pc>>, \A s \in Requests \ {r} : act'[s] = act[s]
  PROVE  MailboxStep
  <1>1. PhaseTable(r) /\ PhaseTable(r)' /\ act[r] = "yield"
    BY Phases, PhasesAfter, YieldEffect, Zenon
  <1>2. CASE YieldRefused(r)
    <2>1. act'[r] = "run" /\ UNCHANGED current
      BY <1>2, YieldEffect, Zenon
    <2>2. PhaseOf(r)' = PhaseOf(r) /\ \A s \in Requests \ {r} : Same(s)
      BY <1>1, <2>1 DEF PhaseTable, Same
    <2>3. UNCHANGED Phase
      BY <2>2, NoneMoves, Zenon
    <2> QED
      BY <2>3, Zenon DEF Promised!mailboxVars, MailboxStep
  <1>3. CASE ~YieldRefused(r)
    <2>1. act'[r] = "wait" /\ current = r /\ current' = None /\ ~NoInterleave
      BY <1>3, YieldEffect, Zenon DEF YieldRefused, Suspend
    <2>2. PhaseOf(r) = "running" /\ PhaseOf(r)' = "parked"
      BY <1>1, <2>1 DEF PhaseTable
    <2>3. \A s \in Requests \ {r} : Same(s)
      BY <2>1, RuntimeAssumption DEF Same
    <2>4. Promised!Move(r, "running", "parked")
      BY <2>2, <2>3, OneMoves, Zenon
    <2>5. ASSUME NEW s \in Requests PROVE PhaseOf(s) = "parked" <=> act[s] \in {"wait", "resume"}
      BY Phases, Zenon DEF PhaseTable
    <2>6. Promised!In("parked") = suspended
      BY <2>5, Zenon DEF Promised!In, Phase, SuspendInv, SuspendedBound
    <2>7. Cardinality(suspended) < MaxSuspended
      BY <1>3, RuntimeAssumption DEF YieldRefused
    <2>8. Promised!Park(r)
      BY <2>1, <2>4, <2>6, <2>7, SameCount, Zenon DEF Promised!Park
    <2> QED
      BY <2>8, Zenon DEF Promised!MailboxNext, MailboxStep
  <1> QED
    BY <1>2, <1>3, Zenon

\* A resume wakes the handler, and its end was its return.
LEMMA EventRefines ==
  ASSUME TypeOK, PhaseInv, OwnerInv, SuspendInv, TypeOK', PhaseInv', Cardinality(suspended) \in Nat,
         NEW r \in Requests, EventYield(r) \/ EventResume(r) \/ EventDone(r)
  PROVE  MailboxStep
  <1>1. /\ loop = "select" /\ loop' = "top" /\ UNCHANGED <<stopping, outcome, result, pc>>
        /\ \A s \in Requests \ {r} : act'[s] = act[s]
    BY EventFrame, Zenon
  <1>2. UNCHANGED ServiceState
    BY <1>1 DEF ServiceState
  <1>3. PhaseTable(r) /\ PhaseTable(r)'
    BY Phases, PhasesAfter, Zenon
  <1>4. CASE EventResume(r)
    <2>1. act[r] = "resume" /\ act'[r] = "regrant" /\ UNCHANGED current
      BY <1>4, ResumeEffect, Zenon
    <2>2. current # r
      BY <2>1, RuntimeAssumption, Zenon DEF OwnerInv, Owning
    <2>3. PhaseOf(r) = "parked" /\ PhaseOf(r)' = "ready"
      BY <1>3, <2>1, <2>2 DEF PhaseTable
    <2>4. Promised!Move(r, "parked", "ready")
      BY <1>1, <2>1, <2>3, OneMoves, Zenon DEF Same
    <2>5. Promised!Wake(r)
      BY <1>1, <1>2, <2>4, Zenon DEF Promised!Wake
    <2> QED
      BY <2>5, Zenon DEF Promised!MailboxNext, MailboxStep
  <1>5. CASE EventDone(r)
    <2>1. act[r] = "done" /\ act'[r] = "dead" /\ current' = IF current = r THEN None ELSE current
      BY <1>5, DoneEffect, Zenon
    <2>2. \A s \in Requests \ {r} : Same(s)
      BY <1>1, <2>1, RuntimeAssumption, Zenon DEF Same
    <2>3. PhaseOf(r)' = PhaseOf(r)
      BY <1>3, <2>1 DEF PhaseTable
    <2>4. UNCHANGED Phase
      BY <2>2, <2>3, NoneMoves, Zenon
    <2> QED
      BY <1>1, <1>2, <2>4, Zenon DEF Promised!mailboxVars, MailboxStep
  <1> QED
    BY <1>1, <1>2, <1>4, <1>5, YieldRefines, Zenon
-----------------------------------------------------------------------------
(* The steps of an activation goroutine *)

\* The handler ends when it returns; what the goroutine does besides does not show.
LEMMA HandlerRefines ==
  ASSUME TypeOK, PhaseInv, OwnerInv, TypeOK', PhaseInv', NEW r \in Requests, HandlerStep(r)
  PROVE  MailboxStep
  <1>1. UNCHANGED <<pc, result, loop, stopping, current>>
    BY HandlerFrame, Zenon
  <1>2. HandlerMove(r) /\ \A s \in Requests \ {r} : SameActivation(s)
    BY HandlerEffect, Zenon
  <1>3. \A s \in Requests \ {r} : Same(s) /\ outcome'[s] = outcome[s]
    BY <1>1, <1>2, Zenon DEF Same, SameActivation
  <1>4. UNCHANGED ServiceState
    BY <1>1, Zenon DEF ServiceState
  <1>5. PhaseTable(r) /\ PhaseTable(r)'
    BY Phases, PhasesAfter, Zenon
  <1>6. outcome \in [Requests -> {"none", "ok", "handlerErr"}] /\ outcome' \in [Requests -> {"none", "ok", "handlerErr"}]
    BY Zenon DEF TypeOK
  <1>7. CASE act'[r] = "finish"
    <2>1. act[r] = "run" /\ outcome'[r] \in {"ok", "handlerErr"}
      BY <1>2, <1>7 DEF HandlerMove, Completion
    <2>2. PhaseOf(r) = "running" /\ PhaseOf(r)' = "ended"
      BY <1>5, <1>7, <2>1 DEF PhaseTable
    <2>3. Promised!Move(r, "running", "ended")
      BY <1>3, <2>2, OneMoves, Zenon
    <2>4. outcome' = [outcome EXCEPT ![r] = outcome'[r]]
      BY <1>3, <1>6
    <2>5. Promised!End(r)
      BY <1>1, <1>4, <2>1, <2>3, <2>4, Zenon DEF Promised!End
    <2> QED
      BY <2>5, Zenon DEF Promised!MailboxNext, MailboxStep
  <1>8. CASE act'[r] # "finish"
    <2>1. outcome'[r] = outcome[r]
      BY <1>2, <1>8 DEF HandlerMove
    <2>2. UNCHANGED outcome
      BY <1>3, <1>6, <2>1
    <2>3. grant[r] => current = r
      BY DEF OwnerInv
    <2>4. \/ act[r] \in {"start", "run", "hold"} /\ act'[r] \in {"run", "yield", "hold"}
          \/ act[r] = "regrant" /\ current = r /\ act'[r] = "run"
          \/ act[r] = "wait" /\ act'[r] = "resume"
          \/ act[r] \in {"finish", "deliver"} /\ act'[r] \in {"deliver", "done"}
      BY <1>2, <1>8, <2>3 DEF HandlerMove, Completion
    <2>5. PhaseOf(r)' = PhaseOf(r)
      BY <1>1, <1>5, <2>4 DEF PhaseTable
    <2>6. UNCHANGED Phase
      BY <1>3, <2>5, NoneMoves, Zenon
    <2> QED
      BY <1>1, <1>4, <2>2, <2>6, Zenon DEF Promised!mailboxVars, MailboxStep
  <1> QED
    BY <1>7, <1>8, Zenon
-----------------------------------------------------------------------------
(* The refinement *)

\* A new runtime is an open, empty mailbox.
LEMMA InitMaps ==
  ASSUME Init
  PROVE  Promised!MailboxInit /\ UntoldInv
  <1>1. \A r \in Requests : PhaseOf(r) = "outside"
    BY DEF Init, PhaseOf
  <1>2. Phase = [r \in Requests |-> "outside"]
    BY <1>1, Zenon DEF Phase
  <1>3. ServiceState = "open" /\ UntoldInv
    BY DEF Init, ServiceState, UntoldInv
  <1> QED
    BY <1>2, <1>3, Zenon DEF Init, Promised!MailboxInit

\* Every step of the runtime is a step of the mailbox, or none.
LEMMA StepMaps ==
  ASSUME IInv, IInv', UntoldInv, Cardinality(suspended) \in Nat, [Next]_vars
  PROVE  MailboxStep
  <1>1. /\ TypeOK /\ PhaseInv /\ SlotAccounting /\ ReadyInv /\ OwnerInv /\ SuspendInv /\ PlacedInv
        /\ SessionInv /\ TypeOK' /\ PhaseInv'
    BY Zenon DEF IInv
  <1> QED
    BY <1>1, StepCases, QuietRefines, LoopRefines, ClientRefines, HandlerRefines, EnqueueRefines,
       EventRefines, Zenon

-----------------------------------------------------------------------------
(* The theorems *)

INSTANCE FiniteSetTheorems

\* CountingLaws is a fact about finite sets.
LEMMA Counting == CountingLaws
  <1>1. ASSUME NEW S, IsFiniteSet(S) PROVE Cardinality(S) \in Nat
    BY <1>1, FS_CardinalityType
  <1>2. ASSUME NEW S, IsFiniteSet(S), NEW T \in SUBSET S
        PROVE  IsFiniteSet(T) /\ Cardinality(T) <= Cardinality(S)
    BY <1>2, FS_Subset
  <1>3. ASSUME NEW S, IsFiniteSet(S), NEW x, x \notin S PROVE Cardinality(S \cup {x}) = Cardinality(S) + 1
    BY <1>3, FS_AddElement
  <1>4. ASSUME NEW S, IsFiniteSet(S), NEW x \in S PROVE Cardinality(S \ {x}) = Cardinality(S) - 1
    BY <1>4, FS_RemoveElement
  <1> QED
    BY <1>1, <1>2, <1>3, <1>4, Zenon DEF CountingLaws

\* IInv is an inductive invariant of the service runtime.
THEOREM Invariance == Spec => []IInv
  <1>1. Init => IInv
    BY FS_EmptySet, InitIInv, Zenon
  <1>2. IInv /\ [Next]_vars => IInv'
    BY Counting, IInvStep, Zenon
  <1> QED
    BY <1>1, <1>2, PTL DEF Spec

\* The variables keep their types in every run of serviceRuntime; in particular
\* the receives on rt.slots never take a token that is not there.
THEOREM TypeCorrect == Spec => []TypeOK
  BY Invariance, Consequences, PTL

\* At most one activation of a service runs handler code at any time, whatever the
\* callers, the waits and the stop do.
THEOREM MutualExclusion == Spec => []SingleSegment
  BY Invariance, Consequences, PTL

\* The mailbox never exceeds its size and no slot leaks.
THEOREM MailboxBounded == Spec => []SlotAccounting
  BY Invariance, Consequences, PTL

\* The suspended map holds exactly the waiting activations, at most MaxSuspended.
THEOREM SuspensionBounded == Spec => []SuspendedBound
  BY Invariance, Consequences, PTL

\* A NoYield section is never interleaved with another activation.
THEOREM NoYieldAtomic == Spec => []NoYieldIsAtomic
  BY Invariance, Consequences, PTL

\* After the purge only started activations are ready: no handler starts after
\* Service.Stop has been noticed.
THEOREM StopStartsNobody == Spec => []StopKeepsStarted
  BY Invariance, Consequences, PTL

\* The send on the one-place grant channel in schedule never blocks the loop.
THEOREM GrantHasRoom == Spec => []GrantNeverBlocks
  BY Invariance, Consequences, PTL

\* An admitted call has been answered or somebody still owes it the answer.
THEOREM CallsAnswered == Spec => []CallIsAnswered
  BY Invariance, Consequences, PTL

\* The loop does not close rt.done while an activation is alive.
THEOREM ExitIsClean == Spec => []ExitLeavesNothing
  BY Invariance, Consequences, PTL

\* What Call, Send and TrySend return agrees with what happened to the request.
THEOREM ResultsTruthful == Spec => []ResultIsTruthful
  BY Invariance, Consequences, PTL

\* A NoInterleave service runs one handler from start to end before the next.
THEOREM SerialExecution == Spec => []SerialHandlers
  BY Invariance, Consequences, PTL

\* MarkTurn and InterleavedSince tell a running handler exactly whether another
\* activation of its service has had a turn in between.
THEOREM InterleavingIsSeen == Spec => []InterleavedSinceExact
  BY Invariance, Consequences, PTL

\* Every behaviour of the runtime of a service is one of the mailbox in module
\* Mailbox, for every set of requests, mailbox size and suspension limit.
THEOREM RuntimeImplementsMailbox == Spec => MailboxImplemented
  <1>1. Init => Promised!MailboxInit /\ UntoldInv
    BY InitMaps, Zenon
  <1>2. IInv /\ UntoldInv /\ [Next]_vars => UntoldInv'
    BY UntoldStep, Zenon DEF IInv
  <1>3. IInv /\ IInv' /\ UntoldInv /\ [Next]_vars => [Promised!MailboxNext]_(Promised!mailboxVars)
    <2>1. IInv => Cardinality(suspended) \in Nat
      BY Counting, SuspendedFinite, Zenon DEF IInv
    <2> QED
      BY <2>1, StepMaps, Zenon DEF MailboxStep
  <1> QED
    BY <1>1, <1>2, <1>3, Invariance, PTL DEF Spec, MailboxImplemented, Promised!MailboxSpec
=============================================================================
