---------------------------- MODULE TimerEngine ----------------------------
(***************************************************************************)
(* timer/engine.Engine over its persistent queue: a hot window of timers   *)
(* in memory (inMem, byTask and the heap of timer.DelayQueue), goroutines  *)
(* that fire due timers by claim, handler and completion, the promotion    *)
(* loop that brings timers back from the queue, and a process that may     *)
(* crash and restart.                                                      *)
(*                                                                         *)
(* The queue is the ledger of module TimerLedger, which RedisQueue         *)
(* implements.  A due time is abstracted to where it lies: beyond the hot  *)
(* window, within it, or passed.  The heap and a loaded batch hold the due *)
(* time of the record as it was; "old" marks one that the record has left  *)
(* since.                                                                  *)
(***************************************************************************)
EXTENDS TimerLedger, Bags, FiniteSets

CONSTANTS
    Owner,       \* the name under which this engine claims
    MaxFires,    \* bound: goroutines that fire timers at the same time
    MaxFaults,   \* bound: failed queue operations, submissions and crashes
    MaxCalls     \* bound: calls of the application for a task

ASSUME EngineAssumption ==
    /\ Owner \in Owners
    /\ MaxFires \in Nat /\ MaxFaults \in Nat /\ MaxCalls \in Nat

VARIABLES
    due,      \* where the due time of the record lies: "cold", "hot" or "due"
    status,   \* the process: "up", "stopped" (Engine.Stop) or "down"
    inMem,    \* e.inMem: the timers with a snapshot
    byTask,   \* e.byTask
    heap,     \* e.delayQ: "out", "in" or "old"
    fires,    \* the goroutines past checkExpired: a bag of [at, id]
    promo,    \* the promotion loop: its position, its batch, the timer at hand
    call,     \* the call the application is in, per task
    calls,    \* how many calls it has made
    issued,   \* how many ids e.idGen has issued for the task
    faults,   \* how many faults have happened
    fate,     \* the promise about a timer: "none", "hot", "cold", "over" (kept or withdrawn)
    served    \* the timers handled under their current entry in the ledger

engineVars == <<ledgerVars, due, status, inMem, byTask, heap, fires, promo,
                call, calls, issued, faults, fate, served>>

memory == <<inMem, byTask, heap>>
book   == <<calls, issued>>

NoCall == [op |-> "none", pc |-> "idle", id |-> None]
Nothing == [t \in Timers |-> "out"]
Resting == [pc |-> "idle", batch |-> Nothing, id |-> None]

EngineInit ==
    /\ LedgerInit
    /\ due = [t \in Timers |-> "cold"]
    /\ status = "up"
    /\ inMem = {} /\ byTask = [k \in Tasks |-> None] /\ heap = Nothing
    /\ fires = EmptyBag
    /\ promo = Resting
    /\ call = [k \in Tasks |-> NoCall]
    /\ calls = [k \in Tasks |-> 0] /\ issued = [k \in Tasks |-> 0]
    /\ faults = 0
    /\ fate = [t \in Timers |-> "none"]
    /\ served = {}

\* One more operation fails; the bound keeps the faults of a run finite.
Fault == faults < MaxFaults /\ faults' = faults + 1

\* The outcome of an operation that may fail.
MayFail(ok) == (ok /\ UNCHANGED faults) \/ (~ok /\ Fault)

\* A goroutine of the bag goes on, another one starts.
At(pc, t) == SetToBag({[at |-> pc, id |-> t]})
Goes(pc, t, next) == (fires (-) At(pc, t)) (+) At(next, t)
Spawn(S) == fires (+) SetToBag({[at |-> "callback", id |-> t] : t \in S})
IsAt(pc, t) == BagIn([at |-> pc, id |-> t], fires)
Room(n) == BagCardinality(fires) + n <= MaxFires

\* The lease under which a goroutine is about to call the handler is gone.
TooLate(t) == IF IsAt("handle", t) THEN Goes("handle", t, "late") ELSE fires

OfTask(k) == {t \in Timers : TaskOf(t) = k}

\* Promises about the timers of a task are withdrawn.
Released(k) ==
    [t \in Timers |-> IF TaskOf(t) = k /\ fate[t] \in {"hot", "cold"} THEN "over" ELSE fate[t]]

-----------------------------------------------------------------------------
(* Add and Reschedule *)

\* EnsureTimerID: the id byTask holds, or the next one of the generator.
EnsureTimerID(k) == IF byTask[k] # None THEN byTask[k] ELSE <<k, issued[k] + 1>>

\* What the index of the queue names for the task, if it is not t.
Others(k, t) == {u \in OfTask(k) \ {t} : entry[u] # "none"}

\* Queue.Add reads the index before anything else.
FirstStep(k, t) == IF Others(k, t) = {} THEN "put" ELSE "replace"

CallBegins(k, op, pc, t) ==
    /\ status # "down"
    /\ call[k] = NoCall
    /\ calls[k] < MaxCalls
    /\ calls' = [calls EXCEPT ![k] = @ + 1]
    /\ call' = [call EXCEPT ![k] = [op |-> op, pc |-> pc, id |-> t]]

\* The promise of Add is about an id it is the first to use.
AddBegins(k) ==
    LET t == EnsureTimerID(k)
    IN /\ t \in Timers
       /\ CallBegins(k, IF t[2] > issued[k] THEN "add" ELSE "readd", FirstStep(k, t), t)
       /\ issued' = [issued EXCEPT ![k] = IF t[2] > @ THEN t[2] ELSE @]
       /\ fate' = Released(k)
       /\ UNCHANGED <<ledgerVars, due, status, memory, fires, promo, faults, served>>

\* The application reschedules the task's latest timer.
RescheduleBegins(k) ==
    /\ issued[k] > 0
    /\ CallBegins(k, "reschedule", FirstStep(k, <<k, issued[k]>>), <<k, issued[k]>>)
    /\ fate' = Released(k)
    /\ UNCHANGED <<ledgerVars, due, status, memory, fires, promo, issued, faults, served>>

\* Queue.Add, first part: the timer that the index named is removed.
Replace(k) ==
    /\ call[k].pc = "replace"
    /\ LET others == Others(k, call[k].id)
       IN IF others = {} THEN UNCHANGED ledgerVars ELSE \E u \in others : Drop(u)
    /\ call' = [call EXCEPT ![k].pc = "put"]
    /\ UNCHANGED <<due, status, memory, fires, promo, book, faults, fate, served>>

\* A record written again under its id: the ledger forgets the lease.
Renew(t) == entry[t] # "none" /\ Set(t, "pending", None)

Older(place, t) == [place EXCEPT ![t] = IF @ = "in" THEN "old" ELSE @]

\* Queue.Add, second part: the record is written with its due time.  An error
\* may hide that it was.
WriteRecord(k) ==
    LET t == call[k].id
    IN /\ call[k].pc = "put"
       /\ Put(t) \/ Renew(t)
       /\ \E d \in {"cold", "hot"} : due' = [due EXCEPT ![t] = d]
       /\ heap' = Older(heap, t)
       /\ promo' = [promo EXCEPT !.batch = Older(@, t)]
       /\ fires' = TooLate(t)
       /\ served' = served \ {t}
       /\ \E ok \in BOOLEAN :
             /\ MayFail(ok)
             /\ call' = [call EXCEPT ![k] = IF ok THEN [@ EXCEPT !.pc = "register"] ELSE NoCall]
       /\ UNCHANGED <<status, inMem, byTask, book, fate>>

\* The application learns that the timer is added.
Promise(t, d) ==
    fate' = [fate EXCEPT ![t] = IF @ = "none" THEN d ELSE @]

\* Add within the hot window, Reschedule within it: the maps, then the heap.
Register(k) ==
    LET t == call[k].id
    IN /\ call[k].pc = "register"
       /\ due[t] # "cold"
       /\ inMem' = inMem \cup {t}
       /\ byTask' = [byTask EXCEPT ![k] = t]
       /\ call' = [call EXCEPT ![k].pc = "arm"]
       /\ UNCHANGED <<ledgerVars, due, status, heap, fires, promo, book, faults, fate, served>>

Arm(k) ==
    LET t == call[k].id
    IN /\ call[k].pc = "arm"
       /\ heap' = [heap EXCEPT ![t] = "in"]
       /\ IF call[k].op = "add" THEN Promise(t, "hot") ELSE UNCHANGED fate
       /\ call' = [call EXCEPT ![k] = NoCall]
       /\ UNCHANGED <<ledgerVars, due, status, inMem, byTask, fires, promo, book, faults, served>>

\* Add beyond the hot window notes the id only.
AddCold(k) ==
    LET t == call[k].id
    IN /\ call[k].pc = "register"
       /\ call[k].op # "reschedule"
       /\ due[t] = "cold"
       /\ byTask' = [byTask EXCEPT ![k] = t]
       /\ IF call[k].op = "add" THEN Promise(t, "cold") ELSE UNCHANGED fate
       /\ call' = [call EXCEPT ![k] = NoCall]
       /\ UNCHANGED <<ledgerVars, due, status, inMem, heap, fires, promo, book, faults, served>>

\* Reschedule beyond it: delayQ.Remove, then the snapshot goes.
Disarm(k) ==
    /\ call[k].pc = "register"
    /\ call[k].op = "reschedule"
    /\ due[call[k].id] = "cold"
    /\ heap' = [heap EXCEPT ![call[k].id] = "out"]
    /\ call' = [call EXCEPT ![k].pc = "unregister"]
    /\ UNCHANGED <<ledgerVars, due, status, inMem, byTask, fires, promo, book, faults, fate, served>>

Unregister(k) ==
    /\ call[k].pc = "unregister"
    /\ inMem' = inMem \ {call[k].id}
    /\ byTask' = [byTask EXCEPT ![k] = call[k].id]
    /\ call' = [call EXCEPT ![k] = NoCall]
    /\ UNCHANGED <<ledgerVars, due, status, heap, fires, promo, book, faults, fate, served>>

-----------------------------------------------------------------------------
(* Cancel and Forget *)

\* forgetTask deletes both map entries of the task.
ForgetTask(k) ==
    /\ byTask' = [byTask EXCEPT ![k] = None]
    /\ inMem' = inMem \ {byTask[k]}

CancelBegins(k) ==
    /\ CallBegins(k, "cancel", IF byTask[k] = None THEN "remove" ELSE "disarm", byTask[k])
    /\ ForgetTask(k)
    /\ fate' = Released(k)
    /\ UNCHANGED <<ledgerVars, due, status, heap, fires, promo, issued, faults, served>>

CancelDisarms(k) ==
    /\ call[k].pc = "disarm"
    /\ heap' = [t \in Timers |-> IF t = call[k].id THEN "out" ELSE heap[t]]
    /\ call' = [call EXCEPT ![k].pc = "remove"]
    /\ UNCHANGED <<ledgerVars, due, status, inMem, byTask, fires, promo, book, faults, fate, served>>

\* Queue.Remove takes the timer that the index names for the task.
CancelRemoves(k) ==
    /\ call[k].pc = "remove"
    /\ IF \E t \in OfTask(k) : entry[t] # "none"
       THEN \E t \in OfTask(k) : Drop(t) ELSE UNCHANGED ledgerVars
    /\ call' = [call EXCEPT ![k] = NoCall]
    /\ UNCHANGED <<due, status, memory, fires, promo, book, faults, fate, served>>

Forget(k) ==
    /\ CallBegins(k, "none", "idle", None)
    /\ ForgetTask(k)
    /\ UNCHANGED <<ledgerVars, due, status, heap, fires, promo, issued, faults, fate, served>>

\* A queue operation of a call fails before it has an effect.
CallFails(k) ==
    /\ call[k].pc \in {"replace", "put", "remove"}
    /\ Fault
    /\ call' = [call EXCEPT ![k] = NoCall]
    /\ UNCHANGED <<ledgerVars, due, status, memory, fires, promo, book, fate, served>>

-----------------------------------------------------------------------------
(* Firing *)

\* DelayQueue.checkExpired pops every entry whose time has come and starts a
\* goroutine for each.  An old entry may be due at any time.
CheckExpired ==
    /\ status = "up"
    /\ \E early \in SUBSET {t \in Timers : heap[t] = "old"} :
          LET expired == early \cup {t \in Timers : heap[t] = "in" /\ due[t] = "due"}
          IN /\ expired # {}
             /\ Room(Cardinality(expired))
             /\ heap' = [t \in Timers |-> IF t \in expired THEN "out" ELSE heap[t]]
             /\ fires' = Spawn(expired)
    /\ UNCHANGED <<ledgerVars, due, status, inMem, byTask, promo, call, book, faults, fate, served>>

\* A plausible slip: byTask keeps the id of the timer that fires.
OnDelayTimerFireKeepsTask(t) ==
    /\ IsAt("callback", t)
    /\ inMem' = inMem \ {t}
    /\ \E ok \in BOOLEAN :
          /\ MayFail(ok)
          /\ fires' = IF ok /\ t \in inMem THEN Goes("callback", t, "claim")
                      ELSE fires (-) At("callback", t)
    /\ UNCHANGED <<ledgerVars, due, status, byTask, heap, promo, call, book, fate, served>>

\* onDelayTimerFire: the snapshot leaves memory and is handed on, to a goroutine
\* or through fireSubmit to the owner's mailbox; a failed submission ends here.
OnDelayTimerFire(t) ==
    /\ IsAt("callback", t)
    /\ IF t \in inMem
       THEN /\ inMem' = inMem \ {t}
            /\ byTask' = [byTask EXCEPT ![TaskOf(t)] = None]
            /\ \E ok \in BOOLEAN :
                  /\ MayFail(ok)
                  /\ fires' = IF ok THEN Goes("callback", t, "claim") ELSE fires (-) At("callback", t)
       ELSE /\ fires' = fires (-) At("callback", t)
            /\ UNCHANGED <<inMem, byTask, faults>>
    /\ UNCHANGED <<ledgerVars, due, status, heap, promo, call, book, fate, served>>

\* A plausible slip: the answer of ClaimForProcessing is not looked at.
ClaimUnchecked(t) ==
    /\ IsAt("claim", t)
    /\ IF entry[t] = "pending" THEN Lease(t, Owner) ELSE UNCHANGED ledgerVars
    /\ fires' = Goes("claim", t, "handle")
    /\ UNCHANGED <<due, status, memory, promo, call, book, faults, fate, served>>

\* doFire, first part: only a successful claim leads to the handler.  An error
\* may come before or after the claim took effect.
Claim(t) ==
    /\ IsAt("claim", t)
    /\ \/ /\ Lease(t, Owner)
          /\ \E ok \in BOOLEAN :
                /\ MayFail(ok)
                /\ fires' = IF ok THEN Goes("claim", t, "handle") ELSE fires (-) At("claim", t)
       \/ /\ UNCHANGED ledgerVars
          /\ IF entry[t] = "pending" THEN Fault ELSE UNCHANGED faults
          /\ fires' = fires (-) At("claim", t)
    /\ UNCHANGED <<due, status, memory, promo, call, book, fate, served>>

\* The handler runs; a goroutine whose lease is gone runs it all the same.
Handle(t) ==
    /\ \E pc \in {"handle", "late"} :
          /\ IsAt(pc, t)
          /\ fires' = Goes(pc, t, "complete")
          /\ served' = IF pc = "handle" THEN served \cup {t} ELSE served
    /\ fate' = [fate EXCEPT ![t] = "over"]
    /\ UNCHANGED <<ledgerVars, due, status, memory, promo, call, book, faults>>

\* doFire, last part: CompleteProcessing, whose answer and error are ignored.
Complete(t) ==
    /\ IsAt("complete", t)
    /\ fires' = fires (-) At("complete", t)
    /\ \/ Finish(t, Owner) /\ UNCHANGED faults
       \/ UNCHANGED ledgerVars /\ (IF entry[t] = "none" THEN UNCHANGED faults ELSE Fault)
    /\ UNCHANGED <<due, status, memory, promo, call, book, fate, served>>

-----------------------------------------------------------------------------
(* The promotion loop *)

\* promoteFromRedis: RequeueExpiredProcessing ranges over the ended leases.
PromotionBegins ==
    LET ended == {t \in Timers : entry[t] = "leased" /\ lease[t].over}
    IN /\ status = "up"
       /\ promo = Resting
       /\ promo' = [promo EXCEPT
              !.pc = IF ended = {} THEN "load" ELSE "requeue",
              !.batch = [t \in Timers |-> IF t \in ended THEN "in" ELSE "out"]]
       /\ UNCHANGED <<ledgerVars, due, status, memory, fires, call, book, faults, fate, served>>

\* One timer is given back if its lease has still ended; an error ends the range.
Requeue(t) ==
    /\ promo.pc = "requeue"
    /\ promo.batch[t] # "out"
    /\ IF entry[t] = "leased" /\ lease[t].over THEN Return(t) ELSE UNCHANGED ledgerVars
    /\ LET left == [promo.batch EXCEPT ![t] = "out"]
       IN promo' = [promo EXCEPT !.batch = left, !.pc = IF left = Nothing THEN "load" ELSE "requeue"]
    /\ UNCHANGED <<due, status, memory, fires, call, book, faults, fate, served>>

RequeueFails ==
    /\ promo.pc = "requeue"
    /\ Fault
    /\ promo' = [promo EXCEPT !.pc = "load", !.batch = Nothing]
    /\ UNCHANGED <<ledgerVars, due, status, memory, fires, call, book, fate, served>>

\* LoadAllInWindow, for a pass or for RestoreHotZone.
LoadWindow ==
    /\ promo.pc = "load"
    /\ \E ok \in BOOLEAN :
          /\ MayFail(ok)
          /\ LET loaded == {t \in Timers : ok /\ entry[t] = "pending" /\ due[t] # "cold"}
             IN promo' = IF loaded = {} THEN Resting
                         ELSE [promo EXCEPT !.pc = "promote",
                                  !.batch = [t \in Timers |-> IF t \in loaded THEN "in" ELSE "out"]]
    /\ UNCHANGED <<ledgerVars, due, status, memory, fires, call, book, fate, served>>

\* The batch goes on without t.
Done(t) ==
    LET left == [promo.batch EXCEPT ![t] = "out"]
    IN IF left = Nothing THEN Resting ELSE [pc |-> "promote", batch |-> left, id |-> None]

\* promoteRecords skips a record whose task byTask knows; another one enters
\* the maps.
PromoteRecord(t) ==
    /\ promo.pc = "promote"
    /\ promo.batch[t] # "out"
    /\ IF byTask[TaskOf(t)] # None
       THEN promo' = Done(t) /\ UNCHANGED <<inMem, byTask>>
       ELSE /\ inMem' = inMem \cup {t}
            /\ byTask' = [byTask EXCEPT ![TaskOf(t)] = t]
            /\ promo' = [promo EXCEPT !.pc = "arm", !.id = t]
    /\ UNCHANGED <<ledgerVars, due, status, heap, fires, call, book, faults, fate, served>>

\* ... and then the heap, or fires at once if its time had come when the pass
\* read the clock.
PromotedIsArmed ==
    LET t == promo.id
        snapshot == promo.batch[t]
    IN /\ promo.pc = "arm"
       /\ \/ heap' = [heap EXCEPT ![t] = snapshot] /\ UNCHANGED fires
          \/ /\ snapshot = "old" \/ due[t] = "due"
             /\ Room(1)
             /\ fires' = Spawn({t})
             /\ UNCHANGED heap
       /\ promo' = Done(t)
       /\ UNCHANGED <<ledgerVars, due, status, inMem, byTask, call, book, faults, fate, served>>

-----------------------------------------------------------------------------
(* Time, and the process *)

TimePasses(t) ==
    /\ entry[t] # "none" \/ heap[t] = "in" \/ promo.batch[t] = "in"
    /\ due[t] # "due"
    /\ due' = [due EXCEPT ![t] = IF @ = "cold" THEN "hot" ELSE "due"]
    /\ UNCHANGED <<ledgerVars, status, memory, fires, promo, call, book, faults, fate, served>>

DeadlinePasses(t) ==
    /\ LeaseEnds(t)
    /\ fires' = TooLate(t)
    /\ served' = served \ {t}
    /\ UNCHANGED <<due, status, memory, promo, call, book, faults, fate>>

\* Stop closes the channels of the loop and of the heap.  A tick taken after the
\* close is one that came before it.
Stop ==
    /\ status = "up"
    /\ Fault
    /\ status' = "stopped"
    /\ UNCHANGED <<ledgerVars, due, memory, fires, promo, call, book, fate, served>>

\* The memory of the process is gone.
Gone ==
    /\ status' = "down"
    /\ inMem' = {} /\ byTask' = [k \in Tasks |-> None] /\ heap' = Nothing
    /\ fires' = EmptyBag
    /\ promo' = Resting
    /\ call' = [k \in Tasks |-> NoCall]
    /\ UNCHANGED <<ledgerVars, due, book, fate, served>>

Crash == status = "up" /\ Fault /\ Gone

\* The process ends some time after Stop.
Exit == status = "stopped" /\ Gone /\ UNCHANGED faults

\* The new process restores the hot zone before its loop starts.
Restart ==
    /\ status = "down"
    /\ status' = "up"
    /\ promo' = [promo EXCEPT !.pc = "load"]
    /\ UNCHANGED <<ledgerVars, due, memory, fires, call, book, faults, fate, served>>

-----------------------------------------------------------------------------
CallGoesOn(k) ==
    \/ Replace(k) \/ WriteRecord(k) \/ Register(k) \/ Arm(k) \/ AddCold(k)
    \/ Disarm(k) \/ Unregister(k) \/ CancelDisarms(k) \/ CancelRemoves(k)

FireGoesOn(t) == OnDelayTimerFire(t) \/ Claim(t) \/ Handle(t) \/ Complete(t)

PromotionGoesOn ==
    \/ PromotionBegins \/ LoadWindow \/ PromotedIsArmed
    \/ \E t \in Timers : Requeue(t) \/ PromoteRecord(t)

EngineNext ==
    \/ \E k \in Tasks :
          \/ AddBegins(k) \/ RescheduleBegins(k) \/ CancelBegins(k) \/ Forget(k)
          \/ CallGoesOn(k) \/ CallFails(k)
    \/ \E t \in Timers : FireGoesOn(t) \/ TimePasses(t) \/ DeadlinePasses(t)
    \/ CheckExpired \/ PromotionGoesOn \/ RequeueFails
    \/ Stop \/ Crash \/ Exit \/ Restart

\* The tickers keep ticking, goroutines and calls go on, time passes, and the
\* process is started again.  Nothing forces a call, a fault or a stop.
EngineFairness ==
    /\ \A k \in Tasks : WF_engineVars(CallGoesOn(k))
    /\ WF_engineVars(\E t \in Timers : FireGoesOn(t))
    /\ WF_engineVars(\E t \in Timers : TimePasses(t) \/ DeadlinePasses(t))
    /\ WF_engineVars(CheckExpired) /\ WF_engineVars(PromotionGoesOn)
    /\ WF_engineVars(Exit \/ Restart)

EngineSpec == EngineInit /\ [][EngineNext]_engineVars /\ EngineFairness

-----------------------------------------------------------------------------
\* doFire: once the handler has run for a timer, no other run that holds a lease
\* happens until the lease has ended or the application has written the record
\* again, whatever claims, completions and submissions fail and wherever the
\* process crashes.
HandledOnce ==
    [][\A t \in Timers : IsAt("handle", t) /\ fires' = Goes("handle", t, "complete")
           => t \notin served]_engineVars

\* Add within the hot window, with a new id: the handler runs, unless the
\* application cancels, adds or reschedules the task again; neither a failed
\* claim, a failed completion, a lost submission nor a crash loses the timer.
HotTaskHandled ==
    \A t \in Timers : (fate[t] = "hot") ~> (fate[t] # "hot")

\* The same for a timer that was added before it came into the hot window.
ColdTaskHandled ==
    \A t \in Timers : (fate[t] = "cold") ~> (fate[t] # "cold")
=============================================================================
