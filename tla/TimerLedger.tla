---------------------------- MODULE TimerLedger ----------------------------
(***************************************************************************)
(* What timer/engine may rely on in its persistent queue (engine.Queue): a *)
(* ledger with at most one timer per task, where a due timer is taken      *)
(* under a lease, and where only the end of the lease gives it back.       *)
(*                                                                         *)
(* RedisQueue implements this specification; TimerEngine is built on it.   *)
(***************************************************************************)
EXTENDS Naturals

CONSTANTS
    Tasks,    \* the business ids of the records
    MaxIds,   \* how many timer ids are issued for one task
    Owners,   \* the engines that claim timers
    None      \* "no timer", "no lease"

ASSUME LedgerAssumption ==
    /\ MaxIds \in Nat \ {0}
    /\ None \notin Owners \cup (Tasks \X (1..MaxIds))

\* A timer id is issued for one task, and the ids of a task are distinct.
Timers == Tasks \X (1..MaxIds)

TaskOf(t) == t[1]

VARIABLES
    entry,   \* [Timers -> "none" | "pending" | "leased"]
    lease    \* [Timers -> None or the owner of the lease and whether it is over]

ledgerVars == <<entry, lease>>

LedgerInit ==
    /\ entry = [t \in Timers |-> "none"]
    /\ lease = [t \in Timers |-> None]

Set(t, state, held) ==
    /\ entry' = [entry EXCEPT ![t] = state]
    /\ lease' = [lease EXCEPT ![t] = held]

\* Queue.Add writes the record of a new timer, once no other timer of the task
\* is left.
Put(t) ==
    /\ entry[t] = "none"
    /\ \A u \in Timers \ {t} : TaskOf(u) = TaskOf(t) => entry[u] = "none"
    /\ Set(t, "pending", None)

\* Queue.Remove, and Queue.Add for the timer it replaces.
Drop(t) ==
    /\ entry[t] # "none"
    /\ Set(t, "none", None)

\* Queue.ClaimForProcessing answers true.
Lease(t, o) ==
    /\ entry[t] = "pending"
    /\ Set(t, "leased", [owner |-> o, over |-> FALSE])

\* The deadline of the lease passes.
LeaseEnds(t) ==
    /\ entry[t] = "leased"
    /\ ~lease[t].over
    /\ Set(t, "leased", [owner |-> lease[t].owner, over |-> TRUE])

\* Queue.RequeueExpiredProcessing gives the timer back.
Return(t) ==
    /\ entry[t] = "leased"
    /\ lease[t].over
    /\ Set(t, "pending", None)

\* Queue.CompleteProcessing answers true: for the holder of the lease, or for
\* anybody while nobody has claimed the timer.
Finish(t, o) ==
    /\ entry[t] # "none"
    /\ entry[t] = "leased" => lease[t].owner = o
    /\ Set(t, "none", None)

LedgerNext ==
    \E t \in Timers :
        \/ Put(t) \/ Drop(t) \/ LeaseEnds(t) \/ Return(t)
        \/ \E o \in Owners : Lease(t, o) \/ Finish(t, o)

LedgerSpec == LedgerInit /\ [][LedgerNext]_ledgerVars
=============================================================================
