----------------------------- MODULE RedisQueue -----------------------------
(***************************************************************************)
(* timer/redisqueue.Queue: the timers of one user in four Redis            *)
(* structures, changed by plain commands, pipelines and Lua scripts.       *)
(*                                                                         *)
(* A call is a sequence of Redis commands.  Every command, every script    *)
(* and every pipeline is one step; the calls of different goroutines and   *)
(* processes interleave between steps, and a call may stop after any of    *)
(* its steps (an error, a timeout, a crash).  A record never changes under *)
(* its id, so of the record only its presence matters.  The deadline of a  *)
(* claim is both the score in Processing and the deadline in the meta      *)
(* field: it either lies ahead or has passed.                              *)
(***************************************************************************)
EXTENDS Naturals

CONSTANTS
    Tasks,    \* the business ids
    MaxIds,   \* how many timer ids the application issues for a business id
    Owners,   \* the engines that work on the queue, each with its own name
    None,
    Reuse     \* whether an id that was added before may be added again

ASSUME QueueAssumption ==
    /\ MaxIds \in Nat \ {0}
    /\ None \notin Owners \cup (Tasks \X (1..MaxIds))
    /\ Reuse \in BOOLEAN

Timers == Tasks \X (1..MaxIds)

VARIABLES
    pending,      \* keys.Pending: the members of the sorted set
    processing,   \* keys.Processing: the members of the sorted set
    expired,      \* the timers whose latest claim has passed its deadline
    data,         \* keys.Data: the timers that have a record
    holder,       \* keys.Data: the owner in the field "__processing__:<id>"
    index,        \* keys.Index: business id -> timer id
    issued,       \* how many ids of a business id are in use
    call,         \* the Add or Remove the application is in, per business id
    worker,       \* the CompleteProcessing call of an engine
    scan          \* the requeue or load pass of an engine

redis == <<pending, processing, expired, data, holder, index>>
queueVars == <<pending, processing, expired, data, holder, index,
               issued, call, worker, scan>>

Idle == [pc |-> "idle", id |-> None, old |-> None]
NoScan == [pc |-> "idle", ids |-> {}]

Init ==
    /\ pending = {} /\ processing = {} /\ expired = {} /\ data = {}
    /\ holder = [t \in Timers |-> None]
    /\ index = [k \in Tasks |-> None]
    /\ issued = [k \in Tasks |-> 0]
    /\ call = [k \in Tasks |-> Idle]
    /\ worker = [o \in Owners |-> None]
    /\ scan = [o \in Owners |-> NoScan]

-----------------------------------------------------------------------------
(* Add.  The application makes one call at a time for a business id. *)

IdsToAdd(k) ==
    { <<k, n>> : n \in IF Reuse THEN 1..MaxIds ELSE {issued[k] + 1} \cap 1..MaxIds }

\* HGET of the index finds the timer to replace, if there is one.
AddBegins(k, t) ==
    /\ call[k] = Idle
    /\ t \in IdsToAdd(k)
    /\ LET old == IF index[k] = t THEN None ELSE index[k]
       IN call' = [call EXCEPT ![k] =
              [pc |-> IF old = None THEN "put" ELSE "replace", id |-> t, old |-> old]]
    /\ issued' = [issued EXCEPT ![k] = IF t[2] > @ THEN t[2] ELSE @]
    /\ UNCHANGED <<redis, worker, scan>>

\* The first pipeline removes the replaced timer from all stores.
AddReplaces(k) ==
    /\ call[k].pc = "replace"
    /\ LET old == call[k].old
       IN /\ pending' = pending \ {old}
          /\ processing' = processing \ {old}
          /\ data' = data \ {old}
          /\ holder' = [holder EXCEPT ![old] = None]
    /\ call' = [call EXCEPT ![k].pc = "put"]
    /\ UNCHANGED <<expired, index, issued, worker, scan>>

\* The second pipeline writes the record; it leaves an old meta field alone.
AddPuts(k) ==
    /\ call[k].pc = "put"
    /\ LET t == call[k].id
       IN /\ pending' = pending \cup {t}
          /\ processing' = processing \ {t}
          /\ data' = data \cup {t}
          /\ index' = [index EXCEPT ![k] = t]
    /\ call' = [call EXCEPT ![k] = Idle]
    /\ UNCHANGED <<expired, holder, issued, worker, scan>>

-----------------------------------------------------------------------------
(* RemoveByBusinessID and RemoveByTimerID *)

\* TimerIDByBusinessID: the index names the timer.
RemoveBegins(k) ==
    /\ call[k] = Idle
    /\ index[k] # None
    /\ call' = [call EXCEPT ![k] = [pc |-> "find", id |-> index[k], old |-> None]]
    /\ UNCHANGED <<redis, issued, worker, scan>>

\* loadRecordByTimerID: old keeps the business id's timer when it was found.
RemoveFinds(k) ==
    /\ call[k].pc = "find"
    /\ call' = [call EXCEPT ![k] = [pc |-> "hdel", id |-> call[k].id,
                                    old |-> IF call[k].id \in data THEN call[k].id ELSE None]]
    /\ UNCHANGED <<redis, issued, worker, scan>>

RemoveDeletes(k) ==
    /\ call[k].pc = "hdel"
    /\ data' = data \ {call[k].id}
    /\ call' = [call EXCEPT ![k].pc = "zrem"]
    /\ UNCHANGED <<pending, processing, expired, holder, index, issued, worker, scan>>

\* The pipeline also clears the index, whatever timer it names by now.
RemoveCleans(k) ==
    /\ call[k].pc = "zrem"
    /\ pending' = pending \ {call[k].id}
    /\ processing' = processing \ {call[k].id}
    /\ index' = [index EXCEPT ![k] = IF call[k].old = None THEN @ ELSE None]
    /\ call' = [call EXCEPT ![k] = Idle]
    /\ UNCHANGED <<expired, data, holder, issued, worker, scan>>

CallStops(k) ==
    /\ call[k] # Idle
    /\ call' = [call EXCEPT ![k] = Idle]
    /\ UNCHANGED <<redis, issued, worker, scan>>

-----------------------------------------------------------------------------
(* The claim of an engine *)

\* ClaimForProcessing runs claimScript with success.
Claim(o, t) ==
    /\ t \in data
    /\ t \in pending
    /\ pending' = pending \ {t}
    /\ holder' = [holder EXCEPT ![t] = o]
    /\ processing' = processing \cup {t}
    /\ expired' = expired \ {t}
    /\ UNCHANGED <<data, index, issued, call, worker, scan>>

LeaseEnds(t) ==
    /\ t \in processing \ expired
    /\ expired' = expired \cup {t}
    /\ UNCHANGED <<pending, processing, data, holder, index, issued, call, worker, scan>>

\* CompleteProcessing loads the record for its business id.
CompleteBegins(o, t) ==
    /\ worker[o] = None
    /\ t \in data
    /\ worker' = [worker EXCEPT ![o] = t]
    /\ UNCHANGED <<redis, issued, call, scan>>

\* completeScript: nothing happens without a record or under another owner.
CompleteScript(o) ==
    LET t == worker[o]
        done == t \in data /\ holder[t] \in {None, o}
    IN /\ t # None
       /\ data' = IF done THEN data \ {t} ELSE data
       /\ holder' = IF done THEN [holder EXCEPT ![t] = None] ELSE holder
       /\ pending' = IF done THEN pending \ {t} ELSE pending
       /\ processing' = IF done THEN processing \ {t} ELSE processing
       /\ index' = IF done THEN [index EXCEPT ![t[1]] = IF @ = t THEN None ELSE @] ELSE index
       /\ worker' = [worker EXCEPT ![o] = None]
       /\ UNCHANGED <<expired, issued, call, scan>>

-----------------------------------------------------------------------------
(* The passes of an engine over the queue *)

\* RequeueExpiredProcessing: ZRANGEBYSCORE up to now.
RequeueBegins(o) ==
    /\ scan[o] = NoScan
    /\ processing \cap expired # {}
    /\ scan' = [scan EXCEPT ![o] = [pc |-> "requeue", ids |-> processing \cap expired]]
    /\ UNCHANGED <<redis, issued, call, worker>>

\* Next ids of the pass after t.
Rest(o, t) ==
    LET ids == scan[o].ids \ {t}
    IN IF ids = {} THEN NoScan ELSE [scan[o] EXCEPT !.ids = ids]

\* A plausible slip: the script trusts the range it was called for.
RequeueScriptUnchecked(o, t) ==
    /\ scan[o].pc = "requeue"
    /\ t \in scan[o].ids
    /\ IF t \in data /\ holder[t] # None
       THEN /\ holder' = [holder EXCEPT ![t] = None]
            /\ processing' = processing \ {t}
            /\ pending' = pending \cup {t}
       ELSE UNCHANGED <<pending, processing, holder>>
    /\ scan' = [scan EXCEPT ![o] = Rest(o, t)]
    /\ UNCHANGED <<expired, data, index, issued, call, worker>>

\* requeueProcessingTimer: requeueScript checks the record and the deadline
\* again.  The code compares with the time the pass began; here a claim that was
\* made and ran out within the pass counts as expired too.
RequeueScript(o, t) ==
    /\ scan[o].pc = "requeue"
    /\ t \in scan[o].ids
    /\ \/ /\ t \notin data
          /\ processing' = processing \ {t}
          /\ holder' = [holder EXCEPT ![t] = None]
          /\ UNCHANGED pending
       \/ /\ t \in data
          /\ holder[t] = None \/ t \notin expired
          /\ UNCHANGED <<pending, processing, holder>>
       \/ /\ t \in data
          /\ holder[t] # None /\ t \in expired
          /\ holder' = [holder EXCEPT ![t] = None]
          /\ processing' = processing \ {t}
          /\ pending' = pending \cup {t}
    /\ scan' = [scan EXCEPT ![o] = Rest(o, t)]
    /\ UNCHANGED <<expired, data, index, issued, call, worker>>

\* LoadActiveByUID and LoadWindowByUID range over the sorted sets; the window
\* holds any of the pending timers.
LoadBegins(o) ==
    /\ scan[o] = NoScan
    /\ \E ids \in (SUBSET pending) \cup {pending \cup processing} :
           /\ ids # {}
           /\ scan' = [scan EXCEPT ![o] = [pc |-> "load", ids |-> ids]]
    /\ UNCHANGED <<redis, issued, call, worker>>

\* LoadByTimerIDs: HMGET; only the ids without a record are left to do.
LoadReads(o) ==
    /\ scan[o].pc = "load"
    /\ scan' = [scan EXCEPT ![o] = IF scan[o].ids \subseteq data THEN NoScan
                                  ELSE [pc |-> "clean", ids |-> scan[o].ids \ data]]
    /\ UNCHANGED <<redis, issued, call, worker>>

LoadCleans(o, t) ==
    /\ scan[o].pc = "clean"
    /\ t \in scan[o].ids
    /\ pending' = pending \ {t}
    /\ processing' = processing \ {t}
    /\ scan' = [scan EXCEPT ![o] = Rest(o, t)]
    /\ UNCHANGED <<expired, data, holder, index, issued, call, worker>>

EngineStops(o) ==
    /\ worker[o] # None \/ scan[o] # NoScan
    /\ worker' = [worker EXCEPT ![o] = None]
    /\ scan' = [scan EXCEPT ![o] = NoScan]
    /\ UNCHANGED <<redis, issued, call>>

-----------------------------------------------------------------------------
Next ==
    \/ \E k \in Tasks :
          \/ \E t \in Timers : AddBegins(k, t)
          \/ AddReplaces(k) \/ AddPuts(k)
          \/ RemoveBegins(k) \/ RemoveFinds(k) \/ RemoveDeletes(k) \/ RemoveCleans(k)
          \/ CallStops(k)
    \/ \E t \in Timers : LeaseEnds(t)
    \/ \E o \in Owners :
          \/ \E t \in Timers :
                Claim(o, t) \/ CompleteBegins(o, t) \/ RequeueScript(o, t) \/ LoadCleans(o, t)
          \/ CompleteScript(o) \/ RequeueBegins(o) \/ LoadBegins(o) \/ LoadReads(o)
          \/ EngineStops(o)

Spec == Init /\ [][Next]_queueVars

-----------------------------------------------------------------------------
(* The ledger the four structures stand for.  A record in neither sorted set *)
(* is lost: no scan finds it again.                                          *)

LedgerEntry ==
    [t \in Timers |->
        IF t \notin data THEN "none"
        ELSE IF t \in pending THEN "pending"
        ELSE IF t \in processing THEN "leased" ELSE "lost"]

LedgerLease ==
    [t \in Timers |->
        IF LedgerEntry[t] = "leased"
        THEN [owner |-> holder[t], over |-> t \in expired] ELSE None]

Ledger == INSTANCE TimerLedger WITH entry <- LedgerEntry, lease <- LedgerLease

\* Whatever commands interleave and wherever calls break off, the queue is a
\* timer ledger: a task never has two timers that a reload would return, one
\* engine at a time holds a timer, a claimed timer comes back only after its
\* deadline, and a record is never stranded outside both sorted sets.
LedgerImplemented == Ledger!LedgerSpec
=============================================================================
