-------------------------- MODULE RedisQueueProofs --------------------------
(***************************************************************************)
(* The Redis queue of the timers keeps a timer until it is acknowledged,   *)
(* for every number of timers and engines: it implements TimerLedger, as   *)
(* long as an id is added once.                                            *)
(***************************************************************************)
EXTENDS Integers, RedisQueue, TLAPS

-----------------------------------------------------------------------------
(* The inductive invariant: which timers each pass and each call may still   *)
(* touch (Known, CallInv, CleanInv), and how the four structures agree on    *)
(* the timers that have a record (Placed, Indexed).                          *)

TypeInv ==
    /\ pending \in SUBSET Timers /\ processing \in SUBSET Timers
    /\ expired \in SUBSET Timers /\ data \in SUBSET Timers
    /\ holder \in [Timers -> Owners \cup {None}]
    /\ index \in [Tasks -> Timers \cup {None}]
    /\ issued \in [Tasks -> Nat]
    /\ call \in [Tasks -> [pc : {"idle", "replace", "put", "find", "hdel", "zrem"},
                           id : Timers \cup {None}, old : Timers \cup {None}]]
    /\ worker \in [Owners -> Timers \cup {None}]
    /\ scan \in [Owners -> [pc : {"idle", "requeue", "load", "clean"}, ids : SUBSET Timers]]

\* The call of a business id works on a timer of it, and so does the index; what
\* an Add writes is issued.
OwnTimers ==
    \A k \in Tasks :
        /\ call[k].pc # "idle" => call[k].id \in Timers /\ call[k].id[1] = k
        /\ call[k].pc = "replace" => call[k].old \in Timers
        /\ call[k].pc \in {"replace", "put"} => call[k].id[2] <= issued[k]
        /\ index[k] # None => index[k][1] = k

\* t was written at some time: it is issued, and no Add is about to write it.
Seen(t) ==
    /\ t[2] <= issued[t[1]]
    /\ call[t[1]].pc \in {"replace", "put"} => call[t[1]].id # t

\* Whatever is stored or listed for a pass was written before.
Known ==
    /\ \A t \in data \cup pending \cup processing : Seen(t)
    /\ \A t \in Timers : holder[t] # None => Seen(t)
    /\ \A o \in Owners : \A t \in scan[o].ids : Seen(t)

\* A record is in exactly one of the sorted sets, and just a claimed one has a
\* holder.
Placed ==
    \A t \in data :
        /\ t \in pending <=> t \notin processing
        /\ t \in processing <=> holder[t] # None

Indexed == \A t \in data : index[t[1]] = t

\* What a call has read still bounds the records of its business id.
CallInv ==
    \A k \in Tasks, t \in data :
        t[1] = k =>
            /\ call[k].pc = "replace" => t = call[k].old
            /\ call[k].pc \in {"find", "hdel"} => t = call[k].id
            /\ call[k].pc \notin {"put", "zrem"}

\* The ids a load is about to clean have no record.
CleanInv ==
    \A o \in Owners : scan[o].pc = "clean" => scan[o].ids \cap data = {}

QInv == TypeInv /\ OwnTimers /\ Known /\ Placed /\ Indexed /\ CallInv /\ CleanInv

-----------------------------------------------------------------------------
\* A timer is the pair of its business id and a number, and never None.
LEMMA TimerParts ==
  /\ \A t \in Timers : t[1] \in Tasks /\ t[2] \in Nat
  /\ None \notin Timers /\ None \notin Owners
  BY QueueAssumption DEF Timers

\* The initial state of the queue satisfies the invariant.
LEMMA InitQInv == Init => QInv
  BY QueueAssumption DEF Init, QInv, TypeInv, OwnTimers, Known, Placed, Indexed, CallInv,
     CleanInv, Idle, NoScan, Timers, Seen

\* The invariant is about the four structures, the calls and the passes.
LEMMA FrameKeeps ==
  ASSUME QInv, TypeInv', UNCHANGED <<redis, issued, call, scan>>
  PROVE  QInv'
  <1>1. /\ OwnTimers /\ Known /\ Placed /\ Indexed /\ CallInv /\ CleanInv
    BY Zenon DEF QInv
  <1>2. UNCHANGED <<pending, processing, expired, data, holder, index>>
    BY Zenon DEF redis
  <1>3. OwnTimers' /\ Known' /\ Placed'
    BY <1>1, <1>2, Zenon DEF OwnTimers, Known, Seen, Placed
  <1>4. Indexed' /\ CallInv' /\ CleanInv'
    BY <1>1, <1>2, Zenon DEF Indexed, CallInv, CleanInv
  <1> QED BY <1>3, <1>4, Zenon DEF QInv

\* The steps of an Add keep the invariant when its id is new.
LEMMA AddKeeps ==
  ASSUME Reuse = FALSE, QInv, NEW k \in Tasks, NEW t \in Timers,
         AddBegins(k, t) \/ AddReplaces(k) \/ AddPuts(k)
  PROVE  QInv'
  <1> USE QueueAssumption DEF QInv, TypeInv, Timers, redis
  <1>1. CASE AddBegins(k, t)
    <2>1. TypeInv' /\ OwnTimers'
      BY <1>1 DEF AddBegins, IdsToAdd, Idle, OwnTimers
    <2>2. Known'
      BY <1>1 DEF AddBegins, IdsToAdd, Idle, Known, Seen
    <2>3. Placed' /\ Indexed' /\ CleanInv'
      BY <1>1 DEF AddBegins, Placed, Indexed, CleanInv
    <2>4. CallInv'
      <3>1. call' = [call EXCEPT ![k] = call'[k]] /\ UNCHANGED data
        BY <1>1 DEF AddBegins
      <3>2. /\ call'[k].pc \in {"replace", "put"}
            /\ call'[k].pc = "put" => index[k] \in {None, t}
            /\ call'[k].pc = "replace" => call'[k].old = index[k]
        BY <1>1 DEF AddBegins
      <3>3. t \notin data
        BY <1>1 DEF AddBegins, IdsToAdd, Known, Seen
      <3> QED BY <3>1, <3>2, <3>3 DEF CallInv, Indexed
    <2> QED BY <2>1, <2>2, <2>3, <2>4
  <1>2. CASE AddReplaces(k)
    <2>1. TypeInv' /\ OwnTimers'
      BY <1>2 DEF AddReplaces, OwnTimers
    <2>2. Known'
      BY <1>2 DEF AddReplaces, Known, Seen
    <2>3. Placed' /\ Indexed' /\ CleanInv'
      BY <1>2 DEF AddReplaces, Placed, Indexed, CleanInv
    <2>4. CallInv'
      BY <1>2 DEF AddReplaces, CallInv
    <2> QED BY <2>1, <2>2, <2>3, <2>4
  <1>3. CASE AddPuts(k)
    <2>1. TypeInv' /\ OwnTimers'
      BY <1>3 DEF AddPuts, OwnTimers, Idle
    <2>2. Known'
      BY <1>3 DEF AddPuts, Known, Seen, Idle, OwnTimers
    <2>3. holder[call[k].id] = None
      BY <1>3 DEF AddPuts, OwnTimers, Known, Seen
    <2>6. Placed' /\ Indexed'
      BY <1>3, <2>3 DEF AddPuts, Placed, Indexed, OwnTimers, CallInv
    <2>4. CleanInv'
      BY <1>3 DEF AddPuts, CleanInv, Known, Seen, OwnTimers
    <2>5. CallInv'
      BY <1>3 DEF AddPuts, CallInv, Idle, OwnTimers
    <2> QED BY <2>1, <2>2, <2>4, <2>5, <2>6
  <1> QED BY <1>1, <1>2, <1>3, Zenon

\* The steps of a Remove keep the invariant: only the timer the index named can
\* have a record while the call runs.  So does a call that breaks off.
LEMMA RemoveKeeps ==
  ASSUME QInv, NEW k \in Tasks,
         RemoveBegins(k) \/ RemoveFinds(k) \/ RemoveDeletes(k) \/ RemoveCleans(k) \/ CallStops(k)
  PROVE  QInv'
  <1> USE TimerParts DEF QInv, TypeInv, redis
  <1>1. CASE RemoveBegins(k)
    <2>1. TypeInv' /\ OwnTimers'
      BY <1>1 DEF RemoveBegins, OwnTimers
    <2>2. Known' /\ Placed' /\ Indexed' /\ CleanInv'
      BY <1>1 DEF RemoveBegins, Known, Seen, Placed, Indexed, CleanInv
    <2>3. CallInv'
      BY <1>1 DEF RemoveBegins, CallInv, Indexed
    <2> QED BY <2>1, <2>2, <2>3
  <1>2. CASE RemoveFinds(k)
    <2>0. /\ call' = [call EXCEPT ![k] = call'[k]]
          /\ call'[k].pc = "hdel" /\ call'[k].id = call[k].id
          /\ call'[k] \in [pc : {"hdel"}, id : Timers \cup {None}, old : Timers \cup {None}]
      BY <1>2 DEF RemoveFinds
    <2>1. TypeInv' /\ OwnTimers'
      BY <1>2, <2>0 DEF RemoveFinds, OwnTimers
    <2>2. Known' /\ Placed' /\ Indexed' /\ CleanInv'
      BY <1>2 DEF RemoveFinds, Known, Seen, Placed, Indexed, CleanInv
    <2>3. CallInv'
      BY <1>2 DEF RemoveFinds, CallInv
    <2> QED BY <2>1, <2>2, <2>3
  <1>3. CASE RemoveDeletes(k)
    <2>0. /\ call' = [call EXCEPT ![k] = call'[k]]
          /\ call'[k].pc = "zrem" /\ call'[k].id = call[k].id
          /\ call'[k] \in [pc : {"zrem"}, id : Timers \cup {None}, old : Timers \cup {None}]
      <3>1. call' = [call EXCEPT ![k].pc = "zrem"]
        BY <1>3, Zenon DEF RemoveDeletes
      <3>2. call \in [Tasks -> [pc : {"idle", "replace", "put", "find", "hdel", "zrem"},
                                id : Timers \cup {None}, old : Timers \cup {None}]]
        BY Zenon
      <3> HIDE DEF QInv, TypeInv, Timers
      <3> QED BY <3>1, <3>2
    <2>4. /\ data' = data \ {call[k].id} /\ call[k].pc = "hdel"
          /\ UNCHANGED <<pending, processing, expired, holder, index, issued, worker, scan>>
      BY <1>3, Zenon DEF RemoveDeletes
    <2>1. TypeInv'
      BY <2>0, <2>4
    <2>5. OwnTimers'
      BY <2>0, <2>4 DEF OwnTimers
    <2>6. ASSUME NEW u \in Timers, Seen(u) PROVE Seen(u)'
      BY <2>0, <2>4, <2>6 DEF Seen
    <2>7. Known'
      BY <2>1, <2>4, <2>6 DEF Known
    <2>2. Placed' /\ Indexed' /\ CleanInv'
      BY <2>4 DEF Placed, Indexed, CleanInv
    <2>3. CallInv'
      BY <2>0, <2>4 DEF CallInv
    <2> QED BY <2>1, <2>2, <2>3, <2>5, <2>7, Zenon
  <1>4. CASE RemoveCleans(k)
    <2>0. \A t \in data : t[1] # k
      BY <1>4 DEF RemoveCleans, CallInv
    <2>1. TypeInv' /\ OwnTimers'
      BY <1>4 DEF RemoveCleans, OwnTimers, Idle
    <2>2. Known' /\ CleanInv'
      BY <1>4 DEF RemoveCleans, Known, Seen, CleanInv, Idle
    <2>3. Placed'
      BY <1>4, <2>0 DEF RemoveCleans, Placed, OwnTimers
    <2>4. Indexed' /\ CallInv'
      BY <1>4, <2>0 DEF RemoveCleans, Indexed, CallInv
    <2> QED BY <2>1, <2>2, <2>3, <2>4
  <1>5. CASE CallStops(k)
    BY <1>5 DEF CallStops, OwnTimers, Known, Seen, Placed, Indexed, CleanInv, CallInv, Idle
  <1> QED BY <1>1, <1>2, <1>3, <1>4, <1>5

\* Claims, completions and the passing of deadlines keep the invariant.
LEMMA ClaimKeeps ==
  ASSUME QInv,
         \/ \E t \in Timers : LeaseEnds(t)
         \/ \E o \in Owners, t \in Timers : Claim(o, t) \/ CompleteBegins(o, t)
         \/ \E o \in Owners : CompleteScript(o)
  PROVE  QInv'
  <1> USE TimerParts DEF QInv, TypeInv, redis
  <1>1. ASSUME NEW o \in Owners, NEW t \in Timers, Claim(o, t)
        PROVE  QInv'
    BY <1>1 DEF Claim, OwnTimers, Known, Seen, Placed, Indexed, CallInv, CleanInv
  <1>2. ASSUME NEW t \in Timers, LeaseEnds(t)
        PROVE  QInv'
    BY <1>2 DEF LeaseEnds, OwnTimers, Known, Seen, Placed, Indexed, CallInv, CleanInv
  <1>3. ASSUME NEW o \in Owners, NEW t \in Timers, CompleteBegins(o, t)
        PROVE  QInv'
    <2>1. UNCHANGED <<redis, issued, call, scan>> /\ worker' = [worker EXCEPT ![o] = t]
      BY <1>3, Zenon DEF CompleteBegins
    <2>2. TypeInv'
      BY <2>1
    <2> HIDE DEF QInv, TypeInv, redis
    <2> QED BY <2>1, <2>2, FrameKeeps, Zenon
  <1>4. ASSUME NEW o \in Owners, CompleteScript(o)
        PROVE  QInv'
    <2> DEFINE t == worker[o]
               done == t \in data /\ holder[t] \in {None, o}
    <2>1. /\ t \in Timers /\ worker' = [worker EXCEPT ![o] = None]
          /\ UNCHANGED <<expired, issued, call, scan>>
      BY <1>4 DEF CompleteScript
    <2>2. CASE ~done
      <3>1. UNCHANGED <<data, holder, pending, processing, index>>
        BY <1>4, <2>2, Zenon DEF CompleteScript
      <3>2. TypeInv'
        BY <2>1, <3>1
      <3> HIDE DEF QInv, TypeInv
      <3> QED BY <2>1, <3>1, <3>2, FrameKeeps, Zenon
    <2>3. CASE done
      <3>1. /\ data' = data \ {t} /\ holder' = [holder EXCEPT ![t] = None]
            /\ pending' = pending \ {t} /\ processing' = processing \ {t}
            /\ index' = [index EXCEPT ![t[1]] = IF @ = t THEN None ELSE @]
        BY <1>4, <2>3, Zenon DEF CompleteScript
      <3>2. TypeInv'
        BY <2>1, <3>1
      <3>3. OwnTimers'
        BY <2>1, <3>1 DEF OwnTimers
      <3>4. Known' /\ CleanInv' /\ CallInv'
        BY <2>1, <3>1 DEF Known, Seen, CleanInv, CallInv
      <3>5. Placed' /\ Indexed'
        BY <2>1, <3>1 DEF Placed, Indexed
      <3> HIDE DEF QInv
      <3> QED BY <3>2, <3>3, <3>4, <3>5, Zenon DEF QInv
    <2> QED BY <2>2, <2>3, Zenon
  <1> QED BY <1>1, <1>2, <1>3, <1>4, Zenon

\* The requeue and load passes keep the invariant.
LEMMA ScanKeeps ==
  ASSUME QInv, NEW o \in Owners,
         \/ RequeueBegins(o) \/ LoadBegins(o) \/ LoadReads(o) \/ EngineStops(o)
         \/ \E t \in Timers : RequeueScript(o, t) \/ LoadCleans(o, t)
  PROVE  QInv'
  <1> USE TimerParts DEF QInv, TypeInv, redis, NoScan
  <1>1. CASE RequeueBegins(o)
    <2>1. /\ scan' = [scan EXCEPT ![o] = [pc |-> "requeue", ids |-> processing \cap expired]]
          /\ UNCHANGED <<redis, issued, call, worker>>
      BY <1>1, Zenon DEF RequeueBegins
    <2>2. TypeInv' /\ CleanInv'
      BY <2>1 DEF CleanInv
    <2>3. Known'
      BY <2>1 DEF Known, Seen
    <2>4. OwnTimers' /\ Placed' /\ Indexed' /\ CallInv'
      BY <2>1 DEF OwnTimers, Placed, Indexed, CallInv
    <2> QED BY <2>2, <2>3, <2>4, Zenon
  <1>2. ASSUME NEW t \in Timers, RequeueScript(o, t)
        PROVE  QInv'
    <2>1. /\ scan' = [scan EXCEPT ![o] = Rest(o, t)]
          /\ Rest(o, t) \in [pc : {"idle", "requeue"}, ids : SUBSET scan[o].ids]
      BY <1>2 DEF RequeueScript, Rest
    <2>2. /\ UNCHANGED <<expired, data, index, issued, call, worker>>
          /\ t \in scan[o].ids
          /\ \/ /\ t \notin data /\ UNCHANGED pending
                /\ processing' = processing \ {t} /\ holder' = [holder EXCEPT ![t] = None]
             \/ UNCHANGED <<pending, processing, holder>>
             \/ /\ t \in data /\ pending' = pending \cup {t}
                /\ processing' = processing \ {t} /\ holder' = [holder EXCEPT ![t] = None]
      BY <1>2, Zenon DEF RequeueScript
    <2>3. TypeInv'
      BY <2>1, <2>2
    <2>4. OwnTimers' /\ Indexed' /\ CallInv'
      BY <2>2 DEF OwnTimers, Indexed, CallInv
    <2>5. CleanInv'
      BY <2>1, <2>2 DEF CleanInv
    <2>6. \A u \in Timers : Seen(u)' <=> Seen(u)
      BY <2>2, Zenon DEF Seen
    <2>7. Known'
      <3>1. \A u \in data' \cup pending' \cup processing' : Seen(u)
        BY <2>2 DEF Known
      <3>2. \A u \in Timers : holder'[u] # None => Seen(u)
        BY <2>2 DEF Known
      <3>3. \A q \in Owners : \A u \in scan'[q].ids : Seen(u)
        BY <2>1 DEF Known
      <3> QED BY <2>3, <2>6, <3>1, <3>2, <3>3 DEF Known
    <2>8. Placed'
      BY <2>2 DEF Placed
    <2> QED BY <2>3, <2>4, <2>5, <2>7, <2>8, Zenon
  <1>3. CASE LoadBegins(o)
    <2>1. PICK ids \in (SUBSET pending) \cup {pending \cup processing} :
              scan' = [scan EXCEPT ![o] = [pc |-> "load", ids |-> ids]]
      BY <1>3, Zenon DEF LoadBegins
    <2>2. ids \subseteq pending \cup processing
      OBVIOUS
    <2>3. UNCHANGED <<redis, issued, call, worker>>
      BY <1>3, Zenon DEF LoadBegins
    <2>4. TypeInv' /\ CleanInv'
      BY <2>1, <2>2, <2>3 DEF CleanInv
    <2>5. Known'
      BY <2>1, <2>2, <2>3 DEF Known, Seen
    <2>6. OwnTimers' /\ Placed' /\ Indexed' /\ CallInv'
      BY <2>3 DEF OwnTimers, Placed, Indexed, CallInv
    <2> QED BY <2>4, <2>5, <2>6, Zenon
  <1>4. CASE LoadReads(o)
    <2>1. /\ scan' = [scan EXCEPT ![o] = IF scan[o].ids \subseteq data THEN NoScan
                                        ELSE [pc |-> "clean", ids |-> scan[o].ids \ data]]
          /\ UNCHANGED <<redis, issued, call, worker>>
      BY <1>4, Zenon DEF LoadReads
    <2>2. TypeInv' /\ CleanInv'
      BY <2>1 DEF CleanInv
    <2>3. Known'
      BY <2>1 DEF Known, Seen
    <2>4. OwnTimers' /\ Placed' /\ Indexed' /\ CallInv'
      BY <2>1 DEF OwnTimers, Placed, Indexed, CallInv
    <2> QED BY <2>2, <2>3, <2>4, Zenon
  <1>5. ASSUME NEW t \in Timers, LoadCleans(o, t)
        PROVE  QInv'
    <2>1. /\ scan' = [scan EXCEPT ![o] = Rest(o, t)]
          /\ Rest(o, t) \in [pc : {"idle", "clean"}, ids : SUBSET scan[o].ids]
      BY <1>5 DEF LoadCleans, Rest
    <2>2. /\ scan[o].pc = "clean" /\ t \in scan[o].ids
          /\ pending' = pending \ {t} /\ processing' = processing \ {t}
          /\ UNCHANGED <<expired, data, holder, index, issued, call, worker>>
      BY <1>5, Zenon DEF LoadCleans
    <2>3. TypeInv'
      BY <2>1, <2>2
    <2>4. OwnTimers' /\ Indexed' /\ CallInv'
      BY <2>2 DEF OwnTimers, Indexed, CallInv
    <2>5. Known'
      BY <2>1, <2>2 DEF Known, Seen
    <2>6. CleanInv'
      BY <2>1, <2>2 DEF CleanInv
    <2>7. Placed'
      BY <2>2 DEF Placed, CleanInv
    <2> QED BY <2>3, <2>4, <2>5, <2>6, <2>7, Zenon
  <1>6. CASE EngineStops(o)
    <2>1. /\ worker' = [worker EXCEPT ![o] = None] /\ scan' = [scan EXCEPT ![o] = NoScan]
          /\ UNCHANGED <<pending, processing, expired, data, holder, index, issued, call>>
      BY <1>6, Zenon DEF EngineStops
    <2>2. TypeInv'
      BY <2>1
    <2>3. CleanInv' /\ \A p \in Owners : scan'[p].ids \subseteq scan[p].ids
      BY <2>1 DEF CleanInv
    <2>4. Known'
      BY <2>1, <2>3, Zenon DEF Known, Seen
    <2>5. OwnTimers' /\ Placed' /\ Indexed' /\ CallInv'
      BY <2>1, Zenon DEF OwnTimers, Placed, Indexed, CallInv
    <2> QED BY <2>2, <2>3, <2>4, <2>5, Zenon
  <1> QED BY <1>1, <1>2, <1>3, <1>4, <1>5, <1>6, Zenon

\* Together: the invariant is inductive while ids are new.
LEMMA NextKeeps == (Reuse = FALSE) /\ QInv /\ [Next]_queueVars => QInv'
  <1> SUFFICES ASSUME Reuse = FALSE, QInv, [Next]_queueVars
               PROVE  QInv'
    BY Zenon
  <1>1. CASE UNCHANGED queueVars
    <2>1. UNCHANGED <<redis, issued, call, scan, worker>>
      BY <1>1, Zenon DEF queueVars, redis
    <2>2. TypeInv'
      BY <2>1, Zenon DEF QInv, TypeInv, redis
    <2> QED BY <2>1, <2>2, FrameKeeps, Zenon
  <1>2. ASSUME NEW k \in Tasks, NEW t \in Timers, AddBegins(k, t)
        PROVE  QInv'
    BY <1>2, AddKeeps, Zenon
  <1>3. ASSUME NEW k \in Tasks, AddReplaces(k) \/ AddPuts(k)
        PROVE  QInv'
    <2>1. call[k].id \in Timers
      BY <1>3 DEF AddReplaces, AddPuts, QInv, OwnTimers
    <2> QED BY <1>3, <2>1, AddKeeps, Zenon
  <1> QED BY <1>1, <1>2, <1>3, RemoveKeeps, ClaimKeeps, ScanKeeps, Zenon DEF Next

-----------------------------------------------------------------------------
(* The refinement *)

\* A step leaves what the ledger sees of u alone.
Same(u) ==
    /\ u \in data' <=> u \in data
    /\ u \in data =>
          /\ u \in pending' <=> u \in pending
          /\ u \in processing' <=> u \in processing
          /\ u \in expired' <=> u \in expired
          /\ holder'[u] = holder[u]

\* A step that leaves every timer alone is a stuttering step of the ledger.
LEMMA Stutter ==
  ASSUME \A u \in Timers : Same(u)
  PROVE  UNCHANGED Ledger!ledgerVars
  <1>1. LedgerEntry' = LedgerEntry
    BY DEF LedgerEntry, Same
  <1>2. LedgerLease' = LedgerLease
    BY <1>1 DEF LedgerEntry, LedgerLease, Same
  <1> QED BY <1>1, <1>2 DEF Ledger!ledgerVars

\* So is one that leaves the records and where they are alone.
LEMMA Frame ==
  ASSUME UNCHANGED <<pending, processing, expired, data, holder>>
  PROVE  UNCHANGED Ledger!ledgerVars
  <1>1. \A u \in Timers : Same(u)
    BY Zenon DEF Same
  <1> QED BY <1>1, Stutter, Zenon

\* A step that leaves every other timer alone sets the entry of one.
LEMMA OneEntry ==
  ASSUME NEW t \in Timers, \A u \in Timers \ {t} : Same(u)
  PROVE  Ledger!Set(t, LedgerEntry'[t], LedgerLease'[t])
  <1>1. LedgerEntry' = [LedgerEntry EXCEPT ![t] = LedgerEntry'[t]]
    BY Zenon DEF LedgerEntry, Same
  <1>2. \A u \in Timers \ {t} : LedgerLease'[u] = LedgerLease[u]
    BY DEF LedgerEntry, LedgerLease, Same
  <1>3. LedgerLease' = [LedgerLease EXCEPT ![t] = LedgerLease'[t]]
    BY <1>2, Zenon DEF LedgerLease
  <1> QED BY <1>1, <1>3 DEF Ledger!Set

\* Every step of the queue is a step of the ledger or leaves it alone.
LEMMA StepRefines ==
  ASSUME Reuse = FALSE, QInv, QInv', [Next]_queueVars
  PROVE  [Ledger!LedgerNext]_(Ledger!ledgerVars)
  <1> USE TimerParts DEF QInv, TypeInv, redis
  <1>0. Ledger!Timers = Timers
    BY DEF Ledger!Timers, Timers
  <1>1. ASSUME NEW t \in Timers, \A u \in Timers \ {t} : Same(u), t \in data, t \notin data'
        PROVE  Ledger!LedgerNext
    <2>1. LedgerEntry[t] # "none" /\ LedgerEntry'[t] = "none" /\ LedgerLease'[t] = None
      BY <1>1 DEF LedgerEntry, LedgerLease
    <2>2. Ledger!Drop(t)
      <3> HIDE DEF QInv, TypeInv
      <3>1. Ledger!Set(t, "none", None)
        BY <1>1, <2>1, OneEntry, Zenon
      <3> QED BY <2>1, <3>1, Zenon DEF Ledger!Drop
    <2> QED BY <1>0, <2>2, Zenon DEF Ledger!LedgerNext
  <1>2. CASE UNCHANGED queueVars
    BY <1>2, Frame, Zenon DEF queueVars
  <1>3. ASSUME NEW k \in Tasks,
               \/ \E t \in Timers : AddBegins(k, t)
               \/ RemoveBegins(k) \/ RemoveFinds(k) \/ CallStops(k)
        PROVE  UNCHANGED Ledger!ledgerVars
    <2>1. UNCHANGED redis
      BY <1>3, Zenon DEF AddBegins, RemoveBegins, RemoveFinds, CallStops
    <2> QED BY <2>1, Frame, Zenon
  <1>4. ASSUME NEW o \in Owners,
               \/ \E t \in Timers : CompleteBegins(o, t)
               \/ RequeueBegins(o) \/ LoadBegins(o) \/ LoadReads(o) \/ EngineStops(o)
        PROVE  UNCHANGED Ledger!ledgerVars
    <2>1. UNCHANGED redis
      BY <1>4, Zenon DEF CompleteBegins, RequeueBegins, LoadBegins, LoadReads, EngineStops
    <2> QED BY <2>1, Frame, Zenon
  <1>5. ASSUME NEW k \in Tasks, AddReplaces(k)
        PROVE  Ledger!LedgerNext \/ UNCHANGED Ledger!ledgerVars
    <2>1. call[k].old \in Timers
      BY <1>5 DEF AddReplaces, OwnTimers
    <2>2. \A u \in Timers \ {call[k].old} : Same(u)
      BY <1>5, <2>1 DEF AddReplaces, Same
    <2>3. call[k].old \notin data => Same(call[k].old)
      BY <1>5 DEF AddReplaces, Same
    <2>4. call[k].old \notin data'
      BY <1>5 DEF AddReplaces
    <2> QED BY <1>1, <2>1, <2>2, <2>3, <2>4, Stutter, Zenon
  <1>6. ASSUME NEW k \in Tasks, AddPuts(k)
        PROVE  Ledger!LedgerNext
    <2> DEFINE t == call[k].id
    <2>1. t \in Timers /\ t[1] = k
      BY <1>6 DEF AddPuts, OwnTimers
    <2>2. \A u \in data : u[1] # k
      BY <1>6 DEF AddPuts, CallInv
    <2>3. \A u \in Timers : u[1] = k => LedgerEntry[u] = "none"
      BY <2>2 DEF LedgerEntry
    <2>4. \A u \in Timers \ {t} : Same(u)
      BY <1>6 DEF AddPuts, Same
    <2>5. LedgerEntry'[t] = "pending" /\ LedgerLease'[t] = None
      BY <1>6, <2>1 DEF AddPuts, LedgerEntry, LedgerLease
    <2>6. Ledger!Put(t)
      <3> HIDE DEF QInv, TypeInv
      <3>1. Ledger!Set(t, "pending", None)
        BY <2>1, <2>4, <2>5, OneEntry, Zenon
      <3> QED BY <1>0, <2>1, <2>3, <3>1, Zenon DEF Ledger!Put, Ledger!TaskOf
    <2> QED BY <1>0, <2>1, <2>6, Zenon DEF Ledger!LedgerNext
  <1>7. ASSUME NEW k \in Tasks, RemoveDeletes(k)
        PROVE  Ledger!LedgerNext \/ UNCHANGED Ledger!ledgerVars
    <2>1. call[k].id \in Timers
      BY <1>7 DEF RemoveDeletes, OwnTimers
    <2>2. \A u \in Timers \ {call[k].id} : Same(u)
      BY <1>7 DEF RemoveDeletes, Same
    <2>3. call[k].id \notin data => Same(call[k].id)
      BY <1>7 DEF RemoveDeletes, Same
    <2>4. call[k].id \notin data'
      BY <1>7 DEF RemoveDeletes
    <2> QED BY <1>1, <2>1, <2>2, <2>3, <2>4, Stutter, Zenon
  <1>8. ASSUME NEW k \in Tasks, RemoveCleans(k)
        PROVE  UNCHANGED Ledger!ledgerVars
    <2>1. call[k].id \notin data
      BY <1>8 DEF RemoveCleans, CallInv, OwnTimers
    <2>2. \A u \in Timers : Same(u)
      BY <1>8, <2>1 DEF RemoveCleans, Same
    <2> QED BY <2>2, Stutter, Zenon
  <1>9. ASSUME NEW o \in Owners, NEW t \in Timers, Claim(o, t)
        PROVE  Ledger!LedgerNext
    <2>1. \A u \in Timers \ {t} : Same(u)
      BY <1>9 DEF Claim, Same
    <2>2. LedgerEntry[t] = "pending" /\ LedgerEntry'[t] = "leased"
      BY <1>9 DEF Claim, LedgerEntry
    <2>3. LedgerLease'[t] = [owner |-> o, over |-> FALSE]
      <3>1. holder'[t] = o /\ (t \in expired') = FALSE
        BY <1>9 DEF Claim
      <3>2. LedgerLease'[t] = [owner |-> holder'[t], over |-> t \in expired']
        BY <2>2, Zenon DEF LedgerLease
      <3> QED BY <3>1, <3>2, Zenon
    <2>4. Ledger!Lease(t, o)
      <3>1. Ledger!Set(t, "leased", [owner |-> o, over |-> FALSE])
        BY <2>1, <2>2, <2>3, OneEntry, Zenon
      <3> QED BY <2>2, <3>1, Zenon DEF Ledger!Lease
    <2> QED BY <1>0, <2>4, Zenon DEF Ledger!LedgerNext
  <1>10. ASSUME NEW t \in Timers, LeaseEnds(t)
         PROVE  Ledger!LedgerNext \/ UNCHANGED Ledger!ledgerVars
    <2>1. \A u \in Timers \ {t} : Same(u)
      BY <1>10 DEF LeaseEnds, Same
    <2>2. CASE t \notin data
      <3>1. Same(t)
        BY <1>10, <2>2 DEF LeaseEnds, Same
      <3> QED BY <2>1, <3>1, Stutter, Zenon
    <2>3. CASE t \in data
      <3>1. LedgerEntry[t] = "leased" /\ LedgerEntry'[t] = "leased"
        BY <1>10, <2>3 DEF LeaseEnds, LedgerEntry, Placed
      <3>2. /\ LedgerLease[t] = [owner |-> holder[t], over |-> FALSE]
            /\ LedgerLease'[t] = [owner |-> holder[t], over |-> TRUE]
        <4>1. (t \in expired) = FALSE /\ (t \in expired') = TRUE /\ holder' = holder
          BY <1>10 DEF LeaseEnds
        <4>2. /\ LedgerLease[t] = [owner |-> holder[t], over |-> t \in expired]
              /\ LedgerLease'[t] = [owner |-> holder'[t], over |-> t \in expired']
          BY <3>1, Zenon DEF LedgerLease
        <4> QED BY <4>1, <4>2, Zenon
      <3>3. Ledger!LeaseEnds(t)
        <4>1. ~LedgerLease[t].over /\ LedgerLease[t].owner = holder[t]
          BY <3>2
        <4>2. Ledger!Set(t, "leased", LedgerLease'[t])
          BY <2>1, <3>1, OneEntry, Zenon
        <4>3. LedgerLease'[t] = [owner |-> LedgerLease[t].owner, over |-> TRUE]
          BY <3>2, <4>1
        <4>4. Ledger!Set(t, "leased", [owner |-> LedgerLease[t].owner, over |-> TRUE])
          BY <4>2, <4>3, Zenon
        <4> HIDE DEF QInv, TypeInv
        <4> QED BY <3>1, <4>1, <4>4, Zenon DEF Ledger!LeaseEnds
      <3> QED BY <1>0, <3>3, Zenon DEF Ledger!LedgerNext
    <2> QED BY <2>2, <2>3, Zenon
  <1>11. ASSUME NEW o \in Owners, CompleteScript(o)
         PROVE  Ledger!LedgerNext \/ UNCHANGED Ledger!ledgerVars
    <2> DEFINE t == worker[o]
    <2>1. t \in Timers
      BY <1>11 DEF CompleteScript
    <2>2. \A u \in Timers \ {t} : Same(u)
      BY <1>11 DEF CompleteScript, Same
    <2>3. t \in data => t \notin data' \/ Same(t)
      BY <1>11 DEF CompleteScript, Same
    <2>4. t \notin data => Same(t)
      BY <1>11 DEF CompleteScript, Same
    <2> QED BY <1>1, <2>1, <2>2, <2>3, <2>4, Stutter, Zenon
  <1>12. ASSUME NEW o \in Owners, NEW t \in Timers, RequeueScript(o, t)
         PROVE  Ledger!LedgerNext \/ UNCHANGED Ledger!ledgerVars
    <2>1. \A u \in Timers \ {t} : Same(u)
      BY <1>12 DEF RequeueScript, Same
    <2>2. CASE t \in data /\ holder[t] # None /\ t \in expired
      <3>1. LedgerEntry[t] = "leased" /\ LedgerLease[t].over
        BY <2>2, Zenon DEF LedgerEntry, LedgerLease, Placed
      <3>2. LedgerEntry'[t] = "pending" /\ LedgerLease'[t] = None
        BY <1>12, <2>2 DEF RequeueScript, LedgerEntry, LedgerLease
      <3>3. Ledger!Return(t)
        <4> HIDE DEF QInv, TypeInv
        <4>1. Ledger!Set(t, "pending", None)
          BY <2>1, <3>2, OneEntry, Zenon
        <4> QED BY <3>1, <4>1, Zenon DEF Ledger!Return
      <3> QED BY <1>0, <3>3, Zenon DEF Ledger!LedgerNext
    <2>3. CASE ~(t \in data /\ holder[t] # None /\ t \in expired)
      <3>1. Same(t)
        BY <1>12, <2>3 DEF RequeueScript, Same
      <3> QED BY <2>1, <3>1, Stutter, Zenon
    <2> QED BY <2>2, <2>3, Zenon
  <1>13. ASSUME NEW o \in Owners, NEW t \in Timers, LoadCleans(o, t)
         PROVE  UNCHANGED Ledger!ledgerVars
    <2>1. t \notin data
      BY <1>13 DEF LoadCleans, CleanInv
    <2>2. \A u \in Timers : Same(u)
      BY <1>13, <2>1 DEF LoadCleans, Same
    <2> QED BY <2>2, Stutter, Zenon
  <1> QED
    BY <1>2, <1>3, <1>4, <1>5, <1>6, <1>7, <1>8, <1>9, <1>10, <1>11, <1>12, <1>13, Zenon DEF Next

\* The queue implements the ledger, whatever its constants, when an id is added
\* only once: the property LedgerImplemented of queue.go's commands, pipelines
\* and scripts.
THEOREM QueueImplementsLedger == (Reuse = FALSE) /\ Spec => LedgerImplemented
  <1> SUFFICES ASSUME Reuse = FALSE PROVE Spec => LedgerImplemented
    BY Zenon
  <1>1. Init => Ledger!LedgerInit
    BY DEF Init, Ledger!LedgerInit, Ledger!Timers, Timers, LedgerEntry, LedgerLease
  <1>2. QInv /\ [Next]_queueVars => QInv'
    BY NextKeeps, Zenon
  <1>3. QInv /\ QInv' /\ [Next]_queueVars => [Ledger!LedgerNext]_(Ledger!ledgerVars)
    BY StepRefines, Zenon
  <1> QED
    BY <1>1, <1>2, <1>3, InitQInv, PTL DEF Spec, LedgerImplemented, Ledger!LedgerSpec
=============================================================================
