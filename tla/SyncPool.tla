------------------------------- MODULE SyncPool -------------------------------
(***************************************************************************)
(* The bounded pool of synchronous TCP connections (tcpsync/pool.go): Do   *)
(* with its retries, acquire, release, the idle sweep and Close.           *)
(*                                                                         *)
(* Connections are anonymous: the model counts the ones in the idle        *)
(* channel and in the sweeper's batch, and knows which client leases one.  *)
(* Closing a connection and decrementing p.total is one step.              *)
(***************************************************************************)
EXTENDS Integers, FiniteSets

CONSTANTS
  Clients,      \* goroutines calling Do
  MaxSize,      \* Options.MaxSize, also the capacity of p.idle
  RetryCount,   \* Options.RetryCount
  Rounds        \* bound on the calls of Do of one client

SyncPoolAssumption ==
  /\ IsFiniteSet(Clients)
  /\ MaxSize \in Nat \ {0} /\ RetryCount \in Nat /\ Rounds \in Nat

VARIABLES
  idle,      \* len(p.idle)
  total,     \* p.total
  closed,    \* p.closed is closed
  closer,    \* where Close is
  sweeper,   \* where the maintenance loop is
  batch,     \* the connections sweepIdle has taken
  pc,        \* where a client is
  attempt,   \* its loop variable in Do
  calls,     \* how often it has called Do
  lastErr    \* what its last acquire or request ended with

clientVars == <<pc, attempt, calls, lastErr>>
vars == <<idle, total, closed, closer, sweeper, batch, clientVars>>

Init ==
  /\ idle = 0 /\ total = 0
  /\ closed = FALSE /\ closer = "idle"
  /\ sweeper = "tick" /\ batch = 0
  /\ pc = [c \in Clients |-> "ready"]
  /\ attempt = [c \in Clients |-> 0]
  /\ calls = [c \in Clients |-> 0]
  /\ lastErr = [c \in Clients |-> "none"]
-----------------------------------------------------------------------------
Goto(c, from, to) ==
  /\ pc[c] = from
  /\ pc' = [pc EXCEPT ![c] = to]

\* The loop of Do counts its attempts from 0 to RetryCount.
LastAttempt(c) == attempt[c] = RetryCount

NextAttempt(c) == attempt[c] + 1

\* An attempt of Do ends with err: ErrPoolExhausted, success and the last attempt
\* return, any other error is retried.
EndAttempt(c, from, err) ==
  /\ Goto(c, from, IF err \in {"none", "exhausted"} \/ LastAttempt(c) THEN "ready" ELSE "sleep")
  /\ lastErr' = [lastErr EXCEPT ![c] = err]
  /\ attempt' = [attempt EXCEPT ![c] = IF err \in {"none", "exhausted"} THEN @ ELSE NextAttempt(c)]
  /\ UNCHANGED calls

Do(c) ==
  /\ Goto(c, "ready", "acquire")
  /\ calls[c] < Rounds
  /\ calls' = [calls EXCEPT ![c] = @ + 1]
  /\ attempt' = [attempt EXCEPT ![c] = 0]
  /\ lastErr' = [lastErr EXCEPT ![c] = "none"]
  /\ UNCHANGED <<idle, total, closed, closer, sweeper, batch>>

\* sleepRetry: the timer, or the context or p.closed.
SleepRetry(c) ==
  /\ \/ Goto(c, "sleep", "acquire") /\ UNCHANGED lastErr
     \/ /\ Goto(c, "sleep", "ready")
        /\ lastErr' = [lastErr EXCEPT ![c] = IF closed THEN "closed" ELSE "ctx"]
  /\ UNCHANGED <<idle, total, closed, closer, sweeper, batch, attempt, calls>>

\* acquire: the first check of p.closed, ...
AcquireCheck(c) ==
  /\ IF closed
     THEN EndAttempt(c, "acquire", "closed")
     ELSE Goto(c, "acquire", "take") /\ UNCHANGED <<attempt, calls, lastErr>>
  /\ UNCHANGED <<idle, total, closed, closer, sweeper, batch>>

\* ... an idle connection, or the end of the context, ...
AcquireIdle(c) ==
  /\ IF idle > 0
     THEN Goto(c, "take", "use") /\ idle' = idle - 1
     ELSE Goto(c, "take", "lock") /\ UNCHANGED idle
  /\ UNCHANGED <<total, closed, closer, sweeper, batch, attempt, calls, lastErr>>

AcquireCancelled(c) ==
  /\ EndAttempt(c, "take", "ctx")
  /\ UNCHANGED <<idle, total, closed, closer, sweeper, batch>>

\* ... or, under p.mu, room for a new one: p.closed is read again.
ClosedAgain == closed

AcquireNew(c) ==
  /\ pc[c] = "lock"
  /\ IF ClosedAgain THEN EndAttempt(c, "lock", "closed") /\ UNCHANGED total
     ELSE IF total >= MaxSize THEN EndAttempt(c, "lock", "exhausted") /\ UNCHANGED total
     ELSE /\ total' = total + 1
          /\ Goto(c, "lock", "dial")
          /\ UNCHANGED <<attempt, calls, lastErr>>
  /\ UNCHANGED <<idle, closed, closer, sweeper, batch>>

\* dialConn fails: the place is given back.
KeepPlace == total' = total

GiveBackPlace == total' = total - 1

Dial(c) ==
  /\ \/ Goto(c, "dial", "use") /\ UNCHANGED <<total, attempt, calls, lastErr>>
     \/ EndAttempt(c, "dial", "dialErr") /\ GiveBackPlace
  /\ UNCHANGED <<idle, closed, closer, sweeper, batch>>

\* c.close() and p.total--.
CloseConn == total' = total - 1 /\ UNCHANGED idle

\* sendRecv fails: release closes the connection.
RequestFails(c) ==
  /\ EndAttempt(c, "use", "ioErr")
  /\ CloseConn
  /\ UNCHANGED <<closed, closer, sweeper, batch>>

\* The select that puts a good connection back: p.closed and a place in p.idle may
\* both be ready; the default closes the connection when p.idle is full.
PutBack ==
  \/ closed /\ CloseConn
  \/ IF idle < MaxSize THEN idle' = idle + 1 /\ UNCHANGED total ELSE CloseConn

\* sendRecv succeeds: release.
RequestSucceeds(c) ==
  /\ EndAttempt(c, "use", "none")
  /\ PutBack
  /\ UNCHANGED <<closed, closer, sweeper, batch>>
-----------------------------------------------------------------------------
CloseBegin ==
  /\ closer = "idle"
  /\ closer' = "drain" /\ closed' = TRUE
  /\ UNCHANGED <<idle, total, sweeper, batch, clientVars>>

CloseDrain ==
  /\ closer = "drain"
  /\ IF idle > 0
     THEN idle' = idle - 1 /\ total' = total - 1 /\ UNCHANGED closer
     ELSE closer' = "done" /\ UNCHANGED <<idle, total>>
  /\ UNCHANGED <<closed, sweeper, batch, clientVars>>

\* maintenanceLoop: a tick, and the check at the start of sweepIdle.
SweepBegin ==
  /\ sweeper = "tick"
  /\ sweeper' = IF closed THEN "exited" ELSE "collect"
  /\ UNCHANGED <<idle, total, closed, closer, batch, clientVars>>

SweepCollect ==
  /\ sweeper = "collect"
  /\ IF idle > 0
     THEN idle' = idle - 1 /\ batch' = batch + 1 /\ UNCHANGED sweeper
     ELSE sweeper' = "process" /\ UNCHANGED <<idle, batch>>
  /\ UNCHANGED <<total, closed, closer, clientVars>>

\* A connection of the batch is idle for too long, fails its ping, or is put back.
SweepProcess ==
  /\ sweeper = "process"
  /\ IF batch = 0
     THEN sweeper' = "tick" /\ UNCHANGED <<idle, total, batch>>
     ELSE /\ batch' = batch - 1
          /\ PutBack \/ CloseConn
          /\ UNCHANGED sweeper
  /\ UNCHANGED <<closed, closer, clientVars>>
-----------------------------------------------------------------------------
ClientStep(c) ==
  \/ SleepRetry(c) \/ AcquireCheck(c) \/ AcquireIdle(c) \/ AcquireCancelled(c)
  \/ AcquireNew(c) \/ Dial(c) \/ RequestFails(c) \/ RequestSucceeds(c)

PoolStep == CloseDrain \/ SweepBegin \/ SweepCollect \/ SweepProcess

Next ==
  \/ \E c \in Clients : Do(c) \/ ClientStep(c)
  \/ CloseBegin
  \/ PoolStep

Spec == Init /\ [][Next]_vars

\* Dials and requests end by their timeouts; Close and the sweep keep running.
Fairness ==
  /\ \A c \in Clients : WF_vars(ClientStep(c))
  /\ WF_vars(CloseDrain)
  /\ WF_vars(SweepCollect \/ SweepProcess)

FairSpec == Spec /\ Fairness
-----------------------------------------------------------------------------
(* Properties *)

Using == {c \in Clients : pc[c] = "use"}
Dialing == {c \in Clients : pc[c] = "dial"}

\* p.total counts the connections that are open or being dialled, wherever they
\* are, and never exceeds MaxSize: no path leaks a place of the pool, and a
\* connection that is put back always finds room in p.idle.
TotalExact ==
  /\ total = idle + batch + Cardinality(Using) + Cardinality(Dialing)
  /\ total <= MaxSize
===============================================================================
