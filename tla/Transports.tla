----------------------------- MODULE Transports -----------------------------
(***************************************************************************)
(* The request pool of tcpsync and a gate server, each with its clients.   *)
(***************************************************************************)
EXTENDS Integers, Nil

CONSTANTS
  Clients,
  MaxSize, RetryCount, Rounds,                        \* SyncPool
  MaxConnections, SendQueue, MaxSends, ReadTimeout    \* Gate

VARIABLES
  idle, total, poolClosed, poolCloser, sweeper, batch, pc, attempt, calls, lastErr,
  listening, connections, stopping, wg, acceptor, raw, stopper, reader, writer, open, done,
  queue, accepted

syncVars == <<idle, total, poolClosed, poolCloser, sweeper, batch, pc, attempt, calls, lastErr>>
gateVars ==
  <<listening, connections, stopping, wg, acceptor, raw, stopper, reader, writer, open, done,
    queue, accepted>>

Sync == INSTANCE SyncPool WITH closed <- poolClosed, closer <- poolCloser
Gated == INSTANCE Gate

\* p.total counts the connections that are open or being dialled and never exceeds
\* MaxSize: no path of acquire, release and sweep leaks a place of the pool.
TotalExact == Sync!TotalExact

\* Stop returns nil only when no accept loop, connection or open socket is left.
StopIsClean == Gated!StopIsClean
=============================================================================
