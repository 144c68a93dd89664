---------------------------- MODULE SystemDrain -----------------------------
(***************************************************************************)
(* The drain tracker of a System, beside its services.                     *)
(***************************************************************************)
EXTENDS Integers, Nil

CONSTANTS Work, Drainers

VARIABLES
  closed, pending, failures, durableFailures, baseline, zero, closedCh, status, failed,
  drainer, waitsFor, inherited, resumed

drainVars ==
  <<closed, pending, failures, durableFailures, baseline, zero, closedCh, status, failed,
    drainer, waitsFor, inherited, resumed>>

Drained == INSTANCE Drain

\* Drain does not pretend success: unless it expires, the work it waited for has ended
\* when it returns, and when it returns nil none of that work has failed, unless
\* admission was resumed underneath it.
DrainIsHonest == Drained!DrainIsHonest

\* Once drained the system stays quiet: with admission closed and nothing in flight
\* only MaintenanceWork adds work, not a finished handler's or reservation's context.
DrainedStaysQuiet == [][closed /\ pending = 0 => Drained!OnlyMaintenance]_drainVars
=============================================================================
