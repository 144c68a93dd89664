---------------------------- MODULE ServiceMailbox ----------------------------
(***************************************************************************)
(* The mailbox that the runtime of a service stands for.                   *)
(***************************************************************************)
EXTENDS ServiceRuntime

\* The mailbox that the runtime stands for: where a request is, as its sender and
\* its handler can tell.
PhaseOf(r) ==
  CASE pc[r] = "emit" \/ act[r] = "queued" -> "inbox"
    [] act[r] = "none" /\ pc[r] \in {"idle", "admit"} -> "outside"
    [] act[r] = "dropped" \/ (act[r] = "none" /\ pc[r] \notin {"idle", "admit", "emit"}) -> "away"
    [] act[r] \in {"start", "run", "yield", "hold"} \/ (act[r] = "regrant" /\ current = r) -> "running"
    [] act[r] \in {"wait", "resume"} -> "parked"
    [] act[r] = "regrant" /\ current # r -> "ready"
    [] OTHER -> "ended"

Phase == [r \in Requests |-> PhaseOf(r)]

ServiceState == IF loop = "exited" THEN "closed" ELSE IF stopping THEN "closing" ELSE "open"

Promised == INSTANCE Mailbox WITH service <- ServiceState, phase <- Phase, told <- result

\* The callers, the scheduler loop and the activation goroutines together are the
\* mailbox of module Mailbox: whatever they interleave, one handler runs at a time,
\* the inbox and the parked handlers stay within their limits, a request that was
\* rejected or dropped never runs, none starts after the stop was seen, rt.done is
\* closed only behind the last handler, and every sender hears the truth.
MailboxImplemented == Promised!MailboxSpec
===============================================================================
