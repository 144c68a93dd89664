------------------------------- MODULE Mailbox -------------------------------
(***************************************************************************)
(* What a service of the actor package promises to those who send it       *)
(* requests (actor/doc.go, the comments of actor/system.go): a bounded     *)
(* inbox, one handler at a time, a bounded number of handlers parked in an *)
(* Await, and an answer that says what became of the request.              *)
(*                                                                         *)
(* ServiceRuntime implements this specification.                           *)
(***************************************************************************)
EXTENDS Naturals, FiniteSets

CONSTANTS
  Requests, MailboxSize, MaxSuspended, NoInterleave

VARIABLES
  service,   \* "open", "closing" (the stop has been seen) or "closed"
  phase,     \* where a request is
  outcome,   \* what its handler returned
  told       \* what its sender was told

mailboxVars == <<service, phase, outcome, told>>

In(place) == {r \in Requests : phase[r] = place}

MailboxInit ==
  /\ service = "open"
  /\ phase = [r \in Requests |-> "outside"]
  /\ outcome = [r \in Requests |-> "none"]
  /\ told = [r \in Requests |-> "none"]

Move(r, from, to) ==
  /\ phase[r] = from
  /\ phase' = [phase EXCEPT ![r] = to]

Tell(r, what) ==
  /\ told[r] = "none"
  /\ told' = [told EXCEPT ![r] = what]

-----------------------------------------------------------------------------
\* A request enters the inbox when there is room, ...
Enter(r) ==
  /\ Cardinality(In("inbox")) < MailboxSize
  /\ Move(r, "outside", "inbox")
  /\ UNCHANGED <<service, outcome, told>>

\* ... or its sender is told that it did not; once the service is closed, also
\* from the inbox.
TurnAway(r) ==
  /\ \/ Move(r, "outside", "away")
     \/ service = "closed" /\ Move(r, "inbox", "away")
  /\ Tell(r, "rejected")
  /\ UNCHANGED <<service, outcome>>

\* A notification is accepted in the inbox; a closing service may drop it at once.
Accept(r) ==
  /\ phase[r] = "inbox"
  /\ Tell(r, "accepted")
  /\ UNCHANGED phase \/ (service = "closing" /\ Move(r, "inbox", "away"))
  /\ UNCHANGED <<service, outcome>>

\* Only a closing service drops what it has accepted, and only before its start.
Abort(r) ==
  /\ service = "closing"
  /\ Move(r, "inbox", "away")
  /\ UNCHANGED <<service, outcome, told>>

\* A handler starts or goes on while no other one runs.  A closing service starts
\* none.
Run(r) ==
  /\ In("running") = {}
  /\ \/ service = "open" /\ Move(r, "inbox", "running")
     \/ Move(r, "ready", "running")
  /\ UNCHANGED <<service, outcome, told>>

\* A handler parks in an Await and is woken when what it waits for is there.
Park(r) ==
  /\ ~NoInterleave
  /\ Cardinality(In("parked")) < MaxSuspended
  /\ Move(r, "running", "parked")
  /\ UNCHANGED <<service, outcome, told>>

Wake(r) ==
  /\ Move(r, "parked", "ready")
  /\ UNCHANGED <<service, outcome, told>>

\* The handler returns, once.
End(r) ==
  /\ Move(r, "running", "ended")
  /\ \E res \in {"ok", "handlerErr"} : outcome' = [outcome EXCEPT ![r] = res]
  /\ UNCHANGED <<service, told>>

\* A caller hears what the handler returned, that the request was dropped, or
\* gives up.
Answer(r) ==
  /\ \/ phase[r] = "ended" /\ Tell(r, outcome[r])
     \/ phase[r] = "away" /\ Tell(r, "dropped")
     \/ phase[r] # "outside" /\ Tell(r, "abandoned")
  /\ UNCHANGED <<service, phase, outcome>>

Close ==
  /\ service = "open" /\ service' = "closing"
  /\ UNCHANGED <<phase, outcome, told>>

\* The service is closed when every handler that has started has ended.
Shut ==
  /\ service = "closing" /\ service' = "closed"
  /\ In("running") \cup In("ready") \cup In("parked") = {}
  /\ UNCHANGED <<phase, outcome, told>>

MailboxNext ==
  \/ Close \/ Shut
  \/ \E r \in Requests :
       \/ Enter(r) \/ TurnAway(r) \/ Accept(r) \/ Abort(r) \/ Run(r) \/ Park(r) \/ Wake(r)
       \/ End(r) \/ Answer(r)

MailboxSpec == MailboxInit /\ [][MailboxNext]_mailboxVars
==============================================================================
