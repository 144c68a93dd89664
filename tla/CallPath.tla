------------------------------- MODULE CallPath -------------------------------
(***************************************************************************)
(* Handlers that call and notify other services (actor/system.go Call and  *)
(* Send, actor/system_runtime.go handlerContext, callPathContains and      *)
(* awaitActivation): several services of one node, the call path that      *)
(* travels in the context, and the ErrCallCycle check.                     *)
(*                                                                         *)
(* One activation is one request and the run of its handler.  The mailbox  *)
(* of a service is the one of ServiceRuntime.tla, reduced to who holds the *)
(* service and in which order the others get it; mailboxes are not full    *)
(* and MaxSuspended is not reached.                                        *)
(***************************************************************************)
EXTENDS Integers, Sequences, FiniteSets, SequencesExt

CONSTANTS
  Services,   \* the services, all on one node
  Serial,     \* those with ServiceOptions.NoInterleave
  None,       \* no activation
  MaxActs,    \* bound on the requests of one behaviour
  Sends,      \* handlers use Send
  Timeouts    \* ServiceOptions.CallTimeout is set

ASSUME CallPathAssumption ==
  /\ Serial \subseteq Services
  /\ MaxActs \in Nat
  /\ None \notin 1 .. MaxActs
  /\ Sends \in BOOLEAN /\ Timeouts \in BOOLEAN

Acts == 1 .. MaxActs

VARIABLES
  next,       \* number of activations created
  status,     \* where the handler of an activation is
  svc,        \* the service of an activation
  path,       \* the services of CallPath in its handler's context
  caller,     \* the activation that waits for its response
  queue,      \* the activations that are ready for a service
  holder,     \* the activation that has been granted a service
  cycleErr    \* the last ErrCallCycle: who called which service

vars == <<next, status, svc, path, caller, queue, holder, cycleErr>>

Init ==
  /\ next = 0
  /\ status = [a \in Acts |-> "none"]
  /\ svc = [a \in Acts |-> None]
  /\ path = [a \in Acts |-> <<>>]
  /\ caller = [a \in Acts |-> None]
  /\ queue = [s \in Services |-> <<>>]
  /\ holder = [s \in Services |-> None]
  /\ cycleErr = <<None, None>>
-----------------------------------------------------------------------------
\* A request for service t that inherits call path p; handlerContext appends the
\* frame of the service to the path of the context the request came with.
Admit(t, p, from) ==
  /\ next < MaxActs
  /\ next' = next + 1
  /\ svc' = [svc EXCEPT ![next + 1] = t]
  /\ path' = [path EXCEPT ![next + 1] = Append(p, t)]
  /\ caller' = [caller EXCEPT ![next + 1] = from]
  /\ queue' = [queue EXCEPT ![t] = Append(@, next + 1)]

\* Call from outside any handler: the path is empty.
ExternalCall(t) ==
  /\ Admit(t, <<>>, None)
  /\ status' = [status EXCEPT ![next + 1] = "ready"]
  /\ UNCHANGED <<holder, cycleErr>>

\* schedule: the head of ready gets the service.
Schedule(s) ==
  /\ holder[s] = None /\ queue[s] # <<>>
  /\ holder' = [holder EXCEPT ![s] = Head(queue[s])]
  /\ queue' = [queue EXCEPT ![s] = Tail(@)]
  /\ status' = [status EXCEPT ![Head(queue[s])] = "running"]
  /\ UNCHANGED <<next, svc, path, caller, cycleErr>>

\* The cycle check of Call.
IsSelfCall(a, t) == t \in Serial /\ t = svc[a]

IsRepeated(a, t) == t \in Range(path[a])

IsCycle(a, t) == t \in Serial /\ t \in Range(path[a])

\* Who called which service, as ErrCallCycle reports it.
CallCycle(a, t) == <<a, t>>

CallRejected(a, t) ==
  /\ status[a] = "running"
  /\ IsCycle(a, t)
  /\ cycleErr' = CallCycle(a, t)
  /\ UNCHANGED <<next, status, svc, path, caller, queue, holder>>

\* The holders once activation a waits.
GiveUpService(a) == IF svc[a] \in Serial THEN holder ELSE [holder EXCEPT ![svc[a]] = None]

\* Call from a handler: a NoInterleave service is kept, any other is given up.
Call(a, t) ==
  /\ status[a] = "running"
  /\ ~IsCycle(a, t)
  /\ Admit(t, path[a], a)
  /\ status' = [status EXCEPT ![next + 1] = "ready", ![a] = "waiting"]
  /\ holder' = GiveUpService(a)
  /\ UNCHANGED cycleErr

\* Send from a handler: the notification carries the sender's context.
Send(a, t) ==
  /\ Sends
  /\ status[a] = "running"
  /\ Admit(t, path[a], None)
  /\ status' = [status EXCEPT ![next + 1] = "ready"]
  /\ UNCHANGED <<holder, cycleErr>>

\* The end of a wait: in a NoInterleave service the handler goes on, in any other
\* it queues for the service again.
ResumedAsReady(b) == "ready"

Resumed(b) == IF svc[b] \in Serial THEN "running" ELSE "ready"

Requeue(b) ==
  IF svc[b] \in Serial THEN queue ELSE [queue EXCEPT ![svc[b]] = Append(@, b)]

\* The handler returns; whoever still waits for the response gets it.
Reply(a) ==
  LET b == caller[a] IN
  /\ status[a] = "running"
  /\ holder' = [holder EXCEPT ![svc[a]] = None]
  /\ IF b = None
     THEN /\ status' = [status EXCEPT ![a] = "done"]
          /\ UNCHANGED queue
     ELSE /\ status' = [status EXCEPT ![a] = "done", ![b] = Resumed(b)]
          /\ queue' = Requeue(b)
  /\ caller' = [caller EXCEPT ![a] = None]
  /\ UNCHANGED <<next, svc, path, cycleErr>>

\* The call timer: the caller goes on, its request stays where it is.
CallTimeout(a) ==
  /\ Timeouts
  /\ caller[a] # None
  /\ status' = [status EXCEPT ![caller[a]] = Resumed(caller[a])]
  /\ queue' = Requeue(caller[a])
  /\ caller' = [caller EXCEPT ![a] = None]
  /\ UNCHANGED <<next, svc, path, holder, cycleErr>>

\* Every request has been answered.
Finished ==
  /\ \A a \in Acts : status[a] = "done"
  /\ UNCHANGED vars

Next ==
  \/ \E t \in Services : ExternalCall(t) \/ Schedule(t)
  \/ \E a \in Acts : Reply(a) \/ CallTimeout(a)
  \/ \E a \in Acts, t \in Services : CallRejected(a, t) \/ Call(a, t) \/ Send(a, t)
  \/ Finished

Spec == Init /\ [][Next]_vars

\* Schedulers run, handlers return, timers fire.
Fairness ==
  /\ \A s \in Services : WF_vars(Schedule(s))
  /\ \A a \in Acts : WF_vars(Reply(a)) /\ WF_vars(CallTimeout(a))

FairSpec == Spec /\ Fairness
-----------------------------------------------------------------------------
(* Properties *)

\* The activations that wait, directly or not, for the response of a.
Callers(a) ==
  LET up[b \in Acts] == IF caller[b] = None THEN {} ELSE {caller[b]} \cup up[caller[b]]
  IN  up[a]

\* A chain of calls never waits for itself: the service a request is queued at is
\* not held by a handler that waits for that very request.
NoSelfDeadlock ==
  \A a \in Acts : status[a] = "ready" => holder[svc[a]] \notin Callers(a)

\* ErrCallCycle is returned only for a call that would deadlock: the NoInterleave
\* service is held by the calling handler or by one that waits for it.
RefusedForReal ==
  cycleErr' # cycleErr =>
    holder[cycleErr'[2]] \in Callers(cycleErr'[1]) \cup {cycleErr'[1]}
===============================================================================
