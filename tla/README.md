# A TLA+ model of skygo

skygo is a service runtime for Go: actors with mailboxes, calls between nodes,
timers, and bounded TCP transports. This directory holds TLA+ modules that model
its concurrent parts, TLC configurations that check them on small instances, and
proofs, checked by TLAPS for every value of the constants: that the mailbox and the
persistent timer queue keep what they promise, and the safety of the cluster's
connections, of drains and stops, of the pool and of the timer ids.

- `X.tla` models a component. An `MC*.tla` module gathers the components of one
  run, gives them constants and states the run's properties. `TimerEngine` needs
  no such module. `ClusterConn`, `ClusterSlots`, `SystemDrain`, `Transports` and
  `TimerIds` hold the instances and properties that a run shares with proofs, and
  `Nil` the value `None` of the modules they are combined with.
- `R.cfg` is the configuration of the run `R`.
- `Mailbox`, `TimerLedger` and `Schedule` are abstract specifications;
  `ServiceRuntime`, `RedisQueue` and `DelayQueue` implement them.
- The modules that hold proofs are listed under The proofs.
- `PROJECT.json` lists components, runs, the source lines of every definition,
  known hazards, findings and theorems.

Some definitions have variants in front of them: operators with the same
parameters that differ in a guard, an order or an update (`canReachInOne` and
`canReach` in `WaitGraph`, for example). They are not part of the specification.
Put in the place of the definition they vary, they break a property, which shows
that the property depends on that line of the code. `PROJECT.json` lists the pairs
under `mutants`.

    tlc -workers 2 -config System.cfg MCSystem
    tlapm ServiceRuntimeProofs.tla

## The system

### Parts and how they interact

| Part | State | Operations | Module |
|---|---|---|---|
| actor mailbox (`actor/system_runtime.go`) | slots, ready queue, current activation, suspended set, segment counter, sessions | Call, Send, TrySend, Await, NoYield, InterleavedSince, the scheduler's events, stop | `ServiceRuntime`, promise: `Mailbox` |
| actor registry (`actor/system.go`) | name and address tables, service states, finalizers | Reserve, Handle, Start, Stop, System.Stop | `ServiceLifecycle` |
| actor call chains (`system.go`, `system_runtime.go`) | the call path in each context, who waits for whom | Call, Send, reply, call timer | `CallPath` |
| actor drain (`actor/drain.go`) | admission flag, count of work, zero channel, failure counters | trackAdmission, finishTracked, ReserveWork, MaintenanceWork, Drain, ResumeAdmission | `Drain` |
| dispatch retrier (`actor/dispatch_retrier.go`) | one queue and one goroutine per level | Enqueue, batches, escalation, Stop | `DispatchRetrier` |
| wait graph (`observe/waitgraph/monitor.go`) | one outgoing edge per actor | BeginWait, EndWait, Reset | `WaitGraph` |
| cluster sender (`cluster/peer.go`) | queue, write loop, pending calls, done channel | request, send, write, complete, close | `PeerSender` |
| cluster connections out (`cluster/node.go`, `managers.go`) | endpoint registry, slots, dials, backoff | peerFor, connectSlot, peerClosed, Reload, Stop | `PeerSlots` |
| cluster connections in (`cluster/inbound.go`, `node.go`) | the set of accepted connections, the wait group | acceptLoop, acceptConn, Reload, Stop | `InboundConns` |
| cluster receiver (`cluster/inbound.go`, `dispatcher.go`, `drain.go`) | shards, call slots, admission counters, barriers | read loop, dispatch, respond, cancel, barrier | `InboundDispatch` |
| timer engine (`timer/engine`) | hot window in memory, firing goroutines, promotion | Add, Cancel, Forget, Reschedule, fire, promote, Stop, restart | `TimerEngine` on `TimerLedger` |
| Redis timer queue (`timer/redisqueue`) | two sorted sets, two hashes | Add, Remove, claim, complete, requeue, load | `RedisQueue`, promise: `TimerLedger` |
| delay queue (`timer/delay_queue.go`) | heap, position map, last firings | Add, Remove, Reschedule, checkExpired, Stop | `DelayQueue`, promise: `Schedule` |
| timing wheel (`timer/timing_wheel.go`) | slots, current slot, last firings | Add, Remove, Reschedule, tick, Stop | `TimingWheel` |
| timer ids (`timer/id_generator.go`) | last time, sequence | Next | `IDGenerator` |
| synchronous pool (`tcpsync`) | idle channel, total, closed | Do, acquire, release, sweep, Close | `SyncPool` |
| persistent pool (`tcppool`) | connection, condition variable, send queue | Send, lifecycle, sendLoop, Close | `TcpPool` |
| gate (`gate/server.go`) | listener, connections, send queues, wait group | Start, accept, read, write, Send, Close, Stop | `Gate` |
| application runtime (`app/runtime.go`) | entries, started count, phase flags | Add, Start, rollback, Ready, Stop | `AppRuntime` |
| framing, logging, codecs, options | none | conversion and output | not modelled |

`app` starts and stops the others in order. `gate` and `cluster` receive messages
and hand them to an `actor.System`. `cluster` finds a connection (`PeerSlots`),
sends on it (`PeerSender`), and the other node accepts it (`InboundConns`) and
admits the frames in order (`InboundDispatch`) to the mailbox of the service
(`ServiceRuntime`). A handler may call further services (`CallPath`). A drain counts
what is in flight over all services of a node (`Drain`). The timer engine keeps the
timers of its hot window in a `DelayQueue` and all timers in a queue such as
`RedisQueue`.

### What makes it hard

- One scheduler goroutine per service, one goroutine per handler, and callers that
  give up at any time: a grant, a yield, a resume, a stop and a timeout may come
  in any order.
- Check and act in two critical sections: Reserve, peerFor, acquire, Drain, Start
  of the application runtime, Add of the Redis queue.
- Shutdown against work that arrives: service Stop, System.Stop, Close of the
  pools, Stop of the gate, of a node and of the retrier.
- Duties of which exactly one must be done, split between goroutines: a call's
  answer, a notification's error report, a drained piece of work, a slot of a
  bounded queue, the handling of a timer under a lease that may expire.
- A process that ends between the claim of a timer, its handler and its completion.
- Condition variables, one-place channels and channels that are closed once.
- Clocks that jump, counters that wrap, rings that come round, heaps whose
  positions are mirrored in a map.

`PROJECT.json` lists these as hazards, each with the line where it bites and the
properties that cover it.

## The modules

Each module keeps the control of the code (guards, early returns, the order of
critical sections) and abstracts payloads, errors' wording, durations and
logging. A step of a model is one critical section, one channel operation or one
call that leaves the process; two steps are merged only where no other goroutine
can tell.

### ServiceRuntime: the mailbox of one service

A request stands for three things that exist once per request: the goroutine that
calls (`pc`, `kind`, `result`), its session (`pending`, `response`) and its
activation (`act`, `outcome`, `grant`, `noYield`, ...). `slots` is `len(rt.slots)`,
`slotHeld` the field of the envelope. `loop`, `current`, `ready`, `suspended`,
`segmentSeq` and `stopping` are the locals of `serviceRuntime.run`.

| Code | Actions |
|---|---|
| `Call`, `Send`, `TrySend`, `admit` | `Begin`, `TakeSlot`, `AdmissionFails`, `EmitFails` |
| `callMailbox` after admission | `TakeResponse`, `Abandon` (timeout or ctx, with `cancelSession`) |
| `run`: the loop head and `schedule` | `Exit`, `ScheduleNothing`, `Schedule` |
| `run`: the select | `EventEnqueue`, `EventYield`, `EventResume`, `EventDone`, `ServiceDone` |
| `run`: after `<-serviceDone`, the loop that fails unstarted activations | `PurgeReady`, `PurgeDone` |
| `execute`, `Await`, `NoYield`, `MarkTurn` | `TakeGrant`, `Await`, `WaitReturns`, `EnterNoYield`, `LeaveNoYield`, `MarkTurn`, `HandlerReturns` |
| `completeSession` | `CompleteSession`, `DeliverResponse` |

Assumptions: a handler uses its context for Await, Call and NoYield from its own
goroutine only (the code does not prevent other uses, and one activation with two
awaiting goroutines would break the turn-taking). Of draining only the refusal of
admission appears here (`Draining`); `Drain` models the count of work.

`Mailbox` says what a sender and a handler can rely on, with no goroutine, event or
grant: a request is outside, in the inbox, running, parked, ready to go on, ended or
turned away. `ServiceRuntime` implements it with `PhaseOf` as refinement mapping.
One line of `Mailbox` may surprise: a notification may be told "accepted" and be
dropped in the same step when the service is closing. The code does that: Send has
handed its envelope to the loop, which purges it.

### ServiceLifecycle: the registry

A service is its address, which is also its generation. Reserve is two steps
(`ReserveCheck` reads `stopping`, `ReserveRegister` takes the lock). Start is two
(`StartCheck`, `StartPublish`, with `svc.mu` held in between). The finalizer's
`Unpublish`, `StoreStopped` and `CloseFinalized` are separate steps; Stop's
critical section and `beginFinalize` are one. The scheduler appears as
`RuntimeExits`. The constant `StartAfterStop` says whether an application calls
Start on a service it has already stopped.

### CallPath and WaitGraph: who waits for whom

`CallPath` has several services of one node. An activation carries the services of
its call path; `Admit` appends the frame as `handlerContext` does. `IsCycle` is the
check in Call. The mailbox is reduced to who holds a service and who queues for it;
mailboxes are not full, `MaxSuspended` is not reached and there is no NoYield.

`WaitGraph` is the monitor of `observe/waitgraph`, in which an application registers
its waits by hand. `Follows` is the loop of `canReach`; the property compares it
with the transitive closure of the Relation module.

### Drain, DispatchRetrier, AppRuntime

In `Drain` a piece of work is an envelope, a reservation or a maintenance callback.
The zero channels are numbered, so that a Drain that captured an old one is told
from one that captured the current one. `inherited` and `resumed` are history
variables. `durableFailures` is never reset, as in the code.

In `DispatchRetrier` one goroutine per level takes the batch that was in its queue
when its ticker fired, runs each task, puts it back, promotes it or drops it.
`fate` is a history variable.

In `AppRuntime` Start copies the entries, starts them one by one without the lock
and rolls back on failure; Stop stops what has been started. `Overlap` says whether
Add, Start and Stop may be called while Start runs.

### PeerSender, PeerSlots, InboundConns, InboundDispatch: the cluster

`PeerSender`: a message is its item and the goroutine that sends it. Actions follow
`enqueue` (with its wait for room), `writeLoop`, `readLoop` and `close`, whose steps
(mark, wait for senders, drain the queue, fail the pending calls) are separate.
Control frames remain as the possibility that writing one ends in close.

`PeerSlots`: one remote node. A caller of `peerFor` reads the registry, finds or
makes a slot, and waits for the dial or starts one; `connectSlot` is a goroutine of
its own; Reload and Stop walk through the slots step by step. `Overlap` says whether
a Reload may run while a caller is inside `peerFor`. The `ctx.Done()` branch of
`Node.Stop` is no action: `StopEnds` is about the wait itself.

`InboundConns`: the accept loop, the handshake of each accepted connection up to its
entry in `n.inbound`, its end, and Reload and Stop, which close what they find there.
What the handshake verifies is one choice of a remote node or a failure.

`InboundDispatch`: the read loop of one inbound connection, the shard workers, the
goroutine of each barrier, cancellation, the end of the connection and of the node.
Whether a mailbox admits a frame is left open. The refusal of a nil target in
`submit` is one of the refusals; the second `default` of `submit` cannot be reached,
because the global slots bound the sum of the shard queues.

### TimerEngine, TimerLedger and RedisQueue: timers that survive a crash

`RedisQueue` has the two sorted sets and the two hashes of one user. A call is a
sequence of commands; a command, a Lua script or a pipeline is one step, calls
interleave between steps and may break off after any of them. (A pipeline that is cut
half way, or interleaved with another client's commands, is not modelled.) A
deadline lies ahead or has passed (`expired`). `TimerLedger` is what the engine may rely
on: at most one timer per task, taken under a lease, given back by the end of the
lease only. The mapping `LedgerEntry` has a value `lost`, a record in neither
sorted set, which the ledger never takes.

`TimerEngine` is built on the ledger's operations, and on one more: `Renew` writes a
record again under its id, as Reschedule and a repeated Add do. `RedisQueue` is shown to
implement the ledger for ids that are added once, so the proof does not cover `Renew`;
Deviations says what can happen then. A due time lies beyond the hot window, in it, or in the past;
an entry of the heap or a loaded batch that holds an older due time is marked
`old`. Claims, completions, loads and submissions may fail, before or after their
effect; the process may stop or crash and is started again. One engine works on the
queue; several owners are part of `RedisQueue`. The dedup window of the engine's
delay queue, off by default, is not used.

### DelayQueue and Schedule

`DelayQueue` has the heap as a sequence, with the position map that `Swap`, `Push`
and `Pop` maintain. The functions of `container/heap` are recursive operators
modelled from how they call those methods. `Schedule` is a set of deadlines, in which
a check takes exactly what is due and fires what has not fired within the window.

### TimingWheel and IDGenerator

Time in `TimingWheel` is discrete, `Unit` steps per second, so that deadlines between
two ticks occur. Time does not advance while a due tick is processed. Reschedule is two
critical sections (`BeginReschedule`, `EndReschedule`). A removed timer may still
fire from a batch that was taken before.

`NextID` of `IDGenerator` takes the readings of the clock as parameters: the first, the
one of the wait for a small step back, and the one of the wait for the next millisecond.

### SyncPool, TcpPool, Gate

`SyncPool` counts connections instead of naming them and follows `Do` through
`acquire`, `release` and its retries. `TcpPool` is one slot: the lifecycle
goroutine, the send loop, the condition variable between them and Close; backoff
is the end of a timer, the recovery of a panicking callback is left out. `Gate`
has the accept loop, a reader and a writer per connection and Stop; Start is not
called after Stop. The writer is not counted in the wait group, as in the code.

## The runs

A run gathers several components that do not share state: the variable `subject`
(`deployment` in `MCCallPath`, `serial` in `MCServiceModes`) is chosen in the initial
state and says which of them moves; the others rest. "Violation" means that TLC
finds a behaviour of the model that breaks a statement of the repository; see
Findings. Every other run passes.

| Run | Subjects | Checks | Bounds |
|---|---|---|---|
| `ServiceRuntime_safety` | one service | one segment at a time; slots exact and bounded; InterleavedSince exact; every call answered; results truthful | 3 requests (calls, TrySends), mailbox 2, MaxSuspended 1, 1 yield each |
| `ServiceRuntime_live` | a service under calls; a NoInterleave service under notifications | handlers of the second run one after the other; stop completes; queued requests are served; callers return; the runtime implements `Mailbox` | 2 requests, mailbox 1, draining |
| `System` | services, components, drain, retrier | Stop waits for the runtime, System.Stop ends; a failed Start and a Stop leave nothing running; Drain is honest and ends, a drained system stays quiet; tasks conserved and ended | 2 names, services and reservers; 3 components, 2 starters and stoppers; 2 pieces of work and drainers; 3 tasks, 2 levels |
| `CallPath` | chains, the same with timers and notifications, interleaving services, the wait graph | no chain waits for itself; ErrCallCycle only for a call that would deadlock; every request served; waits acyclic and refused exactly when they close a cycle | 3 services, 2 of them serial, 4 requests; 4 actors |
| `Cluster_safety` | sender, slots, inbound, accepted connections | notifications written or reported once; one response per call; no open peer out of reach; barriers wait; frames of a shard admitted in order | 2 notifications and calls, queue 1; 2 callers, endpoints, slots and dials, 1 reload; 2 calls, 1 notification, 1 barrier, 2 shards; 2 connections |
| `Cluster_live` | the same | close of a sender completes; Node.Stop ends on both sides; calls answered | 2 notifications, 1 call; no reload of slots, 1 of accepted connections |
| `Timer` | Redis queue, wheel, delay queue, heap, ids | the queue implements `TimerLedger`; the wheel is on time; the delay queue behaves like `Schedule`; ids increase | 1 task, 2 ids, 2 engines; 1 timer, 3 slots, 2 steps per second, clock to 8; 2 ids with deadlines 1..4 and windows 0 and 2; 6 ids with deadlines 1..2; 2 nodes, 2 sequence numbers |
| `TimerEngine` | the engine on the ledger | a lease runs the handler once; a timer added in the hot window is handled in the end | 1 task, 2 ids, 2 firing goroutines, 2 calls, 1 fault |
| `Transport` | a slot of tcppool, a send-only slot, tcpsync, the gate without and with a read timeout | messages settled; connection count exact; a clean Stop leaves nothing; Stop ends | 2 messages, 2 connections, buffer 1; 2 clients, 1 connection, 1 retry; 2 clients, 1 connection, 1 payload |
| `ServiceLifecycle_latereserve` | services | violation | 1 name, service and reserver |
| `PeerSlots_orphan` | slots | violation | 3 slots and dials, 2 reloads, Overlap |
| `TimerEngine_cold` | the engine | violation | 1 id, 1 call, no fault |

Why these bounds. Each is the smallest at which the contended case happens: one
request more than the mailbox holds, one client more than connections, two
actors at each check-then-act, a queue that fills, a ring that comes round
twice, a number that is used again after it was released. Six ids are the fewest
for which removing a task from the middle of a heap makes its replacement rise, which
`heap.Remove` has a branch for; since this needs no clock, the heap of six is
filled and emptied before the first second and checked once, and the full
operations run with two ids. Four actors allow two separate waits and the two
that join them. Two ids of one task are the old and the new timer of an Add that
replaces; the second engine of `RedisQueue` is the one whose claim races a lease that
ended. Counters that grow without bound in the code are bounded by a constant named
in a guard (`MaxYields`, `MaxActs`, `MaxReloads`, `Rounds`, `MaxSends`, `MaxTime`,
`MaxFires`, `MaxFaults`, `MaxCalls`). Symmetry is used in the safety runs only.

Deadlock is checked in the runs of `ServiceRuntime`, `Timer` and `TimerEngine`. In
`Timer` the Redis queue and the ids may rest, since their ids and clock readings end.
The other systems may come to rest (every request served, pool closed, no further
call), and the liveness properties say what must have happened by then.

### Fairness

- Goroutines that can run do: weak fairness of the steps a goroutine takes by
  itself. Nobody has to call an API, and connections need not fail.
- Timers and tickers fire and functions supplied by the application return. Where a
  timer is optional (CallTimeout, ReadTimeout) it is a constant of the module.
- Strong fairness stands for a select or a mutex that is reached again and again:
  senders to `rt.events` queue in order, a select chooses at random among ready
  cases, `sync.Mutex` does not starve. It is used for the events and the stop of
  `ServiceRuntime`, for `HandlerReturns` (a handler leaves NoYield sections and
  does not await for ever), for `SystemStopService`, for the exit of a retrier
  level and for callers in `PeerSlots`.
- `TcpPool` assumes that a dial succeeds now and then and that a connection lives
  long enough now and then for a woken sender to find it.
- `TimerEngine` assumes that time passes, that the tickers of the heap and of the
  promotion loop keep ticking, that goroutines and calls go on, and that a process
  that ended is started again. Faults are possible, never forced, and finite in number.

## Findings

Three runs end in a violation, each against a sentence of the repository that
`PROJECT.json` quotes:

- `ServiceLifecycle_latereserve`: a Reserve that checked the flag before
  System.Stop set it registers a service that is never stopped.
- `PeerSlots_orphan`: a sender to an old endpoint is installed after a Reload.
- `TimerEngine_cold`: a task added beyond the hot window is entered in `byTask`
  at once, and promotion skips every task that is in `byTask`. The engine that added
  it never fires it, unless it is restarted or the task is forgotten, added or
  rescheduled.

### Deviations that no run checks

Each was met while modelling and is read off the code. Most are behaviours of the
models, some under the value of a constant given here, and the properties are stated
so that they do not depend on them.

- `actor`: Start between Stop and its finalizer runs a scheduler that Stop does not
  wait for (`StartAfterStop`). The handler of a notification inherits its sender's
  call path and gets ErrCallCycle although nobody waits for it (`Sends`).
- `app`: Add succeeds while Start runs, and the component never starts; Stop during
  Start returns, and components start after it (`Overlap`).
- `cluster`: a barrier is acknowledged over frames that were rejected. A connection
  that was verified before a Reload enters `n.inbound` after it (`inbound.go:56`),
  although Reload "closes cached senders and inbound connections for changed or removed
  nodes" (`node.go:103-104`).
- `timer`: node names with equal hashes yield equal ids. `TimingWheel.Add` with a past
  deadline leaves the older schedule in place (`timing_wheel.go:95`), and a batch that
  `tick` has taken fires timers that are removed meanwhile (`timing_wheel.go:183`).
- `timer/engine`: a Reschedule while the timer is being processed is deleted by the
  CompleteProcessing that follows. Add of a known id to a cold due time leaves the old
  entry of the heap, which fires early. A Cancel that races promotion can leave a
  snapshot in memory.
- `timer/redisqueue`: with `Reuse`, the clean-up of a load may remove from the sorted
  sets an id that was added again meanwhile, and the ledger is not implemented. Two
  concurrent Adds of one business id may leave two records; the model has one call at a
  time per business id.
- `tcpsync`: a connection released during Close stays open and idle; ErrPoolExhausted
  is returned although a connection is idle.
- `tcppool`: a connection dialled during Close of a send-only pool stays open; a
  send-only slot does not reconnect after a failed write (`conn.go:131`), although the
  comment of Pool promises "reconnect" (`pool.go:17-18`).

## The proofs

TLAPS checks the theorems for every value of the constants that satisfies the
assumption named with them; TLC evaluates the assumptions in the runs. Eight modules
hold proofs. A step lemma has one case per action and, below it, the facts that the
action disturbs. Where a component is an instance beside others in its run, the instance
and its properties are in a module that the run and the proofs share (`ClusterConn`,
`ClusterSlots`, `SystemDrain`, `Transports`, `TimerIds`), so that a theorem is about the
very definition that the run checks.

| Module | About | Invariant |
|---|---|---|
| `ServiceRuntimeInv` | the inductive invariant of the mailbox; what single steps do to the scheduler; ownership, `ready`, the end of the loop | `IInv` |
| `ServiceRuntimeSessions` | types, sessions, slots, suspensions and turns survive every step | |
| `ServiceRuntimeProofs` | what follows for the mailbox; every step of the runtime is a step of `Mailbox` or none | `UntoldInv` |
| `ClusterProofs` | the sending and the receiving side of a connection, which `ClusterConn` puts side by side | `PeerInv`, `InboundInv` |
| `PeerSlotsProofs` | the slot of a remote node | `SlotInv` |
| `NodeProofs` | service lifecycle, timer ids, drain | `LifeInv`, `IDInv` and `Stamped`, `DrainInv` |
| `TransportProofs` | gate, synchronous pool | `GateInv`, `PoolInv` |
| `RedisQueueProofs` | the timer queue implements `TimerLedger` | `QInv` |

| Theorem | Property | Also checked by a run |
|---|---|---|
| `Invariance`, `TypeCorrect` | `IInv`, `TypeOK` | |
| `MutualExclusion` | `SingleSegment` | yes |
| `MailboxBounded` | `SlotAccounting` | yes |
| `SuspensionBounded` | `SuspendedBound` | |
| `NoYieldAtomic` | `NoYieldIsAtomic` | |
| `StopStartsNobody` | `StopKeepsStarted` | |
| `GrantHasRoom` | `GrantNeverBlocks` | |
| `CallsAnswered` | `CallIsAnswered` | yes |
| `ExitIsClean` | `ExitLeavesNothing` | |
| `ResultsTruthful` | `ResultIsTruthful` | yes |
| `SerialExecution` | `SerialHandlers` | yes, as `SerialService` |
| `InterleavingIsSeen` | `InterleavedSinceExact` | yes |
| `RuntimeImplementsMailbox` | `MailboxImplemented` | yes |
| `ResponsesHaveOneOwner` | `OneResponse` | yes |
| `NotificationsAccounted` | `NotificationAccounted` | yes |
| `BarriersWait` | `BarrierWaits` | yes |
| `FramesAdmittedInOrder` | `AdmittedInOrder` | yes |
| `PeersStayFindable` | `NoPeerLost` | yes |
| `DrainsAreHonest` | `DrainIsHonest` | yes |
| `DrainedIsQuiet` | `DrainedStaysQuiet` | yes |
| `StopsAreClean` | `StopIsClean` | yes |
| `PoolTotalExact` | `TotalExact` | yes |
| `QueueImplementsLedger` | `LedgerImplemented` | yes |
| `GeneratedIdsIncrease` | `IdsIncrease` | yes |
| `NodesShareNoId` | ids of nodes with different numbers differ | |
| `StopsWaitForRuntime` | `StopWaitsForRuntime` | yes |

### The mailbox

The theorems hold for every finite set of requests, every mailbox size,
`MaxSuspended`, number of yields and choice of options (`RuntimeAssumption`).

The properties are not inductive. That two handlers never run together depends on
where grants are: `schedule` grants only when nobody is current, an activation
gives the service up by emitting an event, and only an activation without a grant
can be in `ready`. `IInv` is the conjunction of

- `TypeOK`, `SlotAccounting`, `StopKeepsStarted`, `ResultIsTruthful`;
- `PhaseInv`: no activation exists before its envelope is enqueued;
- `ReadyInv`: `ready` holds each activation once, waiting and without a grant;
- `OwnerInv`: whoever runs, has a grant or is inside NoYield is `current`, and
  `current` always runs or has its grant on the way;
- `SuspendInv`: the suspended set is what is inside Await, within its bound;
- `PlacedInv`: what waits for the service is in `ready` (nothing is lost);
- `ExitInv`: the loop returns with nobody current, ready or suspended;
- `SessionInv`: as long as a session is registered its activation is alive, and
  whoever removes it delivers;
- `TurnInv`: a handler's version moves only when it gets its next turn; until then
  the turn it has missed shows in `segmentSeq`.

`RuntimeImplementsMailbox` uses `IInv` on both sides of a step and a second invariant,
`UntoldInv` (nobody has been told anything before the call returned; the loop purges only
after it has seen the stop). Its lemmas say which steps leave the phase of every request
alone, and what the others do to the phase of one; `IInv` gives the guards of the
abstract step. Room in the inbox, for example, is `SlotAccounting`, and that a handler
starts only when none runs is `OwnerInv`.

### The cluster

Sender (`PeerAssumption`: any messages, any queue size). `close` waits for the senders
inside `enqueue` before it drains the queue. `PeerInv` says where the item of a message
is (`ItemPlaced`), that nobody is inside `enqueue` and the queue stays empty from then on
(`QueueSettles`), and that a message nobody has registered is in no table
(`Unregistered`), so that the read loop and close never own one response together.

Receiver (`InboundAssumption`: any frames, shards, barriers and capacities). Frames get
their numbers when they are read and are decided in any order over the shards.
`InboundInv` says that `admissionDone` passes over decided frames only (`Decided`),
that an answered barrier lies behind it (`Passed`), and that the frames of a shard that
are not decided stand in its queue by number, behind the one its worker holds
(`InOrder`). The step that needs an argument is `finishAdmission`: the loop that
advances `admissionDone` is the greatest element of a bounded set, which exists because
the order of the naturals is well founded.

Slots (`SlotsAssumption` and `~Overlap`: no Reload while a caller is inside `peerFor`, as
in the runs that check `NoPeerLost`; the run `PeerSlots_orphan` is about the other case).
An open peer could be lost when a dial ends after its slot has left the map. `SlotInv`
follows an attempt from its announcement by one caller (`Announced`), through the slot
that waits for it (`Attempts`), to the map (`InTheMap`); callers inside `peerFor` hold
the map's slot unless Stop has detached it (`CallersKnow`), and the map's slot is for
the address of the registry until Reload detaches it (`Current`).

### The drain, the gate and the pool

Drain (`DrainAssumption`: finite work). `pending` counts the work in flight and the
current zero channel is closed exactly while there is none (`Counted`); a Drain that
has inherited live work still holds that channel (`Held`), so it cannot return on an
older one; unless admission is resumed its baseline does not move (`Told`).

Gate (`GateAssumption`: finitely many clients). `wg` is the number of connection
goroutines plus the accept loop; a client between Accept and the start of its
goroutine is in the accept loop's hands (`Accepting`), so `wg` cannot be zero. Hence
what Stop sees at zero stays at zero (`Seen`).

Pool (`SyncPoolAssumption`: finitely many clients). `TotalExact` is inductive together
with the types. The lemmas of all three take as a hypothesis how the subsets of a finite
set are counted (`CountsBelow`), which `FiniteCounts` derives from the theorems of the
library.

### Timers and services

`QueueImplementsLedger`: for any number of tasks, ids and engines, with ids that are
added once (`Reuse = FALSE`), `RedisQueue` implements `TimerLedger`
(`QueueAssumption`). The refinement is no consequence of the
single scripts: Add reads the index and writes later, a load lists ids and cleans later.
`QInv` says what is still true of a value read earlier:

- `Placed`: a record is in exactly one sorted set, and only a claimed one has a holder;
- `Indexed`: a record is the one its task's index names;
- `CallInv`: the record a call has read is the only one its task can have;
- `Known`, `CleanInv`: what a pass has listed was written before, and the ids about
  to be cleaned have no record, and, being used once, will have none.

`NextKeeps` proves that the steps preserve it and `StepRefines` that each is a step of the
ledger or none.

Ids (`IDAssumption`: any clock, any widths of the node and sequence fields). The last id
of a generator is at most the one its fields describe (`IDInv`), and `Next` moves the
fields on in the order of time and sequence, which the layout of an id keeps. That an id
carries its node number (`Stamped`), which can be read back by the uniqueness of the
parts, gives `NodesShareNoId`.

Services (`LifecycleAssumption` is not needed; `~StartAfterStop`: nobody calls Start on
a service it has stopped). `LifeInv` says of each service (`Orderly`) that Start and
Stop exclude each other, that a runtime exists only after Start, and that the finalizer
passes its wait only for a runtime that has ended or never existed.

### Only model-checked

- Every liveness property: TLAPS does not reason about fairness and ENABLED here.
- `DelayQueue` against `Schedule`, `TimingWheel` (`OnTime`) and `WaitGraph`
  (`WaitsStayAcyclic`): the heap, the walk round the wheel and the cycle search are
  recursive or run in a module with recursive operators, and what a recursive definition
  computes for every input needs an induction that is beyond the provers.
- `NoSelfDeadlock`: it follows a chain of callers by recursion.
- `TaskConserved` of `DispatchRetrier`, `NothingLeftRunning` of `AppRuntime` and the
  safety properties of `TimerEngine`, `TcpPool` and `InboundConns`: no inductive
  invariant has been worked out for them.

## Not modelled

- Encoding, copying and reflection (`actor/method.go`, `codec.go`, `args.go`,
  `clone_provider.go`, `protowire`, `protoclone`), `frame`, `skylog`, options and
  their defaults, generated code, examples: sequential code without shared state.
- `actor/remote.go`: it forwards to the transport, whose node side is modelled.
- The cryptographic part of the cluster handshake, the contents of frames, and the
  delay between failed accepts (`internal/netutil`).
- The call graph recorder (`observe/callgraph`): counters under one mutex and file output.
- Engines without a queue, engines with a dedup window, and several engines on one
  queue in `TimerEngine` (several owners are part of `RedisQueue`).
- Redis itself: a lost or restarted server, a pipeline cut half way.
- `tcpsync/sharded_pools.go`: a map from shards to pools that share nothing.
