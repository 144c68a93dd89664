-------------------------- MODULE TransportProofs ---------------------------
(***************************************************************************)
(* What holds of the gate server and of the request pool, for every number *)
(* of clients and every limit: the gate leaves no goroutine behind, and    *)
(* the count that the pool keeps of its connections is exact.              *)
(***************************************************************************)
EXTENDS Integers, FiniteSets, Transports, TLAPS

\* How the subsets of a finite set are counted. The lemmas take this as a hypothesis,
\* which the theorems at the end discharge.
CountsBelow(T) ==
  \A S \in SUBSET T :
    /\ Cardinality(S) \in Nat
    /\ Cardinality(S) = 0 <=> S = {}
    /\ \A x : x \notin S => Cardinality(S \cup {x}) = Cardinality(S) + 1
    /\ \A x \in S : Cardinality(S \ {x}) = Cardinality(S) - 1
-----------------------------------------------------------------------------
(* The gate server: its inductive invariant *)

\* The connections whose goroutine s.wg counts.
Running == {c \in Clients : reader[c] \in {"open", "read", "close", "remove", "onclose"}}

\* The accept loop is counted from Start to its return.
LoopCount == IF acceptor \in {"none", "exited"} THEN 0 ELSE 1

GateTypes ==
  /\ acceptor \in {"none", "accept", "delay", "lock", "spawn", "exited"}
  /\ reader \in [Clients -> {"none", "accepted", "rejected", "open", "read", "close",
                             "remove", "onclose", "finished"}]
  /\ open \in [Clients -> BOOLEAN]
  /\ connections \subseteq Clients
  /\ stopper \in {"idle", "lock", "wait", "returned", "expired"}

\* The loop holds the connection it has accepted, and no other is between Accept and
\* the start of its goroutine.
Accepting ==
  /\ acceptor \in {"lock", "spawn"} => raw \in Clients /\ reader[raw] = "accepted"
  /\ \A c \in Clients : reader[c] = "accepted" => acceptor \in {"lock", "spawn"} /\ raw = c

\* A socket is open only until the goroutine of its connection has closed it.
Sockets == \A c \in Clients : open[c] => reader[c] \in {"accepted", "open", "read", "close"}

\* An entry of s.connections belongs to a goroutine that has still to remove it, or that
\* is about to start.
Entries ==
  \A c \in connections :
    reader[c] \in {"open", "read", "close", "remove"} \/ (acceptor = "spawn" /\ raw = c)

\* Stop has seen s.wg at zero, and it stays there.
Seen == stopper = "returned" => wg = 0

GateInv ==
  /\ GateTypes /\ wg = Cardinality(Running) + LoopCount
  /\ Accepting /\ Sockets /\ Entries /\ Seen

\* A server that has not been started satisfies the invariant.
LEMMA GateInit ==
  ASSUME CountsBelow(Clients)
  PROVE  Gated!Init => GateInv
  <1> SUFFICES ASSUME Gated!Init PROVE GateInv
    OBVIOUS
  <1>1. Running = {}
    BY DEF Running, Gated!Init
  <1>2. Cardinality(Running) = 0
    BY <1>1, Zenon DEF CountsBelow
  <1>3. wg = Cardinality(Running) + LoopCount
    BY <1>2 DEF LoopCount, Gated!Init
  <1>4. GateTypes /\ Accepting /\ Sockets /\ Entries /\ Seen
    BY DEF GateTypes, Accepting, Sockets, Entries, Seen, Gated!Init
  <1> QED
    BY <1>3, <1>4, Zenon DEF GateInv

\* When s.wg is at zero there is neither an accept loop nor a goroutine of a connection.
LEMMA ZeroMeansNone ==
  ASSUME CountsBelow(Clients), GateInv
  PROVE  /\ Running \in SUBSET Clients /\ Cardinality(Running) \in Nat /\ wg \in Nat
         /\ wg = 0 <=> Running = {} /\ acceptor \in {"none", "exited"}
  <1>1. Running \in SUBSET Clients
    BY DEF Running
  <1>2. Running \in SUBSET Clients /\ Cardinality(Running) \in Nat
    BY <1>1, Zenon DEF CountsBelow
  <1>3. Cardinality(Running) = 0 <=> Running = {}
    BY <1>2, Zenon DEF CountsBelow
  <1>4. wg = Cardinality(Running) + LoopCount
    BY Zenon DEF GateInv
  <1> QED
    BY <1>2, <1>3, <1>4 DEF LoopCount

\* What is left of a step when s.wg has been kept exact.
LEMMA GateKept ==
  ASSUME CountsBelow(Clients), GateInv, GateTypes', Accepting', Sockets', Entries',
         wg' = Cardinality(Running') + LoopCount',
         stopper' = stopper \/ stopper' # "returned" \/ wg' = 0,
         wg = 0 => wg' = 0 \/ stopper = "idle"
  PROVE  GateInv'
  <1>1. Seen'
    BY Zenon DEF GateInv, Seen
  <1> QED
    BY <1>1, Zenon DEF GateInv

\* A step that leaves the goroutine of every connection where it is, on either side of
\* the count.
LEMMA RunningSame ==
  ASSUME GateInv, Running' = Running, wg' - wg = LoopCount' - LoopCount, wg' \in Int, wg \in Int,
         Cardinality(Running) \in Nat
  PROVE  wg' = Cardinality(Running') + LoopCount'
  <1>1. wg = Cardinality(Running) + LoopCount
    BY Zenon DEF GateInv
  <1>2. Cardinality(Running') = Cardinality(Running)
    BY Zenon
  <1>3. LoopCount \in Int /\ LoopCount' \in Int
    BY DEF LoopCount
  <1> QED
    BY <1>1, <1>2, <1>3

\* Start, netutil.Accept and its errors.
LEMMA LoopKeeps ==
  ASSUME CountsBelow(Clients), None \notin Clients, GateInv,
         \/ Gated!Start \/ Gated!AcceptFails \/ Gated!AcceptDelay
         \/ \E c \in Clients : Gated!Accept(c)
  PROVE  GateInv'
  <1>0. /\ Cardinality(Running) \in Nat /\ wg \in Nat
        /\ wg = 0 <=> Running = {} /\ acceptor \in {"none", "exited"}
    BY ZeroMeansNone, Zenon
  <1>1. CASE Gated!Start \/ Gated!AcceptFails \/ Gated!AcceptDelay
    <2>1. /\ UNCHANGED <<connections, raw, stopper, reader, open>>
          /\ acceptor \in {"none", "accept", "delay"} /\ acceptor' \in {"accept", "delay", "exited"}
          /\ \/ acceptor = "none" /\ acceptor' = "accept" /\ wg' = wg + 1 /\ stopper = "idle"
             \/ acceptor # "none" /\ acceptor' # "exited" /\ wg' = wg
             \/ acceptor # "none" /\ acceptor' = "exited" /\ wg' = wg - 1
      BY <1>1 DEF Gated!Start, Gated!AcceptFails, Gated!AcceptDelay, Gated!AcceptLoopExits,
                  Gated!serverVars, Gated!connVars
    <2>2. Running' = Running
      BY <2>1, Zenon DEF Running
    <2>3. wg' - wg = LoopCount' - LoopCount /\ wg' \in Int
      BY <1>0, <2>1 DEF LoopCount
    <2>4. wg' = Cardinality(Running') + LoopCount'
      BY <1>0, <2>2, <2>3, RunningSame
    <2>5. GateTypes' /\ Accepting' /\ Sockets' /\ Entries'
      BY <2>1 DEF GateInv, GateTypes, Accepting, Sockets, Entries
    <2>6. wg = 0 => wg' = 0 \/ stopper = "idle"
      BY <1>0, <2>1
    <2> QED
      BY <2>1, <2>4, <2>5, <2>6, GateKept, Zenon
  <1>2. ASSUME NEW c \in Clients, Gated!Accept(c) PROVE GateInv'
    <2>1. /\ UNCHANGED <<connections, wg, stopper>>
          /\ acceptor = "accept" /\ acceptor' = "lock" /\ raw' = c /\ reader[c] = "none"
          /\ reader' = [reader EXCEPT ![c] = "accepted"] /\ open' = [open EXCEPT ![c] = TRUE]
      BY <1>2, Zenon DEF Gated!Accept, Gated!serverVars
    <2>2. GateTypes /\ Accepting /\ Sockets /\ Entries
      BY Zenon DEF GateInv
    <2>3. /\ reader'[c] = "accepted" /\ \A e \in Clients : e # c => reader'[e] = reader[e]
          /\ open'[c] /\ \A e \in Clients : e # c => open'[e] = open[e]
      BY <2>1, <2>2 DEF GateTypes
    <2>4. Running' = Running
      BY <2>1, <2>3 DEF Running
    <2>5. wg' = Cardinality(Running') + LoopCount'
      <3>1. wg' - wg = LoopCount' - LoopCount /\ wg' \in Int
        BY <1>0, <2>1 DEF LoopCount
      <3> QED
        BY <1>0, <2>4, <3>1, RunningSame
    <2>6. GateTypes'
      BY <2>1, <2>2 DEF GateTypes
    <2>7. Accepting'
      BY <2>1, <2>2, <2>3 DEF Accepting
    <2>8. Sockets'
      BY <2>2, <2>3 DEF Sockets
    <2>9. Entries'
      <3>1. connections \subseteq Clients
        BY <2>2, Zenon DEF GateTypes
      <3> QED
        BY <2>1, <2>2, <2>3, <3>1 DEF Entries
    <2> QED
      BY <2>1, <2>5, <2>6, <2>7, <2>8, <2>9, GateKept, Zenon
  <1> QED
    BY <1>1, <1>2, Zenon

\* The rest of acceptLoop: the limit, the registration and the start of the goroutine.
LEMMA RegisterKeeps ==
  ASSUME CountsBelow(Clients), GateInv, Gated!Register \/ Gated!Spawn
  PROVE  GateInv'
  <1>0. /\ Running \in SUBSET Clients /\ Cardinality(Running) \in Nat /\ wg \in Nat
        /\ wg = 0 <=> Running = {} /\ acceptor \in {"none", "exited"}
    BY ZeroMeansNone, Zenon
  <1>t. GateTypes /\ Accepting /\ Sockets /\ Entries /\ wg = Cardinality(Running) + LoopCount
    BY Zenon DEF GateInv
  <1>1. CASE Gated!Register
    <2>1. /\ UNCHANGED <<wg, stopper>> /\ acceptor = "lock"
          /\ \/ /\ acceptor' = "accept" /\ connections' = connections
                /\ open' = [open EXCEPT ![raw] = FALSE]
                /\ reader' = [reader EXCEPT ![raw] = "rejected"]
             \/ /\ acceptor' = "spawn" /\ connections' = connections \cup {raw}
                /\ UNCHANGED <<raw, open, reader>>
      BY <1>1, Zenon DEF Gated!Register
    <2>2. raw \in Clients /\ reader[raw] = "accepted"
      BY <1>t, <2>1 DEF Accepting
    <2>3. /\ reader'[raw] \in {"accepted", "rejected"} /\ (acceptor' = "accept" => reader'[raw] = "rejected")
          /\ \A e \in Clients : e # raw => reader'[e] = reader[e]
          /\ \A e \in Clients : open'[e] => open[e] /\ (acceptor' = "accept" => e # raw)
      BY <1>t, <2>1, <2>2 DEF GateTypes
    <2>4. Running' = Running
      BY <2>2, <2>3 DEF Running
    <2>5. wg' = Cardinality(Running') + LoopCount'
      <3>1. wg' - wg = LoopCount' - LoopCount /\ wg' \in Int
        BY <1>0, <2>1 DEF LoopCount
      <3> QED
        BY <1>0, <2>4, <3>1, RunningSame
    <2>6. GateTypes'
      BY <1>t, <2>1, <2>2, Zenon DEF GateTypes
    <2>7. Accepting'
      BY <1>t, <2>1, <2>2, <2>3 DEF Accepting
    <2>8. Sockets'
      BY <1>t, <2>1, <2>2, <2>3 DEF Sockets
    <2>9. Entries'
      BY <1>t, <2>1, <2>2, <2>3 DEF Entries, GateTypes
    <2> QED
      BY <2>1, <2>5, <2>6, <2>7, <2>8, <2>9, GateKept, Zenon
  <1>2. CASE Gated!Spawn
    <2>1. /\ UNCHANGED <<connections, stopper, open>> /\ acceptor = "spawn" /\ acceptor' = "accept"
          /\ wg' = wg + 1 /\ reader' = [reader EXCEPT ![raw] = "open"]
      BY <1>2, Zenon DEF Gated!Spawn, Gated!CountRun, Gated!serverVars, Gated!connVars
    <2>2. raw \in Clients /\ reader[raw] = "accepted"
      BY <1>t, <2>1 DEF Accepting
    <2>3. reader'[raw] = "open" /\ \A e \in Clients : e # raw => reader'[e] = reader[e]
      BY <1>t, <2>1, <2>2 DEF GateTypes
    <2>4. raw \notin Running /\ Running' = Running \cup {raw}
      BY <2>2, <2>3 DEF Running
    <2>5. Cardinality(Running') = Cardinality(Running) + 1
      BY <1>0, <2>4, Zenon DEF CountsBelow
    <2>6. wg' = Cardinality(Running') + LoopCount'
      BY <1>0, <1>t, <2>1, <2>5 DEF LoopCount
    <2>7. GateTypes'
      BY <1>t, <2>1, <2>2 DEF GateTypes
    <2>8. Accepting'
      BY <1>t, <2>1, <2>2, <2>3 DEF Accepting
    <2>9. Sockets'
      BY <1>t, <2>1, <2>2, <2>3 DEF Sockets
    <2>10. Entries'
      BY <1>t, <2>1, <2>2, <2>3 DEF Entries, GateTypes
    <2>11. wg = 0 => wg' = 0
      BY <1>0, <2>1
    <2> QED
      BY <2>1, <2>6, <2>7, <2>8, <2>9, <2>10, <2>11, GateKept, Zenon
  <1> QED
    BY <1>1, <1>2, Zenon

\* run of a connection, from OnOpen to OnClose.
LEMMA RunKeeps ==
  ASSUME CountsBelow(Clients), GateInv, NEW c \in Clients, Gated!RunStep(c) \/ Gated!ReadFails(c)
  PROVE  GateInv'
  <1>0. /\ Running \in SUBSET Clients /\ Cardinality(Running) \in Nat /\ wg \in Nat
        /\ wg = 0 <=> Running = {} /\ acceptor \in {"none", "exited"}
    BY ZeroMeansNone, Zenon
  <1>t. GateTypes /\ Accepting /\ Sockets /\ Entries /\ wg = Cardinality(Running) + LoopCount
    BY Zenon DEF GateInv
  <1>1. PICK to : /\ UNCHANGED <<acceptor, raw, stopper>>
                  /\ reader' = [reader EXCEPT ![c] = to]
                  /\ \/ /\ reader[c] = "open" /\ to = "read" /\ UNCHANGED <<wg, connections, open>>
                     \/ /\ reader[c] = "read" /\ to = "close" /\ UNCHANGED <<wg, connections, open>>
                     \/ /\ reader[c] = "close" /\ to = "remove" /\ UNCHANGED <<wg, connections>>
                        /\ open' = [e \in Clients |-> open[e] /\ e \notin {c}]
                     \/ /\ reader[c] = "remove" /\ to = "onclose" /\ UNCHANGED <<wg, open>>
                        /\ connections' = connections \ {c}
                     \/ /\ reader[c] = "onclose" /\ to = "finished" /\ wg' = wg - 1
                        /\ UNCHANGED <<connections, open>>
    <2>1. CASE Gated!OnOpen(c) \/ Gated!ReadFails(c)
      BY <2>1, Zenon DEF Gated!OnOpen, Gated!ReadFails, Gated!Goto, Gated!serverVars, Gated!acceptVars,
                         Gated!connVars
    <2>2. CASE Gated!ReaderCloses(c) \/ Gated!Remove(c)
      BY <2>2, Zenon DEF Gated!ReaderCloses, Gated!Remove, Gated!CloseConns, Gated!Goto,
                         Gated!serverVars, Gated!acceptVars, Gated!connVars
    <2>3. CASE Gated!OnClose(c)
      BY <2>3, Zenon DEF Gated!OnClose, Gated!Goto, Gated!serverVars, Gated!acceptVars, Gated!connVars
    <2> QED
      BY <2>1, <2>2, <2>3, Zenon DEF Gated!RunStep
  <1>2. reader'[c] = to /\ \A e \in Clients : e # c => reader'[e] = reader[e]
    BY <1>t, <1>1 DEF GateTypes
  <1>3. GateTypes'
    <2>1. to \in {"read", "close", "remove", "onclose", "finished"} /\ connections' \subseteq Clients
      BY <1>t, <1>1 DEF GateTypes
    <2>2. open' \in [Clients -> BOOLEAN]
      BY <1>t, <1>1, Zenon DEF GateTypes
    <2> QED
      BY <1>t, <1>1, <2>1, <2>2, Zenon DEF GateTypes
  <1>4. c \in Running
    BY <1>1 DEF Running
  <1>5. wg' = Cardinality(Running') + LoopCount'
    <2>1. CASE to = "finished"
      <3>1. Running' = Running \ {c}
        BY <1>2, <2>1 DEF Running
      <3>2. Cardinality(Running') = Cardinality(Running) - 1
        BY <1>0, <1>4, <3>1, Zenon DEF CountsBelow
      <3> QED
        BY <1>0, <1>t, <1>1, <2>1, <3>2 DEF LoopCount
    <2>2. CASE to # "finished"
      <3>1. Running' = Running
        BY <1>1, <1>2, <2>2 DEF Running
      <3>2. wg' - wg = LoopCount' - LoopCount /\ wg' \in Int
        BY <1>0, <1>1, <2>2 DEF LoopCount
      <3> QED
        BY <1>0, <3>1, <3>2, RunningSame
    <2> QED
      BY <2>1, <2>2, Zenon
  <1>6. Accepting'
    BY <1>t, <1>1, <1>2 DEF Accepting
  <1>7. Sockets'
    BY <1>t, <1>1, <1>2, Zenon DEF Sockets, GateTypes
  <1>8. Entries'
    BY <1>t, <1>1, <1>2 DEF Entries, GateTypes
  <1>9. wg = 0 => wg' = 0
    BY <1>0, <1>4
  <1> QED
    BY <1>1, <1>3, <1>5, <1>6, <1>7, <1>8, <1>9, GateKept, Zenon

\* Stop, the write goroutines and the application only close sockets.
LEMMA CloserKeeps ==
  ASSUME CountsBelow(Clients), GateInv,
         UNCHANGED <<acceptor, raw, reader, connections, wg>>,
         open' \in [Clients -> BOOLEAN], \A c \in Clients : open'[c] => open[c],
         stopper' \in {"idle", "lock", "wait", "returned", "expired"},
         stopper' = stopper \/ stopper' # "returned" \/ wg = 0
  PROVE  GateInv'
  <1>1. Running' = Running /\ LoopCount' = LoopCount
    BY Zenon DEF Running, LoopCount
  <1>2. wg' = Cardinality(Running') + LoopCount'
    BY <1>1, Zenon DEF GateInv
  <1>3. GateTypes' /\ Accepting' /\ Entries'
    BY Zenon DEF GateInv, GateTypes, Accepting, Entries
  <1>4. Sockets'
    BY Zenon DEF GateInv, Sockets
  <1> QED
    BY <1>2, <1>3, <1>4, GateKept, Zenon

\* Every step of the server keeps the invariant.
LEMMA GateStep ==
  ASSUME CountsBelow(Clients), None \notin Clients, GateInv, [Gated!Next]_(Gated!vars)
  PROVE  GateInv'
  <1>t. open \in [Clients -> BOOLEAN] /\ stopper \in {"idle", "lock", "wait", "returned", "expired"}
    BY Zenon DEF GateInv, GateTypes
  <1>c. ASSUME NEW cs, Gated!CloseConns(cs)
        PROVE  open' \in [Clients -> BOOLEAN] /\ \A c \in Clients : open'[c] => open[c]
    BY <1>t, <1>c DEF Gated!CloseConns
  <1>1. CASE \/ Gated!Start \/ Gated!AcceptStep
             \/ \E c \in Clients : Gated!Accept(c) \/ Gated!RunStep(c) \/ Gated!ReadFails(c)
    BY <1>1, LoopKeeps, RegisterKeeps, RunKeeps, Zenon DEF Gated!AcceptStep
  <1>2. CASE UNCHANGED Gated!vars \/ Gated!StopFlag \/ Gated!StopReturns \/ Gated!StopExpires
    <2>1. /\ UNCHANGED <<acceptor, raw, reader, connections, wg, open>>
          /\ stopper' = stopper \/ stopper' \in {"lock", "expired"} \/ (stopper' = "returned" /\ wg = 0)
      BY <1>2 DEF Gated!vars, Gated!StopFlag, Gated!StopReturns, Gated!StopExpires,
                  Gated!serverVars, Gated!acceptVars, Gated!connVars
    <2> QED
      BY <1>t, <2>1, CloserKeeps
  <1>3. CASE Gated!StopCloses
    <2>1. /\ UNCHANGED <<acceptor, raw, reader, connections, wg>> /\ stopper' = "wait"
          /\ Gated!CloseConns(connections)
      BY <1>3, Zenon DEF Gated!StopCloses, Gated!acceptVars
    <2> QED
      BY <1>c, <2>1, CloserKeeps
  <1>4. ASSUME NEW c \in Clients, Gated!WriterStep(c) \/ Gated!Send(c) \/ Gated!Close(c)
        PROVE  GateInv'
    <2>1. /\ UNCHANGED <<acceptor, raw, reader, connections, wg, stopper>>
          /\ open' = open \/ Gated!CloseConns({c})
      <3>1. CASE Gated!WriterTakes(c) \/ Gated!WriteSucceeds(c) \/ Gated!WriterEnds(c)
        BY <3>1, Zenon DEF Gated!WriterTakes, Gated!WriteSucceeds, Gated!WriterEnds,
                           Gated!serverVars, Gated!acceptVars, Gated!connVars
      <3>2. CASE Gated!WriterCloses(c) \/ Gated!Send(c) \/ Gated!Close(c)
        BY <3>2, Zenon DEF Gated!WriterCloses, Gated!Send, Gated!Close, Gated!serverVars,
                           Gated!acceptVars, Gated!connVars
      <3> QED
        BY <1>4, <3>1, <3>2, Zenon DEF Gated!WriterStep
    <2>2. open' \in [Clients -> BOOLEAN] /\ \A e \in Clients : open'[e] => open[e]
      BY <1>c, <1>t, <2>1, Zenon
    <2> QED
      BY <1>t, <2>1, <2>2, CloserKeeps
  <1> QED
    BY <1>1, <1>2, <1>3, <1>4, Zenon DEF Gated!Next

-----------------------------------------------------------------------------
(* The pool of synchronous connections: its inductive invariant *)

\* The clients that use a connection, and those that dial one.
Using == Sync!Using
Dialing == Sync!Dialing

\* p.total is exact, and every counter is a natural number.
PoolInv ==
  /\ pc \in [Clients -> {"ready", "acquire", "take", "lock", "dial", "use", "sleep"}]
  /\ idle \in Nat /\ batch \in Nat
  /\ total = idle + batch + Cardinality(Using) + Cardinality(Dialing)
  /\ total <= MaxSize

\* An empty pool satisfies the invariant.
LEMMA PoolInit ==
  ASSUME CountsBelow(Clients), MaxSize \in Nat
  PROVE  Sync!Init => PoolInv
  <1> SUFFICES ASSUME Sync!Init PROVE PoolInv
    OBVIOUS
  <1>1. Using = {} /\ Dialing = {}
    BY DEF Using, Dialing, Sync!Using, Sync!Dialing, Sync!Init
  <1>2. Cardinality(Using) = 0 /\ Cardinality(Dialing) = 0
    BY <1>1, Zenon DEF CountsBelow
  <1> QED
    BY <1>2 DEF PoolInv, Sync!Init

\* What the two counts become when one client moves.
LEMMA ClientMoves ==
  ASSUME CountsBelow(Clients), PoolInv, NEW c \in Clients,
         NEW to \in {"ready", "acquire", "take", "lock", "dial", "use", "sleep"},
         pc' = [pc EXCEPT ![c] = to]
  PROVE  /\ pc' \in [Clients -> {"ready", "acquire", "take", "lock", "dial", "use", "sleep"}]
         /\ Cardinality(Using) \in Nat /\ Cardinality(Dialing) \in Nat
         /\ Cardinality(Using') =
              Cardinality(Using) - (IF pc[c] = "use" THEN 1 ELSE 0) + (IF to = "use" THEN 1 ELSE 0)
         /\ Cardinality(Dialing') =
              Cardinality(Dialing) - (IF pc[c] = "dial" THEN 1 ELSE 0) + (IF to = "dial" THEN 1 ELSE 0)
  <1>1. /\ pc' \in [Clients -> {"ready", "acquire", "take", "lock", "dial", "use", "sleep"}]
        /\ pc'[c] = to /\ \A e \in Clients : e # c => pc'[e] = pc[e]
    BY DEF PoolInv
  <1>2. Using \in SUBSET Clients /\ Dialing \in SUBSET Clients
    BY DEF Using, Dialing, Sync!Using, Sync!Dialing
  <1>3. Cardinality(Using) \in Nat /\ Cardinality(Dialing) \in Nat
    BY <1>2, Zenon DEF CountsBelow
  <1>4. Cardinality(Using') =
          Cardinality(Using) - (IF pc[c] = "use" THEN 1 ELSE 0) + (IF to = "use" THEN 1 ELSE 0)
    <2>1. CASE pc[c] = "use" <=> to = "use"
      <3>1. Using' = Using
        BY <1>1, <2>1 DEF Using, Sync!Using
      <3> QED
        BY <1>3, <2>1, <3>1
    <2>2. CASE pc[c] = "use" /\ to # "use"
      <3>1. c \in Using /\ Using' = Using \ {c}
        BY <1>1, <2>2 DEF Using, Sync!Using
      <3>2. Cardinality(Using') = Cardinality(Using) - 1
        BY <1>2, <3>1, Zenon DEF CountsBelow
      <3> QED
        BY <1>3, <2>2, <3>2
    <2>3. CASE pc[c] # "use" /\ to = "use"
      <3>1. c \notin Using /\ Using' = Using \cup {c}
        BY <1>1, <2>3 DEF Using, Sync!Using
      <3>2. Cardinality(Using') = Cardinality(Using) + 1
        BY <1>2, <3>1, Zenon DEF CountsBelow
      <3> QED
        BY <1>3, <2>3, <3>2
    <2> QED
      BY <2>1, <2>2, <2>3, Zenon
  <1>5. Cardinality(Dialing') =
          Cardinality(Dialing) - (IF pc[c] = "dial" THEN 1 ELSE 0) + (IF to = "dial" THEN 1 ELSE 0)
    <2>1. CASE pc[c] = "dial" <=> to = "dial"
      <3>1. Dialing' = Dialing
        BY <1>1, <2>1 DEF Dialing, Sync!Dialing
      <3> QED
        BY <1>3, <2>1, <3>1
    <2>2. CASE pc[c] = "dial" /\ to # "dial"
      <3>1. c \in Dialing /\ Dialing' = Dialing \ {c}
        BY <1>1, <2>2 DEF Dialing, Sync!Dialing
      <3>2. Cardinality(Dialing') = Cardinality(Dialing) - 1
        BY <1>2, <3>1, Zenon DEF CountsBelow
      <3> QED
        BY <1>3, <2>2, <3>2
    <2>3. CASE pc[c] # "dial" /\ to = "dial"
      <3>1. c \notin Dialing /\ Dialing' = Dialing \cup {c}
        BY <1>1, <2>3 DEF Dialing, Sync!Dialing
      <3>2. Cardinality(Dialing') = Cardinality(Dialing) + 1
        BY <1>2, <3>1, Zenon DEF CountsBelow
      <3> QED
        BY <1>3, <2>3, <3>2
    <2> QED
      BY <2>1, <2>2, <2>3, Zenon
  <1> QED
    BY <1>1, <1>3, <1>4, <1>5, Zenon

\* The places of the pool after a step that moves one client: each action keeps the sum.
LEMMA ClientKeeps ==
  ASSUME CountsBelow(Clients), MaxSize \in Nat, PoolInv, NEW c \in Clients,
         Sync!Do(c) \/ Sync!ClientStep(c)
  PROVE  PoolInv'
  <1>1. PICK to \in {"ready", "acquire", "take", "lock", "dial", "use", "sleep"} :
          /\ pc' = [pc EXCEPT ![c] = to] /\ batch' = batch
          /\ \/ /\ pc[c] \notin {"use", "dial"} /\ to \notin {"use", "dial"} /\ UNCHANGED <<idle, total>>
             \/ pc[c] = "take" /\ to = "use" /\ idle > 0 /\ idle' = idle - 1 /\ total' = total
             \/ /\ pc[c] = "lock" /\ to = "dial" /\ idle' = idle /\ total' = total + 1
                /\ ~(total >= MaxSize)
             \/ pc[c] = "dial" /\ to = "use" /\ UNCHANGED <<idle, total>>
             \/ pc[c] = "dial" /\ to \notin {"use", "dial"} /\ idle' = idle /\ total' = total - 1
             \/ pc[c] = "use" /\ to \notin {"use", "dial"} /\ idle' = idle /\ total' = total - 1
             \/ pc[c] = "use" /\ to \notin {"use", "dial"} /\ idle' = idle + 1 /\ total' = total
    <2> USE DEF Sync!Goto
    <2>1. ASSUME NEW from, NEW err, Sync!EndAttempt(c, from, err)
          PROVE  pc[c] = from /\ (pc' = [pc EXCEPT ![c] = "ready"] \/ pc' = [pc EXCEPT ![c] = "sleep"])
      BY <2>1, Zenon DEF Sync!EndAttempt
    <2>2. CASE Sync!Do(c)
      BY <2>2 DEF Sync!Do
    <2>3. CASE Sync!SleepRetry(c)
      BY <2>3 DEF Sync!SleepRetry
    <2>4. CASE Sync!AcquireCheck(c)
      BY <2>1, <2>4 DEF Sync!AcquireCheck
    <2>5. CASE Sync!AcquireIdle(c)
      BY <2>5 DEF Sync!AcquireIdle
    <2>6. CASE Sync!AcquireCancelled(c)
      BY <2>1, <2>6 DEF Sync!AcquireCancelled
    <2>7. CASE Sync!AcquireNew(c)
      BY <2>1, <2>7 DEF Sync!AcquireNew
    <2>8. CASE Sync!Dial(c)
      BY <2>1, <2>8 DEF Sync!Dial, Sync!GiveBackPlace
    <2>9. CASE Sync!RequestFails(c) \/ Sync!RequestSucceeds(c)
      BY <2>1, <2>9 DEF Sync!RequestFails, Sync!RequestSucceeds, Sync!CloseConn, Sync!PutBack
    <2> QED
      BY <2>2, <2>3, <2>4, <2>5, <2>6, <2>7, <2>8, <2>9, Zenon DEF Sync!ClientStep
  <1>2. /\ pc' \in [Clients -> {"ready", "acquire", "take", "lock", "dial", "use", "sleep"}]
        /\ Cardinality(Using) \in Nat /\ Cardinality(Dialing) \in Nat
        /\ Cardinality(Using') =
             Cardinality(Using) - (IF pc[c] = "use" THEN 1 ELSE 0) + (IF to = "use" THEN 1 ELSE 0)
        /\ Cardinality(Dialing') =
             Cardinality(Dialing) - (IF pc[c] = "dial" THEN 1 ELSE 0) + (IF to = "dial" THEN 1 ELSE 0)
    BY <1>1, ClientMoves, Zenon
  <1>3. /\ idle \in Nat /\ batch \in Nat /\ total <= MaxSize
        /\ total = idle + batch + Cardinality(Using) + Cardinality(Dialing)
    BY Zenon DEF PoolInv
  <1>4. /\ idle' \in Nat /\ batch' \in Nat /\ total' <= MaxSize
        /\ total' = idle' + batch' + Cardinality(Using') + Cardinality(Dialing')
    BY <1>1, <1>2, <1>3
  <1> QED
    BY <1>2, <1>4, Zenon DEF PoolInv

\* Close and the sweep move connections between p.idle and the batch, or close them.
LEMMA SweepKeeps ==
  ASSUME CountsBelow(Clients), MaxSize \in Nat, PoolInv, Sync!CloseBegin \/ Sync!PoolStep
  PROVE  PoolInv'
  <1>1. /\ pc' = pc
        /\ \/ UNCHANGED <<idle, batch, total>>
           \/ idle > 0 /\ idle' = idle - 1 /\ total' = total - 1 /\ batch' = batch
           \/ idle > 0 /\ idle' = idle - 1 /\ batch' = batch + 1 /\ total' = total
           \/ batch # 0 /\ batch' = batch - 1 /\ idle' = idle + 1 /\ total' = total
           \/ batch # 0 /\ batch' = batch - 1 /\ idle' = idle /\ total' = total - 1
    <2>1. CASE Sync!CloseBegin \/ Sync!CloseDrain
      BY <2>1, Zenon DEF Sync!CloseBegin, Sync!CloseDrain, Sync!clientVars
    <2>2. CASE Sync!SweepBegin \/ Sync!SweepCollect
      BY <2>2, Zenon DEF Sync!SweepBegin, Sync!SweepCollect, Sync!clientVars
    <2>3. CASE Sync!SweepProcess
      BY <2>3, Zenon DEF Sync!SweepProcess, Sync!PutBack, Sync!CloseConn, Sync!clientVars
    <2> QED
      BY <2>1, <2>2, <2>3, Zenon DEF Sync!PoolStep
  <1>2. Using' = Using /\ Dialing' = Dialing
    BY <1>1, Zenon DEF Using, Dialing, Sync!Using, Sync!Dialing
  <1>3. /\ idle \in Nat /\ batch \in Nat /\ total <= MaxSize
        /\ total = idle + batch + Cardinality(Using) + Cardinality(Dialing)
    BY Zenon DEF PoolInv
  <1>4. Cardinality(Using) \in Nat /\ Cardinality(Dialing) \in Nat
    <2>1. Using \in SUBSET Clients /\ Dialing \in SUBSET Clients
      BY DEF Using, Dialing, Sync!Using, Sync!Dialing
    <2> QED
      BY <2>1, Zenon DEF CountsBelow
  <1>5. /\ idle' \in Nat /\ batch' \in Nat /\ total' <= MaxSize
        /\ total' = idle' + batch' + Cardinality(Using') + Cardinality(Dialing')
    <2>1. Cardinality(Using') = Cardinality(Using) /\ Cardinality(Dialing') = Cardinality(Dialing)
      BY <1>2, Zenon
    <2> QED
      BY <1>1, <1>3, <1>4, <2>1
  <1> QED
    BY <1>1, <1>5, Zenon DEF PoolInv

-----------------------------------------------------------------------------
(* The theorems *)

INSTANCE FiniteSetTheorems

\* The subsets of a finite set are counted one by one.
LEMMA FiniteCounts ==
  ASSUME NEW T, IsFiniteSet(T)
  PROVE  CountsBelow(T)
  <1>1. ASSUME NEW S \in SUBSET T PROVE IsFiniteSet(S) /\ Cardinality(S) \in Nat
    BY FS_Subset, FS_CardinalityType, Zenon
  <1>2. ASSUME NEW S \in SUBSET T PROVE Cardinality(S) = 0 <=> S = {}
    BY <1>1, FS_EmptySet, Zenon
  <1>3. ASSUME NEW S \in SUBSET T, NEW x, x \notin S
        PROVE  Cardinality(S \cup {x}) = Cardinality(S) + 1
    BY <1>1, <1>3, FS_AddElement, Zenon
  <1>4. ASSUME NEW S \in SUBSET T, NEW x \in S PROVE Cardinality(S \ {x}) = Cardinality(S) - 1
    BY <1>1, <1>4, FS_RemoveElement, Zenon
  <1> QED
    BY <1>1, <1>2, <1>3, <1>4, Zenon DEF CountsBelow

\* Stop of the gate server returns nil only when no accept loop, no connection between
\* OnOpen and OnClose, no entry of s.connections and no open socket is left.
THEOREM StopsAreClean ==
  ASSUME Gated!GateAssumption
  PROVE  Gated!Spec => []StopIsClean
  <1>1. CountsBelow(Clients) /\ None \notin Clients
    BY FiniteCounts, Zenon DEF Gated!GateAssumption, Gated!IsFiniteSet, IsFiniteSet
  <1>2. GateInv => StopIsClean
    <2> SUFFICES ASSUME GateInv, stopper = "returned"
                 PROVE  /\ acceptor \in {"none", "exited"}
                        /\ \A c \in Clients : reader[c] \in {"none", "rejected", "finished"} /\ ~open[c]
                        /\ connections = {}
      BY Zenon DEF StopIsClean, Gated!StopIsClean
    <2>1. wg = 0
      BY Zenon DEF GateInv, Seen
    <2>2. Running = {} /\ acceptor \in {"none", "exited"}
      BY <1>1, <2>1, ZeroMeansNone, Zenon
    <2>3. GateTypes /\ Accepting /\ Sockets /\ Entries
      BY Zenon DEF GateInv
    <2>4. \A c \in Clients : reader[c] \in {"none", "rejected", "finished"}
      BY <2>2, <2>3 DEF Running, GateTypes, Accepting
    <2>5. \A c \in Clients : ~open[c]
      BY <2>3, <2>4 DEF Sockets
    <2>6. connections = {}
      BY <2>2, <2>3, <2>4 DEF Entries, GateTypes
    <2> QED
      BY <2>2, <2>4, <2>5, <2>6, Zenon
  <1> QED
    BY <1>1, <1>2, GateInit, GateStep, PTL DEF Gated!Spec

\* p.total counts the connections that are open or being dialled, wherever they are, and
\* never exceeds MaxSize.
THEOREM PoolTotalExact ==
  ASSUME Sync!SyncPoolAssumption
  PROVE  Sync!Spec => []TotalExact
  <1>1. CountsBelow(Clients) /\ MaxSize \in Nat
    BY FiniteCounts, Zenon DEF Sync!SyncPoolAssumption, Sync!IsFiniteSet, IsFiniteSet
  <1>2. PoolInv /\ [Sync!Next]_(Sync!vars) => PoolInv'
    <2> SUFFICES ASSUME PoolInv, [Sync!Next]_(Sync!vars) PROVE PoolInv'
      OBVIOUS
    <2>1. CASE UNCHANGED Sync!vars
      <3>1. UNCHANGED <<idle, total, batch, pc>>
        BY <2>1, Zenon DEF Sync!vars, Sync!clientVars
      <3>2. Using' = Using /\ Dialing' = Dialing
        BY <3>1, Zenon DEF Using, Dialing, Sync!Using, Sync!Dialing
      <3> QED
        BY <3>1, <3>2, Zenon DEF PoolInv
    <2>2. ASSUME NEW c \in Clients, Sync!Do(c) \/ Sync!ClientStep(c) PROVE PoolInv'
      BY <1>1, <2>2, ClientKeeps, Zenon
    <2>3. CASE Sync!CloseBegin \/ Sync!PoolStep
      BY <1>1, <2>3, SweepKeeps, Zenon
    <2> QED
      BY <2>1, <2>2, <2>3, Zenon DEF Sync!Next
  <1>3. PoolInv => TotalExact
    <2>1. \A S : Sync!Cardinality(S) = Cardinality(S)
      BY Zenon DEF Sync!Cardinality, Cardinality, Sync!IsFiniteSet, IsFiniteSet
    <2> QED
      BY <2>1, Zenon DEF PoolInv, Using, Dialing, TotalExact, Sync!TotalExact
  <1> QED
    BY <1>1, <1>2, <1>3, PoolInit, PTL DEF Sync!Spec
=============================================================================
