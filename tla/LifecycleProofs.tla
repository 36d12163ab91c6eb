-------------------------- MODULE LifecycleProofs --------------------------
(***************************************************************************)
(* Proofs about the shutdown of the program for any number of nodes and      *)
(* relayers and any traffic.  The invariant says what each phase of stop()   *)
(* has ended: the traffic, then the relayers, then the nodes; every place    *)
(* that makes a message belongs to one of them.                             *)
(***************************************************************************)
EXTENDS Lifecycle, TLAPS

\* The phases after the join of the traffic, of the relayers and of the nodes
NodesDown == mpc \in {"drain", "shutdown", "hung", "joinRun", "exit"}
RelayersDown == mpc = "stopNodes" \/ NodesDown
TrafficDown == mpc = "stopRelayers" \/ RelayersDown

\* A thread was created before main() goes on, and nothing is created twice.
ThreadsCreated ==
  /\ \A p \in Parts : running[p] => wpc[p] # "none"
  /\ mpc # "startNodes" => \A n \in Nodes : wpc[n] # "none"
  /\ mpc \notin {"startNodes", "startRelayers"} => \A r \in Relayers : wpc[r] # "none"

\* What stop() is at work on belongs to the phase, and what it has done with
\* has no thread.
StopsInOrder ==
  /\ stopping \in Nodes => mpc = "stopNodes"
  /\ stopping \in Relayers => mpc = "stopRelayers"
  /\ \A p \in Parts : ~running[p] /\ p # stopping => wpc[p] \in {"none", "ended"}
  /\ TrafficDown => tpc = "ended"
  /\ RelayersDown => \A r \in Relayers : ~running[r]
  /\ NodesDown => \A n \in Nodes : ~running[n]

\* Queues close, and so refuse, in the phase of their part or later.
ClosesInOrder ==
  /\ \A r \in Relayers : closed[r] => TrafficDown
  /\ \A n \in Nodes : closed[n] => RelayersDown
  /\ \A msg \in refused : TrafficDown /\ (msg.kind = "ack" \/ RelayersDown)

DrainedInv == mpc \in {"shutdown", "hung", "joinRun", "exit"} => transit = {}

OrderInv == ThreadsCreated /\ StopsInOrder /\ ClosesInOrder /\ DrainedInv

IInv == TypeOK /\ OrderInv

-----------------------------------------------------------------------------
(* Types *)

\* What publish() queues and what closed queues refuse of a message
LEMMA PublishTypes ==
  ASSUME TypeOK, NEW msg \in Messages
  PROVE  /\ Queued(msg) \in [Parts -> SUBSET Messages]
         /\ Refused(msg) \subseteq Messages
         /\ \A m \in Refused(msg) : m.kind = msg.kind /\ m.id = msg.id
         /\ \A m \in Refused(msg) : \E r \in Relayers : closed[r]
<1>1. \A r \in Relayers :
        /\ [msg EXCEPT !.via = r] \in Messages
        /\ [msg EXCEPT !.via = r].kind = msg.kind
        /\ [msg EXCEPT !.via = r].id = msg.id
  BY DEF Messages
<1>2. Queued(msg) \in [Parts -> SUBSET Messages]
  BY <1>1 DEF Queued, TypeOK, Parts
<1>3. \A m \in Refused(msg) : \E r \in Relayers : closed[r] /\ m = [msg EXCEPT !.via = r]
  BY Zenon DEF Refused
<1>4. ASSUME NEW m \in Refused(msg)
      PROVE  m \in Messages /\ m.kind = msg.kind /\ m.id = msg.id /\ \E r \in Relayers : closed[r]
  <2>1. PICK r \in Relayers : closed[r] /\ m = [msg EXCEPT !.via = r]
    BY <1>3
  <2>2. /\ [msg EXCEPT !.via = r] \in Messages
        /\ [msg EXCEPT !.via = r].kind = msg.kind
        /\ [msg EXCEPT !.via = r].id = msg.id
    BY <1>1
  <2> QED  BY <2>1, <2>2, Zenon
<1> QED  BY <1>2, <1>4

\* What a step of the traffic makes
LEMMA GenerateTypes ==
  ASSUME TypeOK, Generate
  PROVE  /\ generated' \in 0..MaxTraffic
         /\ queue' \in [Parts -> SUBSET Messages]
         /\ transit' \subseteq Messages
         /\ refused' \subseteq Messages
         /\ accepted' = accepted /\ handled' = handled
         /\ \A m \in refused' : m \in refused \/ \E r \in Relayers : closed[r]
<1>1. generated < MaxTraffic /\ generated' = generated + 1
  BY DEF Generate
<1>2. generated + 1 \in 1..MaxTraffic /\ generated' \in 0..MaxTraffic
  BY <1>1, LifecycleAssumption DEF TypeOK
<1>3. CASE SubmitTransaction
  <2>1. PICK n \in Nodes :
          /\ transit' = transit \union
               {[kind |-> "tx", id |-> generated + 1, src |-> n, to |-> n, via |-> NoPart]}
          /\ UNCHANGED <<queue, accepted, handled, refused>>
    BY <1>3 DEF SubmitTransaction
  <2>2. [kind |-> "tx", id |-> generated + 1, src |-> n, to |-> n, via |-> NoPart] \in Messages
    BY <1>2 DEF Messages
  <2> QED  BY <1>2, <2>1, <2>2 DEF TypeOK
<1>4. CASE SendPacket
  <2>1. PICK a \in Nodes, b \in Nodes :
          LET msg == [kind |-> "data", id |-> generated + 1, src |-> a, to |-> b, via |-> NoPart]
          IN  /\ queue' = Queued(msg)
              /\ refused' = refused \union Refused(msg)
              /\ UNCHANGED <<transit, accepted, handled>>
    BY <1>4 DEF SendPacket
  <2> DEFINE msg == [kind |-> "data", id |-> generated + 1, src |-> a, to |-> b, via |-> NoPart]
  <2>2. msg \in Messages
    BY <1>2 DEF Messages
  <2>3. /\ queue' = Queued(msg)
        /\ refused' = refused \union Refused(msg)
        /\ UNCHANGED <<transit, accepted, handled>>
    BY <2>1
  <2> HIDE DEF msg
  <2> QED  BY <1>2, <2>2, <2>3, PublishTypes DEF TypeOK
<1> QED  BY <1>3, <1>4 DEF Generate

\* What a node's step makes of a message from its inbox
LEMMA HandleTypes ==
  ASSUME TypeOK, NEW n \in Parts, Handle(n)
  PROVE  /\ queue' \in [Parts -> SUBSET Messages]
         /\ refused' \subseteq Messages /\ handled' \subseteq Messages
         /\ accepted' \subseteq 1..MaxTraffic
         /\ \A m \in refused' :
              m \in refused \/ (m.kind = "ack" /\ \E r \in Relayers : closed[r])
<1>1. PICK msg \in queue[n] :
        /\ handled' = handled \union {msg}
        /\ \/ /\ msg.kind = "data"
              /\ msg.id \notin accepted
              /\ accepted' = accepted \union {msg.id}
              /\ LET ack == [msg EXCEPT !.kind = "ack", !.src = n, !.to = msg.src]
                 IN  /\ queue' = [Queued(ack) EXCEPT ![n] = queue[n] \ {msg}]
                     /\ refused' = refused \union Refused(ack)
           \/ /\ queue' = [queue EXCEPT ![n] = @ \ {msg}]
              /\ UNCHANGED <<accepted, refused>>
  BY DEF Handle
<1>2. n \in Nodes /\ msg \in Messages
  BY DEF Handle, TypeOK
<1> DEFINE ack == [msg EXCEPT !.kind = "ack", !.src = n, !.to = msg.src]
<1>3. ack \in Messages /\ ack.kind = "ack" /\ msg.id \in 1..MaxTraffic
  BY <1>2 DEF Messages
<1>4. CASE /\ accepted' = accepted \union {msg.id}
           /\ queue' = [Queued(ack) EXCEPT ![n] = queue[n] \ {msg}]
           /\ refused' = refused \union Refused(ack)
  <2> HIDE DEF ack
  <2>1. /\ Queued(ack) \in [Parts -> SUBSET Messages]
        /\ Refused(ack) \subseteq Messages
        /\ \A m \in Refused(ack) : m.kind = "ack" /\ \E r \in Relayers : closed[r]
    BY <1>3, PublishTypes
  <2> QED  BY <1>1, <1>2, <1>3, <1>4, <2>1 DEF TypeOK
<1>5. CASE /\ queue' = [queue EXCEPT ![n] = @ \ {msg}]
           /\ UNCHANGED <<accepted, refused>>
  BY <1>1, <1>2, <1>5 DEF TypeOK
<1> QED  BY <1>1, <1>4, <1>5

\* What a relayer's half iteration does to its queue and the transport
LEMMA RelayTypes ==
  ASSUME TypeOK, NEW r \in Parts, NEW kind, Relay(r, kind)
  PROVE  queue' \in [Parts -> SUBSET Messages] /\ transit' \subseteq Messages
<1>1. CASE UNCHANGED <<queue, transit>>
  BY <1>1 DEF TypeOK
<1>2. CASE \E msg \in queue[r] :
             /\ msg.kind = kind
             /\ queue' = [queue EXCEPT ![r] = @ \ {msg}]
             /\ transit' = transit \union {msg}
  BY <1>2 DEF TypeOK
<1> QED  BY <1>1, <1>2 DEF Relay

LEMMA TypeInit == Init => TypeOK
<1>1. MaxTraffic \in Nat
  BY LifecycleAssumption
<1> SUFFICES ASSUME Init PROVE TypeOK
  OBVIOUS
<1>2. /\ mpc = "startNodes" /\ stopping \in Parts \union {NoPart}
      /\ g_stop \in BOOLEAN /\ trafficRunning \in BOOLEAN
      /\ rpc = "none" /\ tpc = "none" /\ generated = 0
  BY Zenon DEF Init
<1>3. /\ running \in [Parts -> BOOLEAN] /\ closed \in [Parts -> BOOLEAN]
      /\ wpc \in [Parts -> {"none", "loop", "take", "takeAck", "ended"}]
      /\ queue \in [Parts -> SUBSET Messages]
  <2>1. running \in [Parts -> BOOLEAN] /\ closed \in [Parts -> BOOLEAN]
    BY DEF Init
  <2>2. wpc \in [Parts -> {"none", "loop", "take", "takeAck", "ended"}]
    BY DEF Init
  <2>3. queue \in [Parts -> SUBSET Messages]
    BY DEF Init
  <2> QED  BY <2>1, <2>2, <2>3
<1>4. /\ transit \subseteq Messages /\ handled \subseteq Messages
      /\ refused \subseteq Messages /\ accepted \subseteq 1..MaxTraffic
  BY DEF Init
<1>5. 0 \in 0..MaxTraffic
  BY <1>1
<1> QED  BY <1>2, <1>3, <1>4, <1>5 DEF TypeOK

\* Every step keeps the types.
LEMMA TypeStep == TypeOK /\ [Next]_vars => TypeOK'
<1> SUFFICES ASSUME TypeOK, [Next]_vars PROVE TypeOK'
  OBVIOUS
<1> USE DEF mainVars, trafficVars, partVars, messageVars
<1>1. CASE NodesStarted \/ StartTraffic \/ SpawnRun \/ RunElapses \/ Interrupt
  BY <1>1 DEF NodesStarted, StartTraffic, SpawnRun, RunElapses, Interrupt, TypeOK
<1>2. CASE BeginStop \/ JoinTraffic \/ RelayersStopped \/ NodesStopped \/ Drain
             \/ Shutdown \/ ShutdownHangs \/ JoinRun
  BY <1>2 DEF BeginStop, JoinTraffic, RelayersStopped, NodesStopped, Drain, Shutdown, ShutdownHangs, JoinRun, TypeOK
<1>3. ASSUME NEW p \in Parts, Start(p) \/ ClearRunning(p) \/ CloseQueues(p) \/ Join(p)
      PROVE  TypeOK'
  <2>1. CASE Start(p)
    BY <2>1 DEF Start, TypeOK
  <2>2. CASE ClearRunning(p)
    BY <2>2 DEF ClearRunning, TypeOK
  <2>3. CASE CloseQueues(p)
    BY <2>3 DEF CloseQueues, TypeOK
  <2>4. CASE Join(p)
    BY <2>4 DEF Join, TypeOK
  <2> QED  BY <1>3, <2>1, <2>2, <2>3, <2>4
<1>4. CASE InjectTraffic
  BY <1>4, GenerateTypes DEF InjectTraffic, TypeOK
<1>5. CASE TrafficLoop \/ TrafficWakes
  BY <1>5 DEF TrafficLoop, TrafficWakes, TypeOK
<1>6. CASE TrafficGenerates
  BY <1>6, GenerateTypes DEF TrafficGenerates, TypeOK
<1>7. ASSUME NEW p \in Parts, Loop(p) \/ TakeNothing(p)
      PROVE  TypeOK'
  <2>1. wpc' \in [Parts -> {"none", "loop", "take", "takeAck", "ended"}]
    BY <1>7 DEF Loop, TakeNothing, TypeOK
  <2>2. UNCHANGED <<mainVars, trafficVars, running, closed, messageVars>>
    BY <1>7 DEF Loop, TakeNothing
  <2> QED  BY <2>1, <2>2 DEF TypeOK
<1>8. ASSUME NEW p \in Parts, Handle(p)
      PROVE  TypeOK'
  <2>1. wpc' = [wpc EXCEPT ![p] = "loop"] /\ UNCHANGED <<mainVars, trafficVars, running, closed, transit>>
    BY <1>8 DEF Handle
  <2> QED  BY <1>8, <2>1, HandleTypes DEF TypeOK
<1>9. ASSUME NEW p \in Parts, RelayPacket(p) \/ RelayAck(p)
      PROVE  TypeOK'
  <2>1. CASE RelayPacket(p)
    BY <2>1, RelayTypes DEF RelayPacket, TypeOK
  <2>2. CASE RelayAck(p)
    BY <2>2, RelayTypes DEF RelayAck, TypeOK
  <2> QED  BY <1>9, <2>1, <2>2
<1>10. ASSUME NEW msg \in transit, Deliver(msg)
       PROVE  TypeOK'
  <2>1. msg \in Messages /\ msg.to \in Parts
    BY <1>10 DEF TypeOK, Messages, Parts
  <2> QED  BY <1>10, <2>1 DEF Deliver, TypeOK
<1>11. CASE Terminated \/ UNCHANGED vars
  BY <1>11 DEF Terminated, vars, TypeOK
<1> QED  BY <1>1, <1>2, <1>3, <1>4, <1>5, <1>6, <1>7, <1>8, <1>9, <1>10, <1>11
         DEF Next, MainStep, TrafficStep, PartStep

\* Every variable of the program keeps its type.
THEOREM TypeCorrect == Spec => []TypeOK
BY TypeInit, TypeStep, PTL DEF Spec

-----------------------------------------------------------------------------
(* The order of the shutdown *)

LEMMA OrderInit == Init => OrderInv
<1> SUFFICES ASSUME Init PROVE OrderInv
  OBVIOUS
<1>1. /\ mpc = "startNodes" /\ stopping = NoPart
      /\ \A p \in Parts : ~running[p] /\ ~closed[p] /\ wpc[p] = "none"
      /\ refused = {}
  BY Zenon DEF Init
<1> QED  BY <1>1, LifecycleAssumption
         DEF OrderInv, ThreadsCreated, StopsInOrder, ClosesInOrder, DrainedInv,
             TrafficDown, RelayersDown, NodesDown, Parts

\* What main() does keeps the order.
LEMMA MainOrder ==
  ASSUME IInv, MainStep
  PROVE  OrderInv'
<1> USE DEF IInv, mainVars, trafficVars, partVars, messageVars, TrafficDown, RelayersDown, NodesDown
<1>1. Nodes \intersect Relayers = {} /\ NoPart \notin Nodes /\ NoPart \notin Relayers
  BY LifecycleAssumption
<1>2. ASSUME UNCHANGED <<stopping, running, closed, wpc, refused, transit>>,
             NodesStarted \/ StartTraffic \/ SpawnRun \/ BeginStop \/ JoinTraffic
             \/ RelayersStopped \/ NodesStopped \/ Drain
             \/ Shutdown \/ ShutdownHangs \/ JoinRun
      PROVE  OrderInv'
  <2>1. ThreadsCreated'
    BY <1>2 DEF OrderInv, ThreadsCreated, NodesStarted, StartTraffic, SpawnRun, BeginStop,
                JoinTraffic, RelayersStopped, NodesStopped, Drain, Shutdown, ShutdownHangs, JoinRun, Parts
  <2>2. StopsInOrder'
    BY <1>1, <1>2 DEF OrderInv, StopsInOrder, NodesStarted, StartTraffic, SpawnRun, BeginStop,
                JoinTraffic, RelayersStopped, NodesStopped, Drain, Shutdown, ShutdownHangs, JoinRun
  <2>3. ClosesInOrder'
    BY <1>2 DEF OrderInv, ClosesInOrder, NodesStarted, StartTraffic, SpawnRun, BeginStop,
                JoinTraffic, RelayersStopped, NodesStopped, Drain, Shutdown, ShutdownHangs, JoinRun
  <2>4. DrainedInv'
    BY <1>2 DEF OrderInv, DrainedInv, NodesStarted, StartTraffic, SpawnRun, BeginStop,
                JoinTraffic, RelayersStopped, NodesStopped, Drain, Shutdown, ShutdownHangs, JoinRun
  <2> QED  BY <2>1, <2>2, <2>3, <2>4 DEF OrderInv
<1>3. ASSUME NEW p \in Parts, Start(p)
      PROVE  OrderInv'
  BY <1>1, <1>3 DEF Start, OrderInv, ThreadsCreated, StopsInOrder, ClosesInOrder, DrainedInv,
                    Parts, TypeOK
<1>4. ASSUME NEW p \in Parts, ClearRunning(p)
      PROVE  OrderInv'
  BY <1>1, <1>4 DEF ClearRunning, OrderInv, ThreadsCreated, StopsInOrder, ClosesInOrder, DrainedInv,
                    Parts, TypeOK
<1>5. ASSUME NEW p \in Parts, CloseQueues(p)
      PROVE  OrderInv'
  BY <1>1, <1>5 DEF CloseQueues, OrderInv, ThreadsCreated, StopsInOrder, ClosesInOrder, DrainedInv,
                    Parts, TypeOK
<1>6. ASSUME NEW p \in Parts, Join(p)
      PROVE  OrderInv'
  BY <1>1, <1>6 DEF Join, OrderInv, ThreadsCreated, StopsInOrder, ClosesInOrder, DrainedInv,
                    Parts, TypeOK
<1>7. CASE NodesStarted \/ StartTraffic \/ SpawnRun \/ BeginStop \/ JoinTraffic
             \/ RelayersStopped \/ NodesStopped \/ Drain
             \/ Shutdown \/ ShutdownHangs \/ JoinRun
  <2>1. UNCHANGED <<stopping, running, closed, wpc, refused, transit>>
    BY <1>7 DEF NodesStarted, StartTraffic, SpawnRun, BeginStop, JoinTraffic,
                RelayersStopped, NodesStopped, Drain, Shutdown, ShutdownHangs, JoinRun
  <2> QED  BY <1>2, <1>7, <2>1
<1> QED  BY <1>3, <1>4, <1>5, <1>6, <1>7 DEF MainStep

\* So does the traffic, which is over before anything closes.
LEMMA TrafficOrder ==
  ASSUME IInv, InjectTraffic \/ TrafficStep
  PROVE  OrderInv'
<1> USE DEF IInv, mainVars, trafficVars, partVars, messageVars, TrafficDown, RelayersDown, NodesDown
<1>1. CASE TrafficLoop \/ TrafficWakes
  BY <1>1 DEF TrafficLoop, TrafficWakes, OrderInv, ThreadsCreated, StopsInOrder, ClosesInOrder, DrainedInv
<1>2. CASE InjectTraffic \/ TrafficGenerates
  <2>1. /\ ~TrafficDown /\ ~TrafficDown'
        /\ UNCHANGED <<mpc, stopping, running, closed, wpc>>
    BY <1>2 DEF InjectTraffic, TrafficGenerates, OrderInv, StopsInOrder
  <2>2. refused' \subseteq refused
    <3>1. \A r \in Relayers : ~closed[r]
      BY <2>1 DEF OrderInv, ClosesInOrder
    <3>2. CASE Generate
      BY <3>1, <3>2, GenerateTypes
    <3>3. CASE UNCHANGED messageVars
      BY <3>3
    <3> QED  BY <1>2, <3>2, <3>3 DEF InjectTraffic, TrafficGenerates
  <2> QED  BY <2>1, <2>2 DEF OrderInv, ThreadsCreated, StopsInOrder, ClosesInOrder, DrainedInv
<1> QED  BY <1>1, <1>2 DEF TrafficStep

\* So do the threads of nodes and relayers, which only lose their right to run.
LEMMA PartOrder ==
  ASSUME IInv, NEW p \in Parts, PartStep(p)
  PROVE  OrderInv'
<1> USE DEF IInv, mainVars, trafficVars, partVars, messageVars, TrafficDown, RelayersDown, NodesDown
<1>1. CASE Loop(p) \/ TakeNothing(p)
  BY <1>1 DEF Loop, TakeNothing, OrderInv, ThreadsCreated, StopsInOrder, ClosesInOrder, DrainedInv,
              Parts, TypeOK
<1>2. ASSUME wpc[p] \in {"take", "takeAck"},
             \E pc \in {"take", "takeAck", "loop"} : wpc' = [wpc EXCEPT ![p] = pc],
             UNCHANGED <<mpc, stopping, running, closed, tpc>>
      PROVE  ThreadsCreated' /\ StopsInOrder'
  BY <1>2 DEF OrderInv, ThreadsCreated, StopsInOrder, Parts, TypeOK
<1>3. CASE Handle(p)
  <2>1. /\ wpc[p] = "take" /\ wpc' = [wpc EXCEPT ![p] = "loop"]
        /\ UNCHANGED <<mpc, stopping, running, closed, tpc, transit>>
    BY <1>3 DEF Handle
  <2>2. ClosesInOrder' /\ DrainedInv'
    BY <1>3, <2>1, HandleTypes DEF OrderInv, ClosesInOrder, DrainedInv
  <2> QED  BY <1>2, <2>1, <2>2 DEF OrderInv
<1>4. CASE RelayPacket(p) \/ RelayAck(p)
  <2>1. /\ p \in Relayers /\ wpc[p] \in {"take", "takeAck"}
        /\ \E pc \in {"take", "takeAck", "loop"} : wpc' = [wpc EXCEPT ![p] = pc]
        /\ UNCHANGED <<mpc, stopping, running, closed, tpc, refused>>
    BY <1>4 DEF RelayPacket, RelayAck
  <2>2. ~NodesDown
    BY <2>1 DEF OrderInv, StopsInOrder, Parts
  <2>3. ClosesInOrder' /\ DrainedInv'
    BY <2>1, <2>2 DEF OrderInv, ClosesInOrder, DrainedInv
  <2> QED  BY <1>2, <2>1, <2>3 DEF OrderInv
<1> QED  BY <1>1, <1>3, <1>4 DEF PartStep

LEMMA DeliverOrder ==
  ASSUME IInv, NEW msg \in transit, Deliver(msg)
  PROVE  OrderInv'
<1> USE DEF IInv, mainVars, trafficVars, partVars, TrafficDown, RelayersDown, NodesDown
<1>1. msg.to \in Nodes
  BY DEF TypeOK, Messages
<1>2. /\ transit' \subseteq transit
      /\ UNCHANGED <<mpc, stopping, running, closed, wpc, tpc>>
      /\ refused' = refused \/ (closed[msg.to] /\ refused' = refused \union {msg})
  BY DEF Deliver
<1> QED  BY <1>1, <1>2 DEF OrderInv, ThreadsCreated, StopsInOrder, ClosesInOrder, DrainedInv

LEMMA OrderStep == IInv /\ [Next]_vars => IInv'
<1> SUFFICES ASSUME IInv, [Next]_vars PROVE IInv'
  OBVIOUS
<1>1. TypeOK'
  BY TypeStep DEF IInv
<1>2. CASE RunElapses \/ Interrupt \/ Terminated \/ UNCHANGED vars
  BY <1>1, <1>2 DEF RunElapses, Interrupt, Terminated, vars, mainVars, trafficVars, partVars, messageVars,
    IInv, OrderInv, ThreadsCreated, StopsInOrder, ClosesInOrder, DrainedInv, TrafficDown, RelayersDown, NodesDown
<1> QED  BY <1>1, <1>2, MainOrder, TrafficOrder, PartOrder, DeliverOrder DEF Next, IInv

\* The strengthened invariant of the shutdown holds in every behaviour.
THEOREM Invariant == Spec => []IInv
<1>1. Init => IInv
  BY TypeInit, OrderInit DEF IInv
<1> QED  BY <1>1, OrderStep, PTL DEF Spec

\* Whenever stop() comes and whatever is on its way then, no thread and no
\* message is left when SimulationController::stop() returns.
THEOREM StopLeavesNothing == Spec => []QuietAfterDrain
<1>1. IInv => QuietAfterDrain
  <2> SUFFICES ASSUME IInv, mpc \in {"shutdown", "hung", "joinRun", "exit"}
               PROVE  tpc = "ended" /\ (\A p \in Parts : wpc[p] = "ended") /\ transit = {}
    BY DEF QuietAfterDrain
  <2> QED  BY DEF IInv, OrderInv, ThreadsCreated, StopsInOrder, DrainedInv,
                  TrafficDown, RelayersDown, NodesDown, Parts
<1> QED  BY Invariant, <1>1, PTL

\* The order in which stop() takes the parts down bounds what a closed queue
\* refuses, for any number of parts.
THEOREM RefusalsInOrder == Spec => []RefusedInOrder
<1>1. IInv => RefusedInOrder
  BY DEF IInv, RefusedInOrder, OrderInv, ThreadsCreated, StopsInOrder, ClosesInOrder,
         TrafficDown, RelayersDown, NodesDown, Parts
<1> QED  BY Invariant, <1>1, PTL

-----------------------------------------------------------------------------
(* No message is lost or doubled *)

\* A message is in one place.
Apart ==
  /\ \A p, q \in Parts : p # q => queue[p] \intersect queue[q] = {}
  /\ \A p \in Parts : queue[p] \intersect (transit \union handled \union refused) = {}
  /\ transit \intersect (handled \union refused) = {}
  /\ handled \intersect refused = {}

Somewhere(m) ==
  \/ \E p \in Parts : m \in queue[p]
  \/ m \in transit \union handled \union refused

\* What is somewhere was generated; an ack's packet was accepted.  This is why a
\* message that is made is nowhere yet.
Generated ==
  \A m \in Messages : Somewhere(m) => m.id <= generated /\ (m.kind = "ack" => m.id \in accepted)

\* Each message generated is somewhere, as itself or as a copy.
Present == \A i \in 1..generated : \E m \in Messages : Somewhere(m) /\ m.id = i

PlaceInv == Apart /\ Generated /\ Present

Copy(msg, r) == [msg EXCEPT !.via = r]

LEMMA CopyFacts ==
  ASSUME NEW msg \in Messages, NEW r \in Relayers
  PROVE  /\ Copy(msg, r) \in Messages
         /\ Copy(msg, r).kind = msg.kind /\ Copy(msg, r).id = msg.id
         /\ Copy(msg, r).via = r
BY DEF Copy, Messages

\* Where publish() puts the copies of a message
LEMMA Publishing ==
  ASSUME TypeOK, NEW msg \in Messages
  PROVE  /\ \A p \in Parts : Queued(msg)[p] = IF p \in Relayers /\ ~closed[p]
                                             THEN queue[p] \union {Copy(msg, p)} ELSE queue[p]
         /\ \A m : m \in Refused(msg) <=> \E r \in Relayers : closed[r] /\ m = Copy(msg, r)
<1>1. \A p \in Parts : Queued(msg)[p] = IF p \in Relayers /\ ~closed[p]
                                        THEN queue[p] \union {Copy(msg, p)} ELSE queue[p]
  BY DEF Queued, Copy
<1>2. \A m : m \in Refused(msg) <=> \E r \in Relayers : closed[r] /\ m = Copy(msg, r)
  BY Zenon DEF Refused, Copy
<1> QED  BY <1>1, <1>2

\* Publishing a message with no copies yet keeps all messages apart, and keeps
\* what was somewhere there.
LEMMA PublishingApart ==
  ASSUME TypeOK, Apart, NEW msg \in Messages,
         \A r \in Relayers : ~Somewhere(Copy(msg, r))
  PROVE  /\ \A p, q \in Parts : p # q => Queued(msg)[p] \intersect Queued(msg)[q] = {}
         /\ \A p \in Parts :
              Queued(msg)[p] \intersect (transit \union handled \union refused \union Refused(msg)) = {}
         /\ Refused(msg) \intersect (transit \union handled) = {}
         /\ \A p \in Parts : queue[p] \subseteq Queued(msg)[p]
         /\ \A p \in Parts : \A m \in Queued(msg)[p] :
              m \in queue[p] \/ \E r \in Relayers : m = Copy(msg, r)
<1>1. /\ \A p \in Parts : Queued(msg)[p] = IF p \in Relayers /\ ~closed[p]
                                            THEN queue[p] \union {Copy(msg, p)} ELSE queue[p]
      /\ \A m : m \in Refused(msg) <=> \E r \in Relayers : closed[r] /\ m = Copy(msg, r)
  BY Publishing
<1>2. \A q, r \in Relayers : q # r => Copy(msg, q) # Copy(msg, r)
  BY CopyFacts
<1>3. /\ \A r \in Relayers : \A p \in Parts : Copy(msg, r) \notin queue[p]
      /\ \A r \in Relayers : Copy(msg, r) \notin transit \union handled \union refused
  BY DEF Somewhere
<1>4. \A p \in Parts : \A m \in Queued(msg)[p] :
        m \in queue[p] \/ (p \in Relayers /\ ~closed[p] /\ m = Copy(msg, p))
  BY <1>1
<1>5. \A p, q \in Parts : p # q => Queued(msg)[p] \intersect Queued(msg)[q] = {}
  <2> SUFFICES ASSUME NEW p \in Parts, NEW q \in Parts, p # q,
                      NEW m \in Queued(msg)[p], m \in Queued(msg)[q]
               PROVE  FALSE
    OBVIOUS
  <2>1. ~(m \in queue[p] /\ m \in queue[q])
    BY DEF Apart
  <2> QED  BY <1>2, <1>3, <1>4, <2>1
<1>6. \A p \in Parts :
        Queued(msg)[p] \intersect (transit \union handled \union refused \union Refused(msg)) = {}
  <2> SUFFICES ASSUME NEW p \in Parts, NEW m \in Queued(msg)[p],
                      m \in transit \union handled \union refused \union Refused(msg)
               PROVE  FALSE
    OBVIOUS
  <2>1. CASE m \in Refused(msg)
    <3>1. PICK r \in Relayers : closed[r] /\ m = Copy(msg, r)
      BY <1>1, <2>1
    <3> QED  BY <1>2, <1>3, <1>4, <3>1
  <2>2. CASE m \in transit \union handled \union refused
    <3>1. m \notin queue[p]
      BY <2>2 DEF Apart
    <3> QED  BY <1>3, <1>4, <2>2, <3>1
  <2> QED  BY <2>1, <2>2
<1>7. Refused(msg) \intersect (transit \union handled) = {}
  BY <1>1, <1>3
<1> QED  BY <1>1, <1>4, <1>5, <1>6, <1>7

LEMMA PlaceInit == Init => PlaceInv
<1> SUFFICES ASSUME Init PROVE PlaceInv
  OBVIOUS
<1>1. /\ \A p \in Parts : queue[p] = {}
      /\ transit = {} /\ handled = {} /\ refused = {} /\ generated = 0
  BY Zenon DEF Init
<1> QED  BY <1>1 DEF PlaceInv, Apart, Generated, Present, Somewhere

\* A new message has a new number.
LEMMA GeneratePlaces ==
  ASSUME TypeOK, PlaceInv, Relayers # {}, Generate
  PROVE  PlaceInv'
<1>1. /\ generated' = generated + 1 /\ generated \in Nat
      /\ generated + 1 \in 1..MaxTraffic
  BY LifecycleAssumption DEF Generate, TypeOK
<1>2. CASE SubmitTransaction
  <2>1. PICK n \in Nodes :
          /\ transit' = transit \union
               {[kind |-> "tx", id |-> generated + 1, src |-> n, to |-> n, via |-> NoPart]}
          /\ UNCHANGED <<queue, accepted, handled, refused>>
    BY <1>2 DEF SubmitTransaction
  <2> DEFINE tx == [kind |-> "tx", id |-> generated + 1, src |-> n, to |-> n, via |-> NoPart]
  <2>2. tx \in Messages /\ tx.id = generated + 1 /\ tx.kind = "tx"
    BY <1>1 DEF Messages
  <2>3. transit' = transit \union {tx} /\ UNCHANGED <<queue, accepted, handled, refused>>
    BY <2>1
  <2> HIDE DEF tx
  <2>4. ~Somewhere(tx)
    BY <1>1, <2>2 DEF PlaceInv, Generated
  <2>5. Apart'
    BY <2>3, <2>4 DEF PlaceInv, Apart, Somewhere
  <2>6. \A m : Somewhere(m)' <=> Somewhere(m) \/ m = tx
    BY <2>3 DEF Somewhere
  <2>7. Generated'
    BY <1>1, <2>2, <2>3, <2>6 DEF PlaceInv, Generated, Messages
  <2>8. Present'
    BY <1>1, <2>2, <2>6 DEF PlaceInv, Present
  <2> QED  BY <2>5, <2>7, <2>8 DEF PlaceInv
<1>3. CASE SendPacket
  <2>1. PICK a \in Nodes, b \in Nodes :
          LET msg == [kind |-> "data", id |-> generated + 1, src |-> a, to |-> b, via |-> NoPart]
          IN  /\ queue' = Queued(msg)
              /\ refused' = refused \union Refused(msg)
              /\ UNCHANGED <<transit, accepted, handled>>
    BY <1>3 DEF SendPacket
  <2>2. [kind |-> "data", id |-> generated + 1, src |-> a, to |-> b, via |-> NoPart] \in Messages
    BY <1>1 DEF Messages
  <2>3. PICK msg \in Messages :
          /\ msg.id = generated + 1 /\ msg.kind = "data"
          /\ queue' = Queued(msg)
          /\ refused' = refused \union Refused(msg)
          /\ UNCHANGED <<transit, accepted, handled>>
    BY <2>1, <2>2
  <2>4. \A r \in Relayers : /\ Copy(msg, r) \in Messages
                           /\ Copy(msg, r).id = generated + 1 /\ Copy(msg, r).kind = "data"
    BY <2>3, CopyFacts
  <2>5. \A r \in Relayers : ~Somewhere(Copy(msg, r))
    BY <1>1, <2>4 DEF PlaceInv, Generated
  <2>6. /\ \A p, q \in Parts : p # q => Queued(msg)[p] \intersect Queued(msg)[q] = {}
        /\ \A p \in Parts :
             Queued(msg)[p] \intersect (transit \union handled \union refused \union Refused(msg)) = {}
        /\ Refused(msg) \intersect (transit \union handled) = {}
        /\ \A p \in Parts : queue[p] \subseteq Queued(msg)[p]
        /\ \A p \in Parts : \A m \in Queued(msg)[p] :
             m \in queue[p] \/ \E r \in Relayers : m = Copy(msg, r)
    BY <2>5, PublishingApart DEF PlaceInv
  <2>7. Apart'
    BY <2>3, <2>6 DEF PlaceInv, Apart
  <2>8. /\ \A p \in Parts : Queued(msg)[p] = IF p \in Relayers /\ ~closed[p]
                                             THEN queue[p] \union {Copy(msg, p)} ELSE queue[p]
        /\ \A m : m \in Refused(msg) <=> \E r \in Relayers : closed[r] /\ m = Copy(msg, r)
    BY Publishing
  <2>9. \A m : Somewhere(m) => Somewhere(m)'
    BY <2>3, <2>6 DEF Somewhere
  <2>10. \A m : Somewhere(m)' => Somewhere(m) \/ \E r \in Relayers : m = Copy(msg, r)
    BY <2>3, <2>6, <2>8 DEF Somewhere
  <2>11. \A r \in Relayers : Somewhere(Copy(msg, r))'
    BY <2>3, <2>8 DEF Somewhere, Parts
  <2>12. Generated'
    BY <1>1, <2>3, <2>4, <2>10 DEF PlaceInv, Generated, Messages
  <2>13. Present'
    <3>1. PICK r \in Relayers : TRUE
      OBVIOUS
    <3>2. Copy(msg, r) \in Messages /\ Somewhere(Copy(msg, r))' /\ Copy(msg, r).id = generated + 1
      BY <2>4, <2>11
    <3>3. ASSUME NEW i \in 1..generated
          PROVE  \E m \in Messages : Somewhere(m)' /\ m.id = i
      BY <2>9 DEF PlaceInv, Present
    <3>4. \A i \in 1..generated' : i \in 1..generated \/ i = generated + 1
      BY <1>1
    <3> QED  BY <3>2, <3>3, <3>4 DEF Present
  <2> QED  BY <2>7, <2>12, <2>13 DEF PlaceInv
<1> QED  BY <1>2, <1>3 DEF Generate

\* What moves a message and makes none keeps the messages apart.
LEMMA MovePlaces ==
  ASSUME TypeOK, PlaceInv, UNCHANGED <<generated, accepted>>, Apart',
         \A m : Somewhere(m)' <=> Somewhere(m)
  PROVE  PlaceInv'
BY DEF PlaceInv, Generated, Present

LEMMA HandlePlaces ==
  ASSUME TypeOK, PlaceInv, NEW n \in Parts, Handle(n)
  PROVE  PlaceInv'
<1>1. PICK msg \in queue[n] :
        /\ handled' = handled \union {msg}
        /\ \/ /\ msg.kind = "data"
              /\ msg.id \notin accepted
              /\ accepted' = accepted \union {msg.id}
              /\ LET ack == [msg EXCEPT !.kind = "ack", !.src = n, !.to = msg.src]
                 IN  /\ queue' = [Queued(ack) EXCEPT ![n] = queue[n] \ {msg}]
                     /\ refused' = refused \union Refused(ack)
           \/ /\ queue' = [queue EXCEPT ![n] = @ \ {msg}]
              /\ UNCHANGED <<accepted, refused>>
  BY DEF Handle
<1>2. /\ n \in Nodes /\ n \notin Relayers /\ msg \in Messages /\ Somewhere(msg)
      /\ transit' = transit /\ generated' = generated
  BY LifecycleAssumption DEF Handle, TypeOK, Somewhere, trafficVars
<1> DEFINE ack == [msg EXCEPT !.kind = "ack", !.src = n, !.to = msg.src]
<1>3. ack \in Messages /\ ack.kind = "ack" /\ ack.id = msg.id
  BY <1>2 DEF Messages
<1>4. CASE /\ msg.id \notin accepted
           /\ accepted' = accepted \union {msg.id}
           /\ queue' = [Queued(ack) EXCEPT ![n] = queue[n] \ {msg}]
           /\ refused' = refused \union Refused(ack)
  <2> HIDE DEF ack
  <2>1. \A r \in Relayers : /\ Copy(ack, r) \in Messages
                           /\ Copy(ack, r).id = msg.id /\ Copy(ack, r).kind = "ack"
    BY <1>3, CopyFacts
  <2>2. \A r \in Relayers : ~Somewhere(Copy(ack, r))
    BY <1>4, <2>1 DEF PlaceInv, Generated
  <2>3. /\ \A p, q \in Parts : p # q => Queued(ack)[p] \intersect Queued(ack)[q] = {}
        /\ \A p \in Parts :
             Queued(ack)[p] \intersect (transit \union handled \union refused \union Refused(ack)) = {}
        /\ Refused(ack) \intersect (transit \union handled) = {}
        /\ \A p \in Parts : queue[p] \subseteq Queued(ack)[p]
        /\ \A p \in Parts : \A m \in Queued(ack)[p] :
             m \in queue[p] \/ \E r \in Relayers : m = Copy(ack, r)
    BY <1>3, <2>2, PublishingApart DEF PlaceInv
  <2>4. \A m \in Refused(ack) : \E r \in Relayers : m = Copy(ack, r)
    BY <1>3, Publishing
  <2>5. \A p \in Parts : queue'[p] = IF p = n THEN queue[n] \ {msg} ELSE Queued(ack)[p]
    BY <1>3, <1>4, PublishTypes
  <2>6. msg \notin Refused(ack) /\ msg \notin transit \union handled \union refused
    BY <1>2, <2>2, <2>4 DEF PlaceInv, Apart
  <2>7. \A p \in Parts : p # n => msg \notin Queued(ack)[p]
    BY <2>3
  <2>8. Apart'
    <3>1. \A p \in Parts : queue'[p] \subseteq Queued(ack)[p] /\ msg \notin queue'[p]
      BY <2>3, <2>5, <2>7
    <3> QED  BY <1>1, <1>2, <1>4, <2>3, <2>6, <3>1 DEF PlaceInv, Apart
  <2>9. \A m : Somewhere(m) => Somewhere(m)'
    BY <1>1, <1>2, <1>4, <2>3, <2>5 DEF Somewhere
  <2>10. \A m : Somewhere(m)' => Somewhere(m) \/ \E r \in Relayers : m = Copy(ack, r)
    BY <1>1, <1>2, <1>4, <2>3, <2>4, <2>5 DEF Somewhere
  <2>11. Generated'
    BY <1>2, <1>4, <2>1, <2>10 DEF PlaceInv, Generated
  <2>12. Present'
    BY <1>2, <2>9 DEF PlaceInv, Present
  <2> QED  BY <2>8, <2>11, <2>12 DEF PlaceInv
<1>5. CASE /\ queue' = [queue EXCEPT ![n] = @ \ {msg}]
           /\ UNCHANGED <<accepted, refused>>
  <2>1. \A p \in Parts : queue'[p] = IF p = n THEN queue[n] \ {msg} ELSE queue[p]
    BY <1>5 DEF TypeOK
  <2>2. Apart'
    BY <1>1, <1>2, <1>5, <2>1 DEF PlaceInv, Apart
  <2>3. \A m : Somewhere(m)' <=> Somewhere(m)
    BY <1>1, <1>2, <1>5, <2>1 DEF Somewhere
  <2> QED  BY <1>2, <1>5, <2>2, <2>3, MovePlaces
<1> QED  BY <1>1, <1>4, <1>5

LEMMA RelayPlaces ==
  ASSUME TypeOK, PlaceInv, NEW r \in Parts, NEW kind, Relay(r, kind),
         UNCHANGED <<generated, accepted, handled, refused>>
  PROVE  PlaceInv'
<1>1. CASE UNCHANGED <<queue, transit>>
  BY <1>1 DEF PlaceInv, Apart, Generated, Present, Somewhere
<1>2. ASSUME NEW msg \in queue[r],
             queue' = [queue EXCEPT ![r] = @ \ {msg}],
             transit' = transit \union {msg}
      PROVE  PlaceInv'
  <2>1. \A p \in Parts : queue'[p] = IF p = r THEN queue[r] \ {msg} ELSE queue[p]
    BY <1>2 DEF TypeOK
  <2>2. Apart'
    BY <1>2, <2>1 DEF PlaceInv, Apart
  <2>3. \A m : Somewhere(m)' <=> Somewhere(m)
    BY <1>2, <2>1 DEF Somewhere
  <2> QED  BY <2>2, <2>3, MovePlaces
<1> QED  BY <1>1, <1>2 DEF Relay

LEMMA DeliverPlaces ==
  ASSUME TypeOK, PlaceInv, NEW msg \in transit, Deliver(msg)
  PROVE  PlaceInv'
<1>1. /\ msg.to \in Parts
      /\ transit' = transit \ {msg}
      /\ UNCHANGED <<generated, accepted, handled>>
  BY DEF TypeOK, Messages, Parts, Deliver, trafficVars
<1>2. CASE refused' = refused \union {msg} /\ queue' = queue
  <2>1. Apart'
    BY <1>1, <1>2 DEF PlaceInv, Apart
  <2>2. \A m : Somewhere(m)' <=> Somewhere(m)
    BY <1>1, <1>2 DEF Somewhere
  <2> QED  BY <1>1, <2>1, <2>2, MovePlaces
<1>3. CASE queue' = [queue EXCEPT ![msg.to] = @ \union {msg}] /\ refused' = refused
  <2>1. \A p \in Parts : queue'[p] = IF p = msg.to THEN queue[p] \union {msg} ELSE queue[p]
    BY <1>3 DEF TypeOK
  <2>2. Apart'
    BY <1>1, <1>3, <2>1 DEF PlaceInv, Apart
  <2>3. \A m : Somewhere(m)' <=> Somewhere(m)
    BY <1>1, <1>3, <2>1 DEF Somewhere
  <2> QED  BY <1>1, <2>2, <2>3, MovePlaces
<1> QED  BY <1>2, <1>3 DEF Deliver

LEMMA PlaceStep ==
  ASSUME Relayers # {}
  PROVE  TypeOK /\ PlaceInv /\ [Next]_vars => PlaceInv'
<1> SUFFICES ASSUME TypeOK, PlaceInv, [Next]_vars PROVE PlaceInv'
  OBVIOUS
<1> USE DEF mainVars, trafficVars, partVars, messageVars
<1>1. CASE UNCHANGED <<messageVars, generated>>
  BY <1>1 DEF PlaceInv, Apart, Generated, Present, Somewhere
<1>2. CASE MainStep
  <2>1. UNCHANGED <<messageVars, generated>>
    BY <1>2 DEF MainStep, NodesStarted, StartTraffic, SpawnRun, BeginStop, JoinTraffic,
      RelayersStopped, NodesStopped, Drain, Shutdown, ShutdownHangs, JoinRun, Start, ClearRunning, CloseQueues, Join
  <2> QED  BY <1>1, <2>1
<1>3. CASE InjectTraffic \/ TrafficStep
  <2>1. Generate \/ UNCHANGED <<messageVars, generated>>
    BY <1>3 DEF InjectTraffic, TrafficStep, TrafficLoop, TrafficWakes, TrafficGenerates
  <2> QED  BY <1>1, <2>1, GeneratePlaces
<1>4. ASSUME NEW p \in Parts, PartStep(p)
      PROVE  PlaceInv'
  <2>1. CASE Loop(p) \/ TakeNothing(p)
    BY <1>1, <2>1 DEF Loop, TakeNothing
  <2>2. CASE Handle(p)
    BY <2>2, HandlePlaces
  <2>3. CASE RelayPacket(p)
    BY <2>3, RelayPlaces DEF RelayPacket
  <2>4. CASE RelayAck(p)
    BY <2>4, RelayPlaces DEF RelayAck
  <2> QED  BY <1>4, <2>1, <2>2, <2>3, <2>4 DEF PartStep
<1>5. CASE RunElapses \/ Interrupt \/ Terminated \/ UNCHANGED vars
  BY <1>1, <1>5 DEF RunElapses, Interrupt, Terminated, vars
<1> QED  BY <1>2, <1>3, <1>4, <1>5, DeliverPlaces DEF Next

\* With at least one relayer (SimulationConfig::relayerCount is 3) no message is lost or
\* doubled, whenever stop() comes.
THEOREM NothingIsLost ==
  ASSUME Relayers # {}
  PROVE  Spec => []NothingVanishes
<1>1. TypeOK /\ PlaceInv => NothingVanishes
  <2> SUFFICES ASSUME TypeOK, PlaceInv PROVE NothingVanishes
    OBVIOUS
  <2> DEFINE waiting == UNION {queue[p] : p \in Parts}
             all == waiting \union transit \union handled \union refused
  <2>1. \A m : m \in all <=> Somewhere(m)
    BY DEF Somewhere
  <2>2. \A m \in all : m \in Messages
    BY DEF TypeOK
  <2>3. \A m \in all : m.id \in 1..generated
    BY <2>1, <2>2, LifecycleAssumption DEF PlaceInv, Generated, Messages, TypeOK
  <2>4. \A i \in 1..generated : \E m \in all : m.id = i
    BY <2>1 DEF PlaceInv, Present
  <2>5. /\ waiting \intersect (transit \union handled \union refused) = {}
        /\ transit \intersect (handled \union refused) = {}
        /\ handled \intersect refused = {}
    BY DEF PlaceInv, Apart
  <2>6. {msg.id : msg \in all} = 1..generated
    BY <2>3, <2>4
  <2> QED  BY <2>5, <2>6 DEF NothingVanishes
<1> QED  BY <1>1, TypeInit, TypeStep, PlaceInit, PlaceStep, PTL DEF Spec
=============================================================================
