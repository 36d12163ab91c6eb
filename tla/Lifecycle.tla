------------------------------ MODULE Lifecycle ------------------------------
(***************************************************************************)
(* How the program comes up and goes down: main(), the threads that          *)
(* SimulationController::start() creates and stop() ends, and what happens   *)
(* to the messages on their way meanwhile.                                  *)
(*                                                                          *)
(* A node and a relayer have the same life: start() sets running_ and        *)
(* creates the thread, stop() clears running_, closes the queues and joins.  *)
(* A closed queue throws at push(), which Node::onBytes() and the event      *)
(* handlers of the relayer catch: the message is gone.  The transport is a   *)
(* set of messages here (Transport.tla has its threads), and messages are    *)
(* told apart only by what they set off.                                    *)
(***************************************************************************)
EXTENDS Naturals, FiniteSets

CONSTANTS
  Nodes,      \* the nodes; any of them may be a chain's mailbox
  Relayers,   \* the relayers
  MaxTraffic  \* bound: the transactions and packets that are generated

NoPart == "none"

ASSUME LifecycleAssumption ==
  /\ Nodes \intersect Relayers = {}
  /\ NoPart \notin Nodes \union Relayers
  /\ IsFiniteSet(Nodes) /\ IsFiniteSet(Relayers)
  /\ MaxTraffic \in Nat

VARIABLES
  mpc,        \* where main() is
  stopping,   \* the node or relayer whose stop() main() is in, if it is in one
  g_stop,     \* g_stop of main.cpp
  rpc,        \* where runThread is
  trafficRunning, tpc,  \* trafficRunning_, and where trafficThread_ is
  running,    \* running_ of each node and relayer
  closed,     \* whether its queues are closed
  wpc,        \* where its thread is
  queue,      \* its inbox, or its pending packets and acks
  transit,    \* what send() accepted and no handler got yet
  accepted,   \* the packets a chain accepted
  generated,  \* history: how many messages traffic made
  handled,    \* history: what node threads took from their inboxes
  refused     \* history: what push() threw at

Parts == Nodes \union Relayers

mainVars == <<mpc, stopping, g_stop, rpc>>
trafficVars == <<trafficRunning, tpc, generated>>
partVars == <<running, closed, wpc>>
messageVars == <<queue, transit, accepted, handled, refused>>
vars == <<mainVars, trafficVars, partVars, messageVars>>

\* A packet goes from one mailbox to another; its ack comes back.  "via" keeps
\* the copies of different relayers apart.
Messages ==
  [kind : {"tx", "data", "ack"}, id : 1..MaxTraffic, src : Nodes, to : Nodes,
   via : Relayers \union {NoPart}]

Init ==
  /\ mpc = "startNodes" /\ stopping = NoPart /\ g_stop = FALSE /\ rpc = "none"
  /\ trafficRunning = FALSE /\ tpc = "none" /\ generated = 0
  /\ running = [p \in Parts |-> FALSE]
  /\ closed = [p \in Parts |-> FALSE]
  /\ wpc = [p \in Parts |-> "none"]
  /\ queue = [p \in Parts |-> {}]
  /\ transit = {} /\ accepted = {} /\ handled = {} /\ refused = {}

-----------------------------------------------------------------------------
(* main(): coming up *)

\* Node::start() and Relayer::start(); in the order of the vectors, here in any
Start(p) ==
  /\ mpc = IF p \in Nodes THEN "startNodes" ELSE "startRelayers"
  /\ ~running[p]
  /\ running' = [running EXCEPT ![p] = TRUE]
  /\ wpc' = [wpc EXCEPT ![p] = "loop"]
  /\ UNCHANGED <<mainVars, trafficVars, closed, messageVars>>

\* SimulationController::start() from one loop to the next, and the start of
\* the traffic thread
NodesStarted ==
  /\ mpc = "startNodes"
  /\ \A n \in Nodes : running[n]
  /\ mpc' = "startRelayers"
  /\ UNCHANGED <<stopping, g_stop, rpc, trafficVars, partVars, messageVars>>

StartTraffic ==
  /\ mpc = "startRelayers"
  /\ \A r \in Relayers : running[r]
  /\ trafficRunning' = TRUE
  /\ tpc' = "loop"
  /\ mpc' = "inject"
  /\ UNCHANGED <<stopping, g_stop, rpc, generated, partVars, messageVars>>

\* The thread that only waits for runFor to pass
SpawnRun ==
  /\ mpc = "inject"
  /\ mpc' = "poll"
  /\ rpc' = "running"
  /\ UNCHANGED <<stopping, g_stop, trafficVars, partVars, messageVars>>

RunElapses ==
  /\ rpc = "running"
  /\ rpc' = "finished"
  /\ UNCHANGED <<mpc, stopping, g_stop, trafficVars, partVars, messageVars>>

\* handleSignal()
Interrupt ==
  /\ ~g_stop
  /\ g_stop' = TRUE
  /\ UNCHANGED <<mpc, stopping, rpc, trafficVars, partVars, messageVars>>

-----------------------------------------------------------------------------
(* main(): going down *)

\* The polling loop ends; stop() sees the traffic running.
BeginStop ==
  /\ mpc = "poll"
  /\ g_stop
  /\ trafficRunning' = FALSE
  /\ mpc' = "joinTraffic"
  /\ UNCHANGED <<stopping, g_stop, rpc, tpc, generated, partVars, messageVars>>

\* Mutant: the traffic thread is told to stop and not waited for.
TrafficNotJoined ==
  /\ mpc = "joinTraffic"
  /\ mpc' = "stopRelayers"
  /\ UNCHANGED <<stopping, g_stop, rpc, trafficVars, partVars, messageVars>>

JoinTraffic ==
  /\ mpc = "joinTraffic"
  /\ tpc = "ended"
  /\ mpc' = "stopRelayers"
  /\ UNCHANGED <<stopping, g_stop, rpc, trafficVars, partVars, messageVars>>

\* The three statements of stop() of a node or relayer that is running.
ClearRunning(p) ==
  /\ mpc = IF p \in Nodes THEN "stopNodes" ELSE "stopRelayers"
  /\ stopping = NoPart
  /\ running[p]
  /\ running' = [running EXCEPT ![p] = FALSE]
  /\ stopping' = p
  /\ UNCHANGED <<mpc, g_stop, rpc, trafficVars, closed, wpc, messageVars>>

CloseQueues(p) ==
  /\ stopping = p
  /\ ~closed[p]
  /\ closed' = [closed EXCEPT ![p] = TRUE]
  /\ UNCHANGED <<mainVars, trafficVars, running, wpc, messageVars>>

Join(p) ==
  /\ stopping = p
  /\ closed[p]
  /\ wpc[p] = "ended"
  /\ stopping' = NoPart
  /\ UNCHANGED <<mpc, g_stop, rpc, trafficVars, partVars, messageVars>>

\* Mutant: the nodes are stopped with the relayers still running.
RelayersLeftRunning ==
  /\ mpc = "stopRelayers"
  /\ stopping = NoPart
  /\ mpc' = "stopNodes"
  /\ UNCHANGED <<stopping, g_stop, rpc, trafficVars, partVars, messageVars>>

\* The end of each loop of SimulationController::stop()
RelayersStopped ==
  /\ mpc = "stopRelayers"
  /\ stopping = NoPart
  /\ \A r \in Relayers : ~running[r]
  /\ mpc' = "stopNodes"
  /\ UNCHANGED <<stopping, g_stop, rpc, trafficVars, partVars, messageVars>>

NodesStopped ==
  /\ mpc = "stopNodes"
  /\ stopping = NoPart
  /\ \A n \in Nodes : ~running[n]
  /\ mpc' = "drain"
  /\ UNCHANGED <<stopping, g_stop, rpc, trafficVars, partVars, messageVars>>

\* waitForPendingDeliveries()
Drain ==
  /\ mpc = "drain"
  /\ transit = {}
  /\ mpc' = "shutdown"
  /\ UNCHANGED <<stopping, g_stop, rpc, trafficVars, partVars, messageVars>>

\* Transport::shutdown() joins the pool.
Shutdown ==
  /\ mpc = "shutdown"
  /\ mpc' = "joinRun"
  /\ UNCHANGED <<stopping, g_stop, rpc, trafficVars, partVars, messageVars>>

\* A worker that had read running_ before it was cleared, and slept only after
\* notify_all(), sleeps for ever, and so does the join (ShutdownTerminates of Transport).
ShutdownHangs ==
  /\ mpc = "shutdown"
  /\ mpc' = "hung"
  /\ UNCHANGED <<stopping, g_stop, rpc, trafficVars, partVars, messageVars>>

\* runThread.join(); the destructor's stop() then finds every flag cleared and
\* nothing pending.
JoinRun ==
  /\ mpc = "joinRun"
  /\ rpc = "finished"
  /\ mpc' = "exit"
  /\ UNCHANGED <<stopping, g_stop, rpc, trafficVars, partVars, messageVars>>

-----------------------------------------------------------------------------
(* Traffic *)

\* Node::submitTransaction(): a node sends a transaction to itself.
SubmitTransaction ==
  \E n \in Nodes :
    /\ transit' = transit \union
         {[kind |-> "tx", id |-> generated + 1, src |-> n, to |-> n, via |-> NoPart]}
    /\ UNCHANGED <<queue, accepted, handled, refused>>

\* EventBus::publish() to the relayers
Queued(msg) ==
  [p \in Parts |-> IF p \in Relayers /\ ~closed[p]
                   THEN queue[p] \union {[msg EXCEPT !.via = p]} ELSE queue[p]]
Refused(msg) == {[msg EXCEPT !.via = r] : r \in {r \in Relayers : closed[r]}}

SendPacket ==
  \E a, b \in Nodes :
    LET msg == [kind |-> "data", id |-> generated + 1, src |-> a, to |-> b, via |-> NoPart]
    IN  /\ a # b
        /\ queue' = Queued(msg)
        /\ refused' = refused \union Refused(msg)
        /\ UNCHANGED <<transit, accepted, handled>>

\* generateRandomTransaction(), generateRandomIBCPacket(), and the same two in
\* injectTraffic()
Generate ==
  /\ generated < MaxTraffic
  /\ generated' = generated + 1
  /\ SubmitTransaction \/ SendPacket

InjectTraffic ==
  /\ mpc = "inject"
  /\ Generate
  /\ UNCHANGED <<mainVars, trafficRunning, tpc, partVars>>

\* An iteration of trafficGeneratorLoop(): trafficRunning_ is read before and
\* after the sleep.
TrafficLoop ==
  /\ tpc = "loop"
  /\ tpc' = IF trafficRunning THEN "asleep" ELSE "ended"
  /\ UNCHANGED <<mainVars, trafficRunning, generated, partVars, messageVars>>

TrafficWakes ==
  /\ tpc = "asleep"
  /\ tpc' = IF trafficRunning THEN "generate" ELSE "ended"
  /\ UNCHANGED <<mainVars, trafficRunning, generated, partVars, messageVars>>

\* At the bound the thread makes no more messages and goes on looping.
TrafficGenerates ==
  /\ tpc = "generate"
  /\ tpc' = "loop"
  /\ \/ Generate
     \/ generated = MaxTraffic /\ UNCHANGED <<generated, messageVars>>
  /\ UNCHANGED <<mainVars, trafficRunning, partVars>>

-----------------------------------------------------------------------------
(* Node and relayer threads, and the pool of the transport *)

\* Mutant: a thread that sees no traffic leaves.
LoopWithTraffic(p) ==
  /\ wpc[p] = "loop"
  /\ wpc' = [wpc EXCEPT ![p] = IF running[p] /\ trafficRunning THEN "take" ELSE "ended"]
  /\ UNCHANGED <<mainVars, trafficVars, running, closed, messageVars>>

\* Mutant: only a closed inbox ends a thread.
LoopForever(p) ==
  /\ wpc[p] = "loop"
  /\ wpc' = [wpc EXCEPT ![p] = "take"]
  /\ UNCHANGED <<mainVars, trafficVars, running, closed, messageVars>>

\* while (running_)
Loop(p) ==
  /\ wpc[p] = "loop"
  /\ wpc' = [wpc EXCEPT ![p] = IF running[p] THEN "take" ELSE "ended"]
  /\ UNCHANGED <<mainVars, trafficVars, running, closed, messageVars>>

\* waitPop() throws and the loop is left.
TakeNothing(n) ==
  /\ n \in Nodes
  /\ wpc[n] = "take"
  /\ queue[n] = {}
  /\ closed[n]
  /\ wpc' = [wpc EXCEPT ![n] = "ended"]
  /\ UNCHANGED <<mainVars, trafficVars, running, closed, messageVars>>

\* An accepted packet publishes its ack; a copy of it, or a packet that came
\* early, does not.
Handle(n) ==
  /\ n \in Nodes
  /\ wpc[n] = "take"
  /\ \E msg \in queue[n] :
       /\ handled' = handled \union {msg}
       /\ \/ /\ msg.kind = "data"
             /\ msg.id \notin accepted
             /\ accepted' = accepted \union {msg.id}
             /\ LET ack == [msg EXCEPT !.kind = "ack", !.src = n, !.to = msg.src]
                IN  /\ queue' = [Queued(ack) EXCEPT ![n] = queue[n] \ {msg}]
                    /\ refused' = refused \union Refused(ack)
          \/ /\ queue' = [queue EXCEPT ![n] = @ \ {msg}]
             /\ UNCHANGED <<accepted, refused>>
  /\ wpc' = [wpc EXCEPT ![n] = "loop"]
  /\ UNCHANGED <<mainVars, trafficVars, running, closed, transit>>

\* Mutant: the message is read and not popped.
RelayUnpopped(r, kind) ==
  \/ /\ \A msg \in queue[r] : msg.kind # kind
     /\ UNCHANGED <<queue, transit>>
  \/ \E msg \in queue[r] :
       /\ msg.kind = kind
       /\ transit' = transit \union {msg}
       /\ UNCHANGED queue

\* The two halves of an iteration of Relayer::runLoop(): tryPop() and the send
\* of what it gave
Relay(r, kind) ==
  \/ /\ \A msg \in queue[r] : msg.kind # kind
     /\ UNCHANGED <<queue, transit>>
  \/ \E msg \in queue[r] :
       /\ msg.kind = kind
       /\ queue' = [queue EXCEPT ![r] = @ \ {msg}]
       /\ transit' = transit \union {msg}

RelayPacket(r) ==
  /\ r \in Relayers
  /\ wpc[r] = "take"
  /\ Relay(r, "data")
  /\ wpc' = [wpc EXCEPT ![r] = "takeAck"]
  /\ UNCHANGED <<mainVars, trafficVars, running, closed, accepted, handled, refused>>

RelayAck(r) ==
  /\ r \in Relayers
  /\ wpc[r] = "takeAck"
  /\ Relay(r, "ack")
  /\ wpc' = [wpc EXCEPT ![r] = "loop"]
  /\ UNCHANGED <<mainVars, trafficVars, running, closed, accepted, handled, refused>>

\* Node::onBytes() in a thread of the pool
Deliver(msg) ==
  /\ msg \in transit
  /\ transit' = transit \ {msg}
  /\ IF closed[msg.to]
     THEN refused' = refused \union {msg} /\ UNCHANGED queue
     ELSE queue' = [queue EXCEPT ![msg.to] = @ \union {msg}] /\ UNCHANGED refused
  /\ UNCHANGED <<mainVars, trafficVars, partVars, accepted, handled>>

-----------------------------------------------------------------------------

Terminated == mpc \in {"hung", "exit"} /\ UNCHANGED vars

MainStep ==
  \/ NodesStarted \/ StartTraffic \/ SpawnRun
  \/ BeginStop \/ JoinTraffic \/ RelayersStopped \/ NodesStopped
  \/ Drain \/ Shutdown \/ ShutdownHangs \/ JoinRun
  \/ \E p \in Parts : Start(p) \/ ClearRunning(p) \/ CloseQueues(p) \/ Join(p)

TrafficStep == TrafficLoop \/ TrafficWakes \/ TrafficGenerates

PartStep(p) == Loop(p) \/ TakeNothing(p) \/ Handle(p) \/ RelayPacket(p) \/ RelayAck(p)

Next ==
  \/ MainStep \/ InjectTraffic \/ TrafficStep
  \/ RunElapses \/ Interrupt
  \/ \E p \in Parts : PartStep(p)
  \/ \E msg \in transit : Deliver(msg)
  \/ Terminated

Spec == Init /\ [][Next]_vars

\* Every thread that can run is scheduled, the time budget elapses and the pool
\* delivers what it holds.  Nobody has to press Ctrl-C or to inject traffic.
Fairness ==
  /\ WF_vars(MainStep) /\ WF_vars(TrafficStep) /\ WF_vars(RunElapses)
  /\ \A p \in Parts : WF_vars(PartStep(p))
  /\ WF_vars(\E msg \in transit : Deliver(msg))

FairSpec == Spec /\ Fairness

-----------------------------------------------------------------------------
(* Properties *)

\* Every variable has its type.
TypeOK ==
  /\ mpc \in {"startNodes", "startRelayers", "inject", "poll", "joinTraffic",
              "stopRelayers", "stopNodes", "drain", "shutdown", "hung", "joinRun", "exit"}
  /\ stopping \in Parts \union {NoPart}
  /\ g_stop \in BOOLEAN /\ trafficRunning \in BOOLEAN
  /\ rpc \in {"none", "running", "finished"}
  /\ tpc \in {"none", "loop", "asleep", "generate", "ended"}
  /\ running \in [Parts -> BOOLEAN] /\ closed \in [Parts -> BOOLEAN]
  /\ wpc \in [Parts -> {"none", "loop", "take", "takeAck", "ended"}]
  /\ queue \in [Parts -> SUBSET Messages]
  /\ transit \subseteq Messages /\ handled \subseteq Messages /\ refused \subseteq Messages
  /\ accepted \subseteq 1..MaxTraffic
  /\ generated \in 0..MaxTraffic

\* "stops everything and joins" (SimulationController.h:28): once stop() has
\* waited for the transport no thread is left that could send, and nothing is
\* on its way to a node that is about to be destroyed.
QuietAfterDrain ==
  mpc \in {"shutdown", "hung", "joinRun", "exit"} =>
    /\ tpc = "ended"
    /\ \A p \in Parts : wpc[p] = "ended"
    /\ transit = {}

\* stop() takes the parts down in an order that refuses nothing while traffic
\* is made; then a closing relayer refuses nothing but acks, and inboxes refuse
\* only once every relayer has stopped.
RefusedInOrder ==
  /\ refused # {} => tpc = "ended"
  /\ \A msg \in refused :
       \/ msg.kind = "ack"
       \/ \A r \in Relayers : wpc[r] = "ended"

\* Whatever the threads do and whenever stop() comes, each message generated
\* is still somewhere: on its way, waiting, handled, or refused by a closed
\* queue; no copy of it is in two of these places.
NothingVanishes ==
  LET waiting == UNION {queue[p] : p \in Parts}
  IN  /\ {msg.id : msg \in waiting \union transit \union handled \union refused} = 1..generated
      /\ waiting \intersect (transit \union handled \union refused) = {}
      /\ transit \intersect (handled \union refused) = {}
      /\ handled \intersect refused = {}

\* Once Ctrl-C is pressed main() joins the traffic thread, the relayers, the nodes
\* and runThread, and the drain ends although the inboxes it delivers to are closed:
\* nothing but the join of the transport's own pool can keep it from returning.
StopTerminates == g_stop ~> mpc \in {"hung", "exit"}

\* As long as nobody stops the program, every message generated comes to rest:
\* none of its copies and acks waits in a queue or travels for ever.
SentIsHandled ==
  \A i \in 1..MaxTraffic :
    generated >= i ~>
      \/ g_stop
      \/ \A msg \in UNION {queue[p] : p \in Parts} \union transit : msg.id # i

\* "Wait for user interrupt or run completion" (main.cpp:96): the main thread
\* leaves its loop when the time budget has elapsed.
RunCompletionStops == rpc = "finished" ~> mpc # "poll"
=============================================================================
