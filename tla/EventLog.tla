------------------------------ MODULE EventLog ------------------------------
(***************************************************************************)
(* The record the program leaves: which thread writes which line of          *)
(* ibc_events.jsonl, transactions.jsonl, relayer_state_*.jsonl and           *)
(* node_state_*.jsonl when, and what it counts in metrics.jsonl.  Composes   *)
(* Blockchain, EventBus, Relayer, Node, SimulationController, DetailedLogger *)
(* and MetricsSink.                                                         *)
(*                                                                          *)
(* IBCNetwork takes a method of a chain as one step.  Here it is as many as  *)
(* it has effects that another thread can see: the mutex that all chains     *)
(* share is taken, the handlers of the relayers run one after the other with *)
(* that mutex held, each line is stamped and then written, and the relayers  *)
(* go on meanwhile.                                                         *)
(*                                                                          *)
(* Only the chains' lines keep their place in the file and their timestamps. *)
(* Those are milliseconds of the system's clock: between two looks at it it  *)
(* moved on or it did not, and nobody sets it back.  What travels between    *)
(* relayers and inboxes is a set, as in Lifecycle.  What a thread does that  *)
(* no other can see goes with the step before or after it.                  *)
(***************************************************************************)
EXTENDS EventBus, IBCChannel, Sequences, FiniteSets, SequencesExt

CONSTANTS
  Chains,     \* the chains; each stands for its mailbox node's thread too
  Routes,     \* what traffic uses: <<source, destination>>
  Senders,    \* main() in injectTraffic() and the traffic thread
  RelayerCount, \* of SimulationConfig
  Dropping,   \* the relayers whose routeDrop_ is above 0
  Free,       \* the owner of a mutex nobody holds
  NoJob,      \* what a thread works at when it does not
  MaxSend,    \* bound: the packets a chain sends
  MaxTx,      \* bound: the transactions
  MaxTime     \* bound: the time the clock reaches

Relayers == 0..(RelayerCount - 1)   \* relayer-0, relayer-1, ...
Threads == Senders \union Relayers \union Chains

ASSUME EventLogAssumption ==
  /\ Routes \subseteq {route \in Chains \X Chains : route[1] # route[2]}
  /\ Dropping \subseteq Relayers
  /\ Senders \intersect Relayers = {} /\ Senders \intersect Chains = {}
  /\ Relayers \intersect Chains = {}
  /\ Free \notin Threads
  /\ RelayerCount \in Nat /\ MaxSend \in Nat /\ MaxTx \in Nat /\ MaxTime \in Nat

Packets == [src : Chains, dst : Chains, seq : 1..MaxSend]

\* "via" keeps the copies of different relayers apart.
PacketMessages == [type : {"Data", "Ack"}, pkt : Packets, via : Relayers]
TxMessages == [type : {"Tx"}, tx : 1..MaxTx, to : Chains]
To(msg) ==
  CASE msg.type = "Data" -> msg.pkt.dst
    [] msg.type = "Ack" -> msg.pkt.src
    [] msg.type = "Tx" -> msg.to

\* The events of the trail, the kind each is published as and how it is counted
ChainEvents == {"packet_created", "packet_received", "ack_generated", "ack_received"}
Kind == [packet_created |-> "IBCPacketSend", packet_received |-> "IBCPacketRecv",
         ack_generated |-> "IBCAckSend", ack_received |-> "IBCAckRecv"]
Counter == [packet_created |-> "ibc_packets_sent", packet_received |-> "ibc_packets_received",
            ack_generated |-> "nothing", ack_received |-> "ibc_acks_received"]
RelayerEvents == {"packet_relayed", "ack_relayed"}
TxEvents == {"created", "submitted", "received"}

ChainLines == [event : ChainEvents, pkt : Packets, ts : Nat]
RelayerLines == [event : RelayerEvents, pkt : Packets, by : Relayers]

\* A thread's job is what it is about to log.
PacketJobs == [event : ChainEvents, pkt : Packets]
TxJobs == [event : TxEvents, tx : 1..MaxTx, to : Chains]
On(event, p) == [event |-> event, pkt |-> p]

Counters ==
  {"ibc_packets_sent", "ibc_packets_received", "ibc_acks_received", "ibc_packets_failed",
   "relayer_packets_queued", "relayer_acks_queued", "relayer_deserialization_errors", "nothing"}

VARIABLES
  bus,             \* the event bus
  tokens,          \* packetSendToken_ and ackSendToken_ of each relayer
  channels,        \* of each chain: "A" is the end it sends from, "B" receives
  busMutex,        \* who holds the mutex of getBusMutex()
  chainMutex,      \* who holds the mutex of getChainMutex()
  pendingPackets, pendingAcks,  \* the relayers' queues
  closed,          \* the relayers that were told to stop: running_ is false, the queues closed
  transit,         \* from transport_.send() to waitPop()
  nextTx,          \* counter of generateTxId()
  pc, job,         \* where each thread is, and at what
  todo,            \* the handlers publish() has still to call
  stamp, clock_,   \* the timestamp of the line a thread has made
  ibc_events,      \* the chains' lines of ibc_events.jsonl
  relayed,         \* the relayers' lines of it
  transactions, relayer_state,  \* the other files
  node_state,      \* the number of lines of that file
  metrics,         \* how often each counter was incremented
  statistics,      \* packetsRelayed_, acksRelayed_ and failures_
  heard            \* history: what each relayer's handlers were called with

busVars == <<bus, tokens, busMutex>>
queueVars == <<pendingPackets, pendingAcks>>
trailVars == <<ibc_events, relayed>>
clockVars == <<stamp, clock_>>
vars == <<busVars, channels, chainMutex, queueVars, closed, transit, nextTx, pc, job, todo,
          clockVars, trailVars, transactions, relayer_state, node_state, metrics, statistics, heard>>

Init ==
  /\ bus = NewBus
  /\ tokens = [r \in Relayers |-> [packet |-> -1, ack |-> -1]]
  /\ channels = [c \in Chains |-> [e \in {"A", "B"} |-> NewChannel]]
  /\ busMutex = Free /\ chainMutex = Free
  /\ pendingPackets = [r \in Relayers |-> <<>>] /\ pendingAcks = [r \in Relayers |-> <<>>]
  /\ closed = {}
  /\ transit = {}
  /\ nextTx = 1
  /\ pc = [t \in Threads |-> "none"] /\ job = [t \in Threads |-> NoJob]
  /\ todo = [t \in Threads |-> {}]
  /\ stamp = [t \in Threads |-> 0] /\ clock_ = 0
  /\ ibc_events = <<>> /\ relayed = {} /\ transactions = <<>>
  /\ relayer_state = [r \in Relayers |-> <<>>] /\ node_state = [c \in Chains |-> 0]
  /\ metrics = [name \in Counters |-> 0]
  /\ statistics = [r \in Relayers |-> [packets |-> 0, acks |-> 0, failures |-> 0]]
  /\ heard = [r \in Relayers |-> <<>>]

GoTo(t, label) == pc' = [pc EXCEPT ![t] = label]
WorkAt(t, label, work) == GoTo(t, label) /\ job' = [job EXCEPT ![t] = work]
\* MetricsSink and DetailedLogger: each writes one line under its stream's mutex.
LogIBCEvent(line) == ibc_events' = Append(ibc_events, line)
LogTransactionEvent(line) == transactions' = Append(transactions, line)
LogRelayerState(r) == relayer_state' = [relayer_state EXCEPT ![r] = Append(@, statistics'[r])]
LogNodeState(c) == node_state' = [node_state EXCEPT ![c] = @ + 1]
Count(name) == metrics' = [metrics EXCEPT ![name] = @ + 1]

-----------------------------------------------------------------------------
(* SimulationController::init() and start()                                *)

Construct(r) ==
  /\ pc[r] = "none" /\ \A q \in 0..(r - 1) : pc[q] = "constructed"
  /\ busMutex = Free
  /\ LET packet == Subscribe(bus, "IBCPacketSend", r)
         ack == Subscribe(packet.bus, "IBCAckSend", r)
     IN  /\ bus' = ack.bus
         /\ tokens' = [tokens EXCEPT ![r] = [packet |-> packet.token, ack |-> ack.token]]
  /\ GoTo(r, "constructed")
  /\ UNCHANGED <<busMutex, channels, chainMutex, queueVars, closed, transit, nextTx, job, todo, clockVars,
                 trailVars, transactions, relayer_state, node_state, metrics, statistics, heard>>

Start ==
  /\ \A r \in Relayers : pc[r] = "constructed"
  /\ \A t \in Senders \union Chains : pc[t] = "none"
  /\ pc' = [t \in Threads |-> "idle"]
  /\ UNCHANGED <<busVars, channels, chainMutex, queueVars, closed, transit, nextTx, job, todo,
                 clockVars, trailVars, transactions, relayer_state, node_state, metrics,
                 statistics, heard>>

-----------------------------------------------------------------------------
(* The chains' methods.  Each publishes, counts, stamps and writes its        *)
(* events one after the other, with the chains' mutex held.                 *)

\* publish() takes the bus's mutex, copies the handlers and calls them; it holds
\* the mutex until it returns, in Stamp.
Publish(t, event, p) ==
  /\ busMutex = Free /\ busMutex' = t
  /\ WorkAt(t, "publish", On(event, p))
  /\ todo' = [todo EXCEPT ![t] = Handlers(bus, Kind[event])]

\* sendIBC(): the packet is made.
MakeAndPublish(t, route) ==
  LET end == OpenChannel(channels[route[1]]["A"]).chan
      made == MakePacket(end)
  IN
  /\ pc[t] = "idle" /\ chainMutex = Free
  /\ made.status = "Ok" /\ end.nextSeq <= MaxSend
  /\ chainMutex' = t
  /\ channels' = [channels EXCEPT ![route[1]]["A"] = made.chan]
  /\ Publish(t, "packet_created", [src |-> route[1], dst |-> route[2], seq |-> end.nextSeq])
  /\ UNCHANGED <<bus, tokens, queueVars, closed, transit, nextTx, clockVars, trailVars,
                 transactions, relayer_state, node_state, metrics, statistics, heard>>

\* Mutant: without the mutex.
AcceptUnlocked(c, msg) ==
  LET accepted == AcceptPacket(OpenChannel(channels[c]["B"]).chan, msg.pkt.seq) IN
  /\ pc[c] = "idle" /\ msg.type = "Data" /\ To(msg) = c /\ accepted.status = "Ok"
  /\ transit' = transit \ {msg}
  /\ channels' = [channels EXCEPT ![c]["B"] = accepted.chan]
  /\ Publish(c, "packet_received", msg.pkt)
  /\ UNCHANGED <<bus, tokens, chainMutex, queueVars, closed, nextTx, clockVars, trailVars,
                 transactions, relayer_state, node_state, metrics, statistics, heard>>

\* onIBCPacket(), called with a message of the inbox.  Whether a message waits
\* for the mutex in the node's hand or in its inbox is the same to everybody.
AcceptAndPublish(c, msg) ==
  LET end == OpenChannel(channels[c]["B"]).chan
      accepted == AcceptPacket(end, msg.pkt.seq)
  IN
  /\ pc[c] = "idle" /\ chainMutex = Free
  /\ msg.type = "Data" /\ To(msg) = c
  /\ transit' = transit \ {msg}
  /\ channels' = [channels EXCEPT ![c]["B"] = accepted.chan]
  /\ \/ /\ accepted.status = "Ok"
        /\ chainMutex' = c
        /\ Publish(c, "packet_received", msg.pkt)
        /\ UNCHANGED metrics
     \/ /\ accepted.status # "Ok"
        /\ GoTo(c, "snapshot") /\ Count("ibc_packets_failed")
        /\ UNCHANGED <<busMutex, chainMutex, job, todo>>
  /\ UNCHANGED <<bus, tokens, queueVars, closed, nextTx, clockVars, trailVars, transactions,
                 relayer_state, node_state, statistics, heard>>

\* onIBCAck()
PublishAck(c, msg) ==
  /\ pc[c] = "idle" /\ chainMutex = Free
  /\ msg.type = "Ack" /\ To(msg) = c
  /\ transit' = transit \ {msg}
  /\ chainMutex' = c
  /\ Publish(c, "ack_received", msg.pkt)
  /\ UNCHANGED <<bus, tokens, channels, queueVars, closed, nextTx, clockVars, trailVars,
                 transactions, relayer_state, node_state, metrics, statistics, heard>>

\* Mutant: an event that meets a closed queue is not counted.
CallIgnored(t, s) ==
  LET r == s.handler
      p == job[t].pkt
  IN
  /\ IsFirst(s, todo[t])
  /\ todo' = [todo EXCEPT ![t] = @ \ {s}]
  /\ heard' = [heard EXCEPT ![r] = Append(@, job[t])]
  /\ \/ /\ r \notin closed /\ s.kind = "IBCPacketSend"
        /\ pendingPackets' = [pendingPackets EXCEPT ![r] = Append(@, p)]
        /\ Count("relayer_packets_queued") /\ UNCHANGED pendingAcks
     \/ /\ r \notin closed /\ s.kind = "IBCAckSend"
        /\ pendingAcks' = [pendingAcks EXCEPT ![r] = Append(@, p)]
        /\ Count("relayer_acks_queued") /\ UNCHANGED pendingPackets
     \/ r \in closed /\ UNCHANGED <<metrics, queueVars>>
  /\ UNCHANGED <<busVars, channels, chainMutex, closed, transit, nextTx, pc, job, clockVars,
                 trailVars, transactions, relayer_state, node_state, statistics>>

\* publish() calls a handler of a relayer: onIBCPacketSendEvent() or
\* onIBCAckSendEvent().  A push to a closed queue throws, and is counted as an
\* event that cannot be read.
CallHandler(t, s) ==
  LET r == s.handler
      p == job[t].pkt
  IN
  /\ IsFirst(s, todo[t])
  /\ todo' = [todo EXCEPT ![t] = @ \ {s}]
  /\ heard' = [heard EXCEPT ![r] = Append(@, job[t])]
  /\ \/ /\ r \notin closed /\ s.kind = "IBCPacketSend"
        /\ pendingPackets' = [pendingPackets EXCEPT ![r] = Append(@, p)]
        /\ Count("relayer_packets_queued") /\ UNCHANGED pendingAcks
     \/ /\ r \notin closed /\ s.kind = "IBCAckSend"
        /\ pendingAcks' = [pendingAcks EXCEPT ![r] = Append(@, p)]
        /\ Count("relayer_acks_queued") /\ UNCHANGED pendingPackets
     \/ /\ r \in closed
        /\ Count("relayer_deserialization_errors") /\ UNCHANGED queueVars
  /\ UNCHANGED <<busVars, channels, chainMutex, closed, transit, nextTx, pc, job, clockVars,
                 trailVars, transactions, relayer_state, node_state, statistics>>

\* The line's timestamp
LookAtClock(t) ==
  /\ clock_' \in {clock_, clock_ + 1} \intersect 0..MaxTime
  /\ stamp' = [stamp EXCEPT ![t] = clock_']

\* Mutant: the mutex is released before the line is written.
StampAndUnlock(t) ==
  /\ pc[t] = "publish" /\ todo[t] = {}
  /\ Count(Counter[job[t].event])
  /\ busMutex' = Free
  /\ LookAtClock(t)
  /\ GoTo(t, "write")
  /\ chainMutex' = Free
  /\ UNCHANGED <<bus, tokens, channels, queueVars, closed, transit, nextTx, job, todo,
                 trailVars, transactions, relayer_state, node_state, statistics, heard>>

\* All handlers were called and publish() returns: the event is counted, and its
\* line stamped.
Stamp(t) ==
  /\ pc[t] = "publish" /\ todo[t] = {}
  /\ Count(Counter[job[t].event])
  /\ busMutex' = Free
  /\ LookAtClock(t)
  /\ GoTo(t, "write")
  /\ UNCHANGED <<bus, tokens, channels, chainMutex, queueVars, closed, transit, nextTx, job, todo,
                 trailVars, transactions, relayer_state, node_state, statistics, heard>>

\* Mutant: no ack is generated.
WriteNoAck(t) ==
  /\ pc[t] = "write"
  /\ LogIBCEvent([event |-> job[t].event, pkt |-> job[t].pkt, ts |-> stamp[t]])
  /\ WorkAt(t, IF t \in Senders THEN "idle" ELSE "snapshot", NoJob)
  /\ chainMutex' = Free
  /\ UNCHANGED <<busVars, channels, queueVars, closed, transit, nextTx, todo, clockVars, relayed,
                 transactions, relayer_state, node_state, metrics, statistics, heard>>

\* The line is written.  After packet_received comes ack_generated; the other
\* events are the last of their method.
Write(t) ==
  /\ pc[t] = "write"
  /\ LogIBCEvent([event |-> job[t].event, pkt |-> job[t].pkt, ts |-> stamp[t]])
  /\ UNCHANGED relayed
  /\ \/ /\ job[t].event = "packet_received"
        /\ Publish(t, "ack_generated", job[t].pkt)
        /\ UNCHANGED chainMutex
     \/ /\ job[t].event # "packet_received"
        /\ WorkAt(t, IF t \in Senders THEN "idle" ELSE "snapshot", NoJob)
        /\ chainMutex' = Free
        /\ UNCHANGED <<busMutex, todo>>
  /\ UNCHANGED <<bus, tokens, channels, queueVars, closed, transit, nextTx, clockVars, transactions,
                 relayer_state, node_state, metrics, statistics, heard>>

\* snapshotState(): chain_.head() takes the chains' mutex again.
Snapshot(c) ==
  /\ pc[c] = "snapshot" /\ chainMutex = Free
  /\ LogNodeState(c)
  /\ GoTo(c, "idle")
  /\ UNCHANGED <<busVars, channels, chainMutex, queueVars, closed, transit, nextTx, job, todo,
                 clockVars, trailVars, transactions, relayer_state, metrics, statistics, heard>>

-----------------------------------------------------------------------------
(* Transactions                                                            *)

\* Mutant: the counter is not moved on.
NewTxSameId(t, c) ==
  /\ pc[t] = "idle" /\ nextTx <= MaxTx
  /\ WorkAt(t, "log", [event |-> "created", tx |-> nextTx, to |-> c])
  /\ UNCHANGED <<busVars, channels, chainMutex, queueVars, closed, transit, nextTx, todo, clockVars,
                 trailVars, transactions, relayer_state, node_state, metrics, statistics, heard>>

\* generateRandomTransaction(), or injectTraffic(): generateTxId()
NewTx(t, c) ==
  /\ pc[t] = "idle" /\ nextTx <= MaxTx
  /\ nextTx' = nextTx + 1
  /\ WorkAt(t, "log", [event |-> "created", tx |-> nextTx, to |-> c])
  /\ UNCHANGED <<busVars, channels, chainMutex, queueVars, closed, transit, todo, clockVars,
                 trailVars, transactions, relayer_state, node_state, metrics, statistics, heard>>

\* logTransactionEvent(), in its callers' order: the sender logs that the
\* transaction was created and submitted and sends it, the node that it was received.
LogTx(t) ==
  /\ pc[t] = "log"
  /\ LogTransactionEvent(job[t])
  /\ \/ job[t].event = "created" /\ WorkAt(t, "log", [job[t] EXCEPT !.event = "submitted"])
     \/ job[t].event = "submitted" /\ GoTo(t, "send") /\ UNCHANGED job
     \/ job[t].event = "received" /\ WorkAt(t, "snapshot", NoJob)
  /\ UNCHANGED <<busVars, channels, chainMutex, queueVars, closed, transit, nextTx, todo,
                 clockVars, trailVars, relayer_state, node_state, metrics, statistics, heard>>

SendTx(t) ==
  /\ pc[t] = "send"
  /\ transit' = transit \union {[type |-> "Tx", tx |-> job[t].tx, to |-> job[t].to]}
  /\ WorkAt(t, "idle", NoJob)
  /\ UNCHANGED <<busVars, channels, chainMutex, queueVars, closed, nextTx, todo, clockVars,
                 trailVars, transactions, relayer_state, node_state, metrics, statistics, heard>>

ReceiveTx(c, msg) ==
  /\ pc[c] = "idle"
  /\ msg.type = "Tx" /\ To(msg) = c
  /\ transit' = transit \ {msg}
  /\ WorkAt(c, "log", [event |-> "received", tx |-> msg.tx, to |-> c])
  /\ UNCHANGED <<busVars, channels, chainMutex, queueVars, closed, nextTx, todo, clockVars,
                 trailVars, transactions, relayer_state, node_state, metrics, statistics, heard>>

-----------------------------------------------------------------------------
(* Relayer::runLoop(): a packet, if there is one, then an ack                *)

\* Mutant: a drop leaves no line.
RelaySilently(r, event, type, p) ==
  \/ /\ transit' = transit \union {[type |-> type, pkt |-> p, via |-> r]}
     /\ relayed' = relayed \union {[event |-> event, pkt |-> p, by |-> r]}
     /\ statistics' = IF type = "Data" THEN [statistics EXCEPT ![r].packets = @ + 1]
                      ELSE [statistics EXCEPT ![r].acks = @ + 1]
     /\ LogRelayerState(r)
  \/ /\ r \in Dropping
     /\ statistics' = [statistics EXCEPT ![r].failures = @ + 1]
     /\ UNCHANGED <<transit, relayed, relayer_state>>

\* relayPacket() or relayAck(), and the lines and counts that tell of it.  Where
\* its line stands among the chains' does not matter: it goes with the sending.
Relay(r, event, type, p) ==
  /\ \/ /\ transit' = transit \union {[type |-> type, pkt |-> p, via |-> r]}
        /\ relayed' = relayed \union {[event |-> event, pkt |-> p, by |-> r]}
        /\ statistics' = IF type = "Data" THEN [statistics EXCEPT ![r].packets = @ + 1]
                         ELSE [statistics EXCEPT ![r].acks = @ + 1]
     \/ /\ r \in Dropping
        /\ statistics' = [statistics EXCEPT ![r].failures = @ + 1]
        /\ UNCHANGED <<transit, relayed>>
  /\ LogRelayerState(r)

RelayPacket(r) ==
  /\ pc[r] = "idle" /\ r \notin closed /\ pendingPackets[r] # <<>>
  /\ pendingPackets' = [pendingPackets EXCEPT ![r] = Tail(@)]
  /\ Relay(r, "packet_relayed", "Data", Head(pendingPackets[r]))
  /\ GoTo(r, "acks")
  /\ UNCHANGED <<busVars, channels, chainMutex, pendingAcks, closed, nextTx, job, todo, clockVars,
                 ibc_events, transactions, node_state, metrics, heard>>

RelayAck(r) ==
  /\ pc[r] = "acks" \/ (pc[r] = "idle" /\ r \notin closed /\ pendingPackets[r] = <<>>)
  /\ pendingAcks[r] # <<>>
  /\ pendingAcks' = [pendingAcks EXCEPT ![r] = Tail(@)]
  /\ Relay(r, "ack_relayed", "Ack", Head(pendingAcks[r]))
  /\ GoTo(r, "idle")
  /\ UNCHANGED <<busVars, channels, chainMutex, pendingPackets, closed, nextTx, job, todo, clockVars,
                 ibc_events, transactions, node_state, metrics, heard>>

NoAck(r) ==
  /\ pc[r] = "acks" /\ pendingAcks[r] = <<>>
  /\ GoTo(r, "idle")
  /\ UNCHANGED <<busVars, channels, chainMutex, queueVars, closed, transit, nextTx, job, todo,
                 clockVars, trailVars, transactions, relayer_state, node_state, metrics,
                 statistics, heard>>

-----------------------------------------------------------------------------
(* SimulationController::stop() joins the traffic thread, stops the relayers  *)
(* one after the other, then the nodes, each joined before the next; the      *)
(* destructors of the relayers come last.                                   *)

\* Relayer::stop()
StopRelayer(r) ==
  /\ pc[r] # "none" /\ r \notin closed
  /\ \A t \in Senders \union 0..(r - 1) : pc[t] = "ended"
  /\ closed' = closed \union {r}
  /\ UNCHANGED <<busVars, channels, chainMutex, queueVars, transit, nextTx, pc, job, todo,
                 clockVars, trailVars, transactions, relayer_state, node_state, metrics,
                 statistics, heard>>

\* main() leaves injectTraffic(); the loops of the traffic thread, of a relayer
\* and of a node see that they are to stop.
End(t) ==
  /\ pc[t] = "idle"
  /\ t \in Relayers => t \in closed
  /\ t \in Chains => \A r \in Relayers : pc[r] = "ended"
  /\ GoTo(t, "ended")
  /\ UNCHANGED <<busVars, channels, chainMutex, queueVars, closed, transit, nextTx, job, todo,
                 clockVars, trailVars, transactions, relayer_state, node_state, metrics,
                 statistics, heard>>

\* Mutant: only one of the two handlers is unsubscribed.
DestroyHalf(r) ==
  /\ \A t \in Senders \union Chains : pc[t] = "ended"
  /\ pc[r] = "ended" /\ busMutex = Free
  /\ bus' = Unsubscribe(bus, tokens[r].packet)
  /\ GoTo(r, "destroyed")
  /\ UNCHANGED <<tokens, busMutex, channels, chainMutex, queueVars, closed, transit, nextTx, job, todo,
                 clockVars, trailVars, transactions, relayer_state, node_state, metrics,
                 statistics, heard>>

Destroy(r) ==
  /\ \A t \in Senders \union Chains : pc[t] = "ended"
  /\ pc[r] = "ended" /\ busMutex = Free
  /\ bus' = Unsubscribe(Unsubscribe(bus, tokens[r].packet), tokens[r].ack)
  /\ GoTo(r, "destroyed")
  /\ UNCHANGED <<tokens, busMutex, channels, chainMutex, queueVars, closed, transit, nextTx, job, todo,
                 clockVars, trailVars, transactions, relayer_state, node_state, metrics,
                 statistics, heard>>

Terminated ==
  /\ \A r \in Relayers : pc[r] = "destroyed"
  /\ \A t \in Senders \union Chains : pc[t] = "ended"
  /\ UNCHANGED vars

-----------------------------------------------------------------------------

\* A step of a thread that has begun something
Step(t) ==
  \/ \E s \in todo[t] : CallHandler(t, s)
  \/ Stamp(t) \/ Write(t) \/ LogTx(t) \/ SendTx(t)
  \/ t \in Relayers /\ (RelayPacket(t) \/ RelayAck(t) \/ NoAck(t))
  \/ t \in Chains /\ ( \/ Snapshot(t)
                       \/ \E msg \in transit :
                            AcceptAndPublish(t, msg) \/ PublishAck(t, msg) \/ ReceiveTx(t, msg))

Traffic(t) == (\E route \in Routes : MakeAndPublish(t, route)) \/ (\E c \in Chains : NewTx(t, c))

Next ==
  \/ \E r \in Relayers : Construct(r) \/ StopRelayer(r) \/ Destroy(r)
  \/ Start
  \/ \E t \in Threads : Step(t) \/ End(t)
  \/ \E t \in Senders : Traffic(t)
  \/ Terminated

\* Every thread that is not blocked is scheduled; main() and the traffic thread
\* need not generate anything, and nobody need stop the program.
Fairness == \A t \in Threads : WF_vars(Step(t))

Spec == Init /\ [][Next]_vars /\ Fairness

-----------------------------------------------------------------------------
(* Properties                                                              *)

PacketLabels == {"publish", "write"}
TxLabels == {"log", "send"}
RestLabels == {"none", "constructed", "idle", "acks", "snapshot", "ended", "destroyed"}

Subs == Subscriptions(Relayers)

\* The type of the state.
TypeOK ==
  /\ bus \in [nextToken : Nat \ {0}, subs : SUBSET Subs]
  /\ tokens \in [Relayers -> [packet : Int, ack : Int]]
  /\ channels \in [Chains -> [{"A", "B"} -> Channel]]
  /\ busMutex \in Threads \union {Free} /\ chainMutex \in Threads \union {Free}
  /\ pendingPackets \in [Relayers -> Seq(Packets)] /\ pendingAcks \in [Relayers -> Seq(Packets)]
  /\ closed \subseteq Relayers
  /\ transit \subseteq PacketMessages \union TxMessages
  /\ nextTx \in 1..(MaxTx + 1)
  /\ pc \in [Threads -> PacketLabels \union TxLabels \union RestLabels]
  /\ job \in [Threads -> PacketJobs \union TxJobs \union {NoJob}]
  /\ todo \in [Threads -> SUBSET Subs]
  /\ stamp \in [Threads -> Nat] /\ clock_ \in Nat
  /\ ibc_events \in Seq(ChainLines) /\ relayed \subseteq RelayerLines
  /\ transactions \in Seq(TxJobs)
  /\ relayer_state \in [Relayers -> Seq([packets : Nat, acks : Nat, failures : Nat])]
  /\ node_state \in [Chains -> Nat]
  /\ metrics \in [Counters -> Nat]
  /\ statistics \in [Relayers -> [packets : Nat, acks : Nat, failures : Nat]]
  /\ heard \in [Relayers -> Seq(PacketJobs)]

\* Handlers capture `this' of their relayer.  The bus outlives the relayers and
\* keeps no handler of one that is gone, nor is a copy of one still to be called.
HandlersLive ==
  /\ \A s \in bus.subs : pc[s.handler] # "destroyed"
  /\ \A t \in Threads : \A s \in todo[t] : pc[s.handler] # "destroyed"

Tells(k, j) == ibc_events[k].event = j.event /\ ibc_events[k].pkt = j.pkt

\* publish() from two chains does not interleave: all relayers hear the same
\* events in the same order, one at most is a call ahead, and none hears one twice.
\* Nor does one chain's publish() come between another's and its line: what the
\* file tells, all relayers heard, and they heard it in the order of the file.
SameOrder ==
  /\ \A r, s \in Relayers :
       /\ IsPrefix(heard[r], heard[s]) \/ IsPrefix(heard[s], heard[r])
       /\ Len(heard[r]) <= Len(heard[s]) + 1
       /\ IsInjective(heard[r])
  /\ \A r \in Relayers, k \in DOMAIN ibc_events :
       ibc_events[k].event \in {"packet_created", "ack_generated"} =>
         \E j \in DOMAIN heard[r] :
           Tells(k, heard[r][j]) /\ \A i \in 1..(j - 1) : \E l \in 1..(k - 1) : Tells(l, heard[r][i])

Written(event) == Cardinality({k \in DOMAIN ibc_events : ibc_events[k].event = event})
WrittenBy(r, event) ==
  Cardinality({line \in relayed : line.event = event /\ line.by = r})

\* metrics.jsonl and ibc_events.jsonl agree whenever no chain is at work: a line
\* for each count, and each relayer queued what was published or counted an error.
CountsAgree ==
  chainMutex = Free =>
    /\ \A event \in ChainEvents \ {"ack_generated"} : metrics[Counter[event]] = Written(event)
    /\ metrics["relayer_packets_queued"] = Cardinality(Relayers) * Written("packet_created")
    /\ metrics["relayer_acks_queued"] + metrics["relayer_deserialization_errors"]
         = Cardinality(Relayers) * Written("ack_generated")

\* The k-th line of a relayer's file sums up k attempts, and its counts are those
\* of the relayer's lines in ibc_events.jsonl.
RelayerStatesTrue ==
  \A r \in Relayers :
    /\ \A k \in DOMAIN relayer_state[r] :
         relayer_state[r][k].packets + relayer_state[r][k].acks + relayer_state[r][k].failures = k
    /\ statistics[r].packets = WrittenBy(r, "packet_relayed")
    /\ statistics[r].acks = WrittenBy(r, "ack_relayed")

\* A transaction is logged as created, then submitted, then received, once each.
TxOrdered ==
  \A k \in DOMAIN transactions :
    LET before(event) == {i \in 1..(k - 1) : transactions[i].event = event
                                               /\ transactions[i].tx = transactions[k].tx}
    IN  /\ before(transactions[k].event) = {}
        /\ transactions[k].event = "submitted" => before("created") # {}
        /\ transactions[k].event = "received" => before("submitted") # {}

Trail == INSTANCE PacketTrail WITH lines <- ibc_events

\* ibc_events.jsonl is a trail as its readers expect it.
ImplementsTrail == Trail!Spec

Settled ==
  /\ chainMutex = Free /\ \A c \in Chains : pc[c] # "snapshot"
  /\ \A r \in Relayers : \A k \in DOMAIN heard[r] : Trail!Has(heard[r][k].event, heard[r][k].pkt)
  /\ \A p \in Packets : Trail!Has("packet_received", p) => Trail!Has("ack_generated", p)

\* In the end no chain is at work, no node waits to log its state, what any relayer
\* was told is logged, and so is the ack of each packet that was received.
Recorded == <>[]Settled
=============================================================================
