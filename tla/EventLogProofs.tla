--------------------------- MODULE EventLogProofs ---------------------------
(***************************************************************************)
(* Proofs about EventLog for any number of chains, senders, relayers,        *)
(* packets and transactions.                                                *)
(*                                                                          *)
(* Only the thread that holds the chains' mutex is inside a method of a      *)
(* chain, so what it is at work at is the only event whose line is not yet   *)
(* written: up to that one event, the channels' counters, the copies under   *)
(* way and the files tell the same.                                         *)
(***************************************************************************)
EXTENDS EventLog, TLAPS, SequenceTheorems

RelayerLabels == {"none", "constructed", "idle", "acks", "ended", "destroyed"}

\* A thread inside a method of a chain holds the mutex and has an event to log;
\* only publish() has handlers to call; relayers do nothing of the kind.
Working ==
  /\ \A t \in Threads : pc[t] \in PacketLabels => chainMutex = t /\ job[t] \in PacketJobs
  /\ \A t \in Threads : pc[t] \in TxLabels => job[t] \in TxJobs
  /\ \A t \in Threads : todo[t] # {} => pc[t] = "publish"
  /\ \A r \in Relayers : pc[r] \in RelayerLabels

TInv == TypeOK /\ Working

-----------------------------------------------------------------------------
(* Types *)

LEMMA Domains ==
  /\ Relayers \subseteq Threads /\ Senders \subseteq Threads /\ Chains \subseteq Threads
  /\ Relayers \intersect Senders = {} /\ Relayers \intersect Chains = {}
  /\ Senders \intersect Chains = {}
  /\ Free \notin Threads
  /\ \A t \in Threads : t # Free
  /\ Dropping \subseteq Relayers
  /\ MaxSend \in Nat /\ MaxTx \in Nat
  /\ \A route \in Routes : route[1] \in Chains /\ route[2] \in Chains
  /\ Relayers \subseteq Nat
  /\ \A r \in Relayers : \A q \in 0..(r - 1) : q \in Relayers
BY EventLogAssumption DEF Threads, Relayers

\* The operations of a channel keep it a channel.
LEMMA ChannelOperations ==
  ASSUME NEW ch \in Channel, NEW n \in Nat
  PROVE  /\ OpenChannel(ch).chan \in Channel
         /\ OpenChannel(ch).chan.nextSeq = ch.nextSeq
         /\ MakePacket(ch).chan \in Channel
         /\ MakePacket(ch).status = "Ok" => MakePacket(ch).chan.nextSeq = ch.nextSeq + 1
         /\ AcceptPacket(ch, n).chan \in Channel
         /\ AcceptPacket(ch, n).status = "Ok" =>
              n = ch.nextSeq /\ AcceptPacket(ch, n).chan.nextSeq = ch.nextSeq + 1
         /\ AcceptPacket(ch, n).status # "Ok" => AcceptPacket(ch, n).chan.nextSeq = ch.nextSeq
         /\ ch.nextSeq \in Nat \ {0}
  BY DEF Channel, ChannelStates, OpenChannel, MakePacket, AcceptPacket, Outcome

LEMMA PacketTypes ==
  /\ \A p \in Packets : p.src \in Chains /\ p.dst \in Chains /\ p.seq \in 1..MaxSend
  /\ \A c, d \in Chains, n \in 1..MaxSend : [src |-> c, dst |-> d, seq |-> n] \in Packets
  /\ \A j \in PacketJobs : j.event \in ChainEvents /\ j.pkt \in Packets
  /\ \A p \in Packets, event \in ChainEvents : On(event, p) \in PacketJobs
  /\ \A p \in Packets, r \in Relayers : \A type \in {"Data", "Ack"} :
       [type |-> type, pkt |-> p, via |-> r] \in PacketMessages
  /\ \A p \in Packets, r \in Relayers : \A event \in RelayerEvents :
       [event |-> event, pkt |-> p, by |-> r] \in RelayerLines
  /\ \A p \in Packets, event \in ChainEvents, n \in Nat :
       [event |-> event, pkt |-> p, ts |-> n] \in ChainLines
  /\ \A msg \in PacketMessages \union TxMessages :
       /\ msg.type \in {"Data", "Ack"} => msg \in PacketMessages /\ msg.pkt \in Packets
       /\ msg.type = "Tx" => msg \in TxMessages /\ msg.tx \in 1..MaxTx /\ msg.to \in Chains
  BY SMTT(30) DEF Packets, PacketJobs, On, PacketMessages, TxMessages, RelayerLines, ChainLines

LEMMA Tables ==
  \A event \in ChainEvents : Kind[event] \in EventKinds /\ Counter[event] \in Counters
  BY DEF ChainEvents, Kind, Counter, Counters, EventKinds

LEMMA BusTypes ==
  ASSUME NEW b \in [nextToken : Nat \ {0}, subs : SUBSET Subs], NEW r \in Relayers,
         NEW kind \in EventKinds
  PROVE  /\ Subscribe(b, kind, r).bus \in [nextToken : Nat \ {0}, subs : SUBSET Subs]
         /\ Subscribe(b, kind, r).token \in Nat \ {0}
         /\ Handlers(b, kind) \in SUBSET Subs
         /\ \A token : Unsubscribe(b, token) \in [nextToken : Nat \ {0}, subs : SUBSET Subs]
  BY DEF Subs, Subscriptions, Subscribe, Handlers, Unsubscribe

LEMMA AppendType ==
  ASSUME NEW S, NEW s \in Seq(S), NEW x \in S
  PROVE  Append(s, x) \in Seq(S)
  BY AppendProperties

LEMMA HeadTailType ==
  ASSUME NEW S, NEW s \in Seq(S), s # <<>>
  PROVE  Head(s) \in S /\ Tail(s) \in Seq(S)
  BY HeadTailProperties

LEMMA TypeInit == Init => TInv
<1> SUFFICES ASSUME Init PROVE TInv
  OBVIOUS
<1>1. NewChannel \in Channel /\ NewBus \in [nextToken : Nat \ {0}, subs : SUBSET Subs]
  BY DEF NewChannel, Channel, ChannelStates, NewBus
<1>2. TypeOK
  BY <1>1, Domains, SMTT(30) DEF Init, TypeOK, RestLabels
<1>3. Working
  BY Domains DEF Init, Working, PacketLabels, TxLabels, RelayerLabels
<1> QED BY <1>2, <1>3 DEF TInv

\* What a thread may do to its own place, job and handlers, and to the mutex
LEMMA WorkingStep ==
  ASSUME TInv, NEW t \in Threads, NEW label,
         pc' = [pc EXCEPT ![t] = label],
         \A u \in Threads \ {t} : job'[u] = job[u] /\ todo'[u] = todo[u],
         chainMutex' = chainMutex \/ chainMutex = Free \/ chainMutex = t,
         label \in PacketLabels => chainMutex' = t /\ job'[t] \in PacketJobs,
         label \in TxLabels => job'[t] \in TxJobs,
         todo'[t] # {} => label = "publish",
         t \in Relayers => label \in RelayerLabels
  PROVE  Working'
<1>1. pc'[t] = label /\ \A u \in Threads \ {t} : pc'[u] = pc[u]
  BY DEF TInv, TypeOK
<1>2. \A u \in Threads : u # Free
  BY Domains
<1>3. \A r \in Relayers : r \in Threads
  BY Domains
<1> QED BY <1>1, <1>2, <1>3, Zenon DEF TInv, Working

\* Other threads than the one that moves keep their place.
LEMMA OnlyPlace ==
  ASSUME TInv, NEW t \in Threads, NEW label \in RestLabels,
         pc' = [pc EXCEPT ![t] = label],
         job' = job, todo' = todo, chainMutex' = chainMutex,
         pc[t] # "publish",
         t \in Relayers => label \in RelayerLabels
  PROVE  Working'
<1>1. label \notin PacketLabels /\ label \notin TxLabels
  BY DEF RestLabels, PacketLabels, TxLabels
<1>2. todo'[t] = {}
  BY DEF TInv, Working
<1> QED BY <1>1, <1>2, WorkingStep

\* The type and the mutual exclusion, step by step
LEMMA TypeConstruct ==
  ASSUME TInv, NEW r \in Relayers, Construct(r) PROVE TInv'
<1> DEFINE packet == Subscribe(bus, "IBCPacketSend", r)
           ack == Subscribe(packet.bus, "IBCAckSend", r)
<1>1. bus \in [nextToken : Nat \ {0}, subs : SUBSET Subs]
  BY DEF TInv, TypeOK
<1>2. packet.bus \in [nextToken : Nat \ {0}, subs : SUBSET Subs] /\ packet.token \in Int
  BY <1>1, BusTypes DEF EventKinds
<1> HIDE DEF packet
<1>3. ack.bus \in [nextToken : Nat \ {0}, subs : SUBSET Subs] /\ ack.token \in Int
  BY <1>2, BusTypes DEF EventKinds
<1> HIDE DEF ack
<1>4. /\ bus' = ack.bus /\ tokens' = [tokens EXCEPT ![r] = [packet |-> packet.token, ack |-> ack.token]]
      /\ pc[r] = "none" /\ pc' = [pc EXCEPT ![r] = "constructed"]
      /\ job' = job /\ todo' = todo /\ chainMutex' = chainMutex
  BY DEF Construct, packet, ack, GoTo
<1>5. tokens' \in [Relayers -> [packet : Int, ack : Int]]
  BY <1>2, <1>3, <1>4 DEF TInv, TypeOK
<1>6. pc' \in [Threads -> PacketLabels \union TxLabels \union RestLabels]
  BY <1>4 DEF TInv, TypeOK, RestLabels
<1>7. TypeOK'
  BY <1>3, <1>4, <1>5, <1>6 DEF TInv, TypeOK, Construct, queueVars, clockVars, trailVars
<1>8. Working'
  BY <1>4, OnlyPlace, Domains DEF RestLabels, RelayerLabels
<1> QED BY <1>7, <1>8 DEF TInv

LEMMA TypeStart ==
  ASSUME TInv, Start PROVE TInv'
<1>1. pc' = [t \in Threads |-> "idle"]
  BY DEF Start
<1>2. pc' \in [Threads -> PacketLabels \union TxLabels \union RestLabels]
  BY <1>1 DEF RestLabels
<1>3. TypeOK'
  BY <1>2 DEF TInv, TypeOK, Start, busVars, queueVars, clockVars, trailVars
<1>4. todo' = todo /\ \A t \in Threads : todo[t] = {}
  <2>1. \A t \in Threads : pc[t] \in {"none", "constructed"}
    BY DEF Start, Threads
  <2> QED BY <2>1 DEF Start, TInv, Working
<1>5. Working'
  BY <1>1, <1>4, Domains DEF Working, PacketLabels, TxLabels, RelayerLabels
<1> QED BY <1>3, <1>5 DEF TInv

\* What publish() begins with
LEMMA PublishTypes ==
  ASSUME TInv, NEW t \in Threads, t \notin Relayers, NEW event \in ChainEvents, NEW p \in Packets,
         Publish(t, event, p)
  PROVE  /\ pc' \in [Threads -> PacketLabels \union TxLabels \union RestLabels]
         /\ job' \in [Threads -> PacketJobs \union TxJobs \union {NoJob}]
         /\ todo' \in [Threads -> SUBSET Subs]
         /\ busMutex' \in Threads \union {Free}
         /\ chainMutex' = t /\ (chainMutex = t \/ chainMutex = Free) => Working'
<1>1. On(event, p) \in PacketJobs
  BY PacketTypes
<1>2. Handlers(bus, Kind[event]) \in SUBSET Subs
  BY DEF TInv, TypeOK, Handlers
<1>3. /\ pc' = [pc EXCEPT ![t] = "publish"]
      /\ job' = [job EXCEPT ![t] = On(event, p)]
      /\ todo' = [todo EXCEPT ![t] = Handlers(bus, Kind[event])]
      /\ busMutex' = t
  BY DEF Publish, WorkAt, GoTo
<1>4. /\ pc \in [Threads -> PacketLabels \union TxLabels \union RestLabels]
      /\ job \in [Threads -> PacketJobs \union TxJobs \union {NoJob}]
      /\ todo \in [Threads -> SUBSET Subs]
  BY DEF TInv, TypeOK
<1>5. pc' \in [Threads -> PacketLabels \union TxLabels \union RestLabels]
  BY <1>3, <1>4 DEF PacketLabels
<1>6. job' \in [Threads -> PacketJobs \union TxJobs \union {NoJob}]
  BY <1>1, <1>3, <1>4
<1>7. todo' \in [Threads -> SUBSET Subs]
  BY <1>2, <1>3, <1>4
<1>8. /\ job'[t] = On(event, p)
      /\ \A u \in Threads \ {t} : job'[u] = job[u] /\ todo'[u] = todo[u]
  BY <1>3, <1>4
<1>9. chainMutex' = t /\ (chainMutex = t \/ chainMutex = Free) => Working'
  <2> HAVE chainMutex' = t /\ (chainMutex = t \/ chainMutex = Free)
  <2>1. "publish" \notin TxLabels
    BY DEF TxLabels
  <2> QED BY <1>1, <1>3, <1>8, <2>1, WorkingStep
<1> QED BY <1>3, <1>5, <1>6, <1>7, <1>9

LEMMA TypeMakeAndPublish ==
  ASSUME TInv, NEW t \in Senders, NEW route \in Routes, MakeAndPublish(t, route) PROVE TInv'
<1> DEFINE old == channels[route[1]]["A"]
           end == OpenChannel(old).chan
           p == [src |-> route[1], dst |-> route[2], seq |-> end.nextSeq]
<1>0. t \in Threads /\ t \notin Relayers /\ route[1] \in Chains /\ route[2] \in Chains /\ MaxSend \in Nat
  BY Domains
<1>1. old \in Channel
  BY <1>0 DEF TInv, TypeOK
<1> HIDE DEF old
<1>2. end \in Channel /\ end.nextSeq \in Nat \ {0}
  <2>1. end \in Channel
    BY <1>1, ChannelOperations, 1 \in Nat
  <2> QED BY <2>1 DEF Channel
<1> HIDE DEF end
<1>3. /\ end.nextSeq <= MaxSend /\ chainMutex = Free /\ chainMutex' = t
      /\ channels' = [channels EXCEPT ![route[1]]["A"] = MakePacket(end).chan]
      /\ Publish(t, "packet_created", p)
  BY DEF MakeAndPublish, end, old
<1>4. p \in Packets
  BY <1>0, <1>2, <1>3 DEF Packets
<1> HIDE DEF p
<1>5. channels' \in [Chains -> [{"A", "B"} -> Channel]]
  <2>1. MakePacket(end).chan \in Channel
    BY <1>2, ChannelOperations, 1 \in Nat
  <2> QED BY <1>0, <1>3, <2>1 DEF TInv, TypeOK
<1>6. /\ pc' \in [Threads -> PacketLabels \union TxLabels \union RestLabels]
      /\ job' \in [Threads -> PacketJobs \union TxJobs \union {NoJob}]
      /\ todo' \in [Threads -> SUBSET Subs]
      /\ busMutex' \in Threads \union {Free}
      /\ Working'
  BY <1>0, <1>3, <1>4, PublishTypes DEF ChainEvents
<1>7. TypeOK'
  BY <1>0, <1>3, <1>5, <1>6 DEF TInv, TypeOK, MakeAndPublish, busVars, queueVars, clockVars, trailVars
<1> QED BY <1>6, <1>7 DEF TInv

\* A message in transit to a chain
LEMMA MessageTypes ==
  ASSUME TInv, NEW msg \in transit
  PROVE  /\ msg.type \in {"Data", "Ack"} => msg \in PacketMessages /\ msg.pkt \in Packets
         /\ msg.type = "Tx" => msg \in TxMessages /\ msg.tx \in 1..MaxTx /\ msg.to \in Chains
         /\ transit \ {msg} \subseteq PacketMessages \union TxMessages
<1>1. transit \subseteq PacketMessages \union TxMessages
  BY DEF TInv, TypeOK
<1> QED BY <1>1, PacketTypes

LEMMA TypeAccept ==
  ASSUME TInv, NEW c \in Chains, NEW msg \in transit, AcceptAndPublish(c, msg) PROVE TInv'
<1> DEFINE old == channels[c]["B"]
           end == OpenChannel(old).chan
           accepted == AcceptPacket(end, msg.pkt.seq)
<1>0. c \in Threads /\ c \notin Relayers
  BY Domains
<1>1. msg.pkt \in Packets /\ msg.pkt.seq \in Nat /\ transit \ {msg} \subseteq PacketMessages \union TxMessages
  <2>1. msg.pkt \in Packets
    BY MessageTypes DEF AcceptAndPublish
  <2> QED BY <2>1, MessageTypes, PacketTypes
<1>2. old \in Channel
  BY DEF TInv, TypeOK
<1> HIDE DEF old
<1>3. end \in Channel
  BY <1>2, ChannelOperations, 1 \in Nat
<1> HIDE DEF end
<1>4. accepted.chan \in Channel
  BY <1>1, <1>3, ChannelOperations
<1> HIDE DEF accepted
<1>5. /\ channels' = [channels EXCEPT ![c]["B"] = accepted.chan]
      /\ pc[c] = "idle" /\ chainMutex = Free /\ transit' = transit \ {msg}
      /\ \/ chainMutex' = c /\ Publish(c, "packet_received", msg.pkt) /\ UNCHANGED metrics
         \/ /\ pc' = [pc EXCEPT ![c] = "snapshot"]
            /\ metrics' = [metrics EXCEPT !["ibc_packets_failed"] = @ + 1]
            /\ UNCHANGED <<busMutex, chainMutex, job, todo>>
  BY DEF AcceptAndPublish, GoTo, Count, accepted, end, old
<1>6. channels' \in [Chains -> [{"A", "B"} -> Channel]]
  BY <1>4, <1>5 DEF TInv, TypeOK
<1>7. metrics' \in [Counters -> Nat]
  BY <1>5 DEF TInv, TypeOK, Counters
<1>8. CASE chainMutex' = c /\ Publish(c, "packet_received", msg.pkt)
  <2>1. /\ pc' \in [Threads -> PacketLabels \union TxLabels \union RestLabels]
        /\ job' \in [Threads -> PacketJobs \union TxJobs \union {NoJob}]
        /\ todo' \in [Threads -> SUBSET Subs]
        /\ busMutex' \in Threads \union {Free}
        /\ Working'
    BY <1>0, <1>1, <1>5, <1>8, PublishTypes DEF ChainEvents
  <2>2. TypeOK'
    BY <1>0, <1>1, <1>5, <1>6, <1>7, <1>8, <2>1
       DEF TInv, TypeOK, AcceptAndPublish, busVars, queueVars, clockVars, trailVars
  <2> QED BY <2>1, <2>2 DEF TInv
<1>9. CASE pc' = [pc EXCEPT ![c] = "snapshot"] /\ UNCHANGED <<busMutex, chainMutex, job, todo>>
  <2>1. pc' \in [Threads -> PacketLabels \union TxLabels \union RestLabels]
    BY <1>9 DEF TInv, TypeOK, RestLabels
  <2>2. TypeOK'
    BY <1>1, <1>5, <1>6, <1>7, <1>9, <2>1
       DEF TInv, TypeOK, AcceptAndPublish, busVars, queueVars, clockVars, trailVars
  <2>3. Working'
    BY <1>0, <1>5, <1>9, OnlyPlace DEF RestLabels
  <2> QED BY <2>2, <2>3 DEF TInv
<1> QED BY <1>5, <1>8, <1>9

LEMMA TypePublishAck ==
  ASSUME TInv, NEW c \in Chains, NEW msg \in transit, PublishAck(c, msg) PROVE TInv'
<1>0. c \in Threads /\ c \notin Relayers
  BY Domains
<1>1. msg.pkt \in Packets /\ transit \ {msg} \subseteq PacketMessages \union TxMessages
  BY MessageTypes DEF PublishAck
<1>2. /\ chainMutex = Free /\ chainMutex' = c /\ transit' = transit \ {msg}
      /\ Publish(c, "ack_received", msg.pkt)
  BY DEF PublishAck
<1>3. /\ pc' \in [Threads -> PacketLabels \union TxLabels \union RestLabels]
      /\ job' \in [Threads -> PacketJobs \union TxJobs \union {NoJob}]
      /\ todo' \in [Threads -> SUBSET Subs]
      /\ busMutex' \in Threads \union {Free}
      /\ Working'
  BY <1>0, <1>1, <1>2, PublishTypes DEF ChainEvents
<1>4. TypeOK'
  BY <1>0, <1>1, <1>2, <1>3 DEF TInv, TypeOK, PublishAck, busVars, queueVars, clockVars, trailVars
<1> QED BY <1>3, <1>4 DEF TInv

\* The thread that calls handlers is in publish(), at an event.
LEMMA Calling ==
  ASSUME TInv, NEW t \in Threads, NEW s \in todo[t]
  PROVE  /\ pc[t] = "publish" /\ chainMutex = t /\ t \notin Relayers
         /\ job[t] \in PacketJobs /\ job[t].pkt \in Packets /\ job[t].event \in ChainEvents
         /\ s \in Subs /\ s.handler \in Relayers /\ s.kind \in EventKinds /\ s.token \in Nat
<1>1. pc[t] = "publish"
  BY DEF TInv, Working
<1>2. chainMutex = t /\ job[t] \in PacketJobs
  BY <1>1 DEF TInv, Working, PacketLabels
<1>3. t \notin Relayers
  BY <1>1 DEF TInv, Working, RelayerLabels
<1>4. s \in Subs
  BY DEF TInv, TypeOK
<1>5. s.handler \in Relayers /\ s.kind \in EventKinds /\ s.token \in Nat
  BY <1>4 DEF Subs, Subscriptions
<1> QED BY <1>1, <1>2, <1>3, <1>4, <1>5, PacketTypes

LEMMA TypeCallHandler ==
  ASSUME TInv, NEW t \in Threads, NEW s \in todo[t], CallHandler(t, s) PROVE TInv'
<1> DEFINE r == s.handler
           p == job[t].pkt
<1>0. /\ pc[t] = "publish" /\ job[t] \in PacketJobs /\ p \in Packets /\ r \in Relayers
      /\ t \notin Relayers
  BY Calling
<1>1. /\ todo' = [todo EXCEPT ![t] = @ \ {s}]
      /\ heard' = [heard EXCEPT ![r] = Append(@, job[t])]
      /\ \/ pendingPackets' = [pendingPackets EXCEPT ![r] = Append(@, p)] /\ UNCHANGED pendingAcks
         \/ pendingAcks' = [pendingAcks EXCEPT ![r] = Append(@, p)] /\ UNCHANGED pendingPackets
         \/ UNCHANGED <<pendingPackets, pendingAcks>>
      /\ \E name \in Counters : metrics' = [metrics EXCEPT ![name] = @ + 1]
  BY DEF CallHandler, Count, queueVars, Counters
<1> HIDE DEF r, p
<1>2. todo' \in [Threads -> SUBSET Subs]
  BY <1>1 DEF TInv, TypeOK
<1>3. heard' \in [Relayers -> Seq(PacketJobs)]
  <2>1. heard \in [Relayers -> Seq(PacketJobs)]
    BY DEF TInv, TypeOK
  <2>2. Append(heard[r], job[t]) \in Seq(PacketJobs)
    BY <1>0, <2>1, AppendType
  <2> QED BY <1>1, <2>1, <2>2
<1>4. pendingPackets' \in [Relayers -> Seq(Packets)] /\ pendingAcks' \in [Relayers -> Seq(Packets)]
  <2>1. pendingPackets \in [Relayers -> Seq(Packets)] /\ pendingAcks \in [Relayers -> Seq(Packets)]
    BY DEF TInv, TypeOK
  <2>2. Append(pendingPackets[r], p) \in Seq(Packets) /\ Append(pendingAcks[r], p) \in Seq(Packets)
    BY <1>0, <2>1, AppendType
  <2> QED BY <1>1, <2>1, <2>2
<1>5. metrics' \in [Counters -> Nat]
  BY <1>1 DEF TInv, TypeOK
<1>6. TypeOK'
  BY <1>2, <1>3, <1>4, <1>5 DEF TInv, TypeOK, CallHandler, busVars, queueVars, clockVars, trailVars
<1>7. pc' = pc /\ job' = job /\ chainMutex' = chainMutex
  BY DEF CallHandler
<1>8. \A u \in Threads : todo'[u] # {} => todo[u] # {}
  BY <1>1 DEF TInv, TypeOK
<1>9. Working'
  BY <1>7, <1>8 DEF TInv, Working
<1> QED BY <1>6, <1>9 DEF TInv

\* A thread inside a method of a chain
LEMMA AtWork ==
  ASSUME TInv, NEW t \in Threads, pc[t] \in PacketLabels
  PROVE  /\ chainMutex = t /\ t \notin Relayers
         /\ job[t] \in PacketJobs /\ job[t].pkt \in Packets /\ job[t].event \in ChainEvents
         /\ \A u \in Threads \ {t} : pc[u] \notin PacketLabels
<1>1. chainMutex = t /\ job[t] \in PacketJobs /\ \A u \in Threads \ {t} : pc[u] \notin PacketLabels
  BY DEF TInv, Working
<1>2. t \notin Relayers
  BY DEF TInv, Working, RelayerLabels, PacketLabels
<1> QED BY <1>1, <1>2, PacketTypes

LEMMA TypeStamp ==
  ASSUME TInv, NEW t \in Threads, Stamp(t) PROVE TInv'
<1>1. /\ pc[t] = "publish" /\ todo[t] = {} /\ todo' = todo /\ job' = job /\ chainMutex' = chainMutex
      /\ pc' = [pc EXCEPT ![t] = "write"]
      /\ stamp' = [stamp EXCEPT ![t] = clock_'] /\ clock_' \in {clock_, clock_ + 1}
      /\ busMutex' = Free
      /\ metrics' = [metrics EXCEPT ![Counter[job[t].event]] = @ + 1]
  BY DEF Stamp, LookAtClock, GoTo, Count
<1>2. pc[t] \in PacketLabels
  BY <1>1 DEF PacketLabels
<1>3. chainMutex = t /\ t \notin Relayers /\ job[t] \in PacketJobs /\ Counter[job[t].event] \in Counters
  BY <1>2, AtWork, Tables
<1>4. pc' \in [Threads -> PacketLabels \union TxLabels \union RestLabels]
  BY <1>1 DEF TInv, TypeOK, PacketLabels
<1>5. metrics' \in [Counters -> Nat]
  BY <1>1, <1>3 DEF TInv, TypeOK
<1>6. stamp' \in [Threads -> Nat] /\ clock_' \in Nat
  BY <1>1 DEF TInv, TypeOK
<1>7. TypeOK'
  BY <1>1, <1>4, <1>5, <1>6 DEF TInv, TypeOK, Stamp, busVars, queueVars, trailVars
<1>8. Working'
  <2>1. "write" \notin TxLabels
    BY DEF TxLabels
  <2> QED BY <1>1, <1>3, <2>1, WorkingStep
<1> QED BY <1>7, <1>8 DEF TInv

LEMMA TypeWrite ==
  ASSUME TInv, NEW t \in Threads, Write(t) PROVE TInv'
<1> DEFINE line == [event |-> job[t].event, pkt |-> job[t].pkt, ts |-> stamp[t]]
           next == IF t \in Senders THEN "idle" ELSE "snapshot"
<1>1. /\ pc[t] = "write" /\ ibc_events' = Append(ibc_events, line)
      /\ \/ Publish(t, "ack_generated", job[t].pkt) /\ UNCHANGED chainMutex
         \/ /\ pc' = [pc EXCEPT ![t] = next] /\ job' = [job EXCEPT ![t] = NoJob]
            /\ chainMutex' = Free /\ todo' = todo /\ busMutex' = busMutex
  BY DEF Write, WorkAt, GoTo, LogIBCEvent
<1>2. pc[t] \in PacketLabels /\ todo[t] = {}
  BY <1>1 DEF PacketLabels, TInv, Working
<1>3. chainMutex = t /\ t \notin Relayers /\ job[t].pkt \in Packets /\ job[t].event \in ChainEvents
  BY <1>2, AtWork
<1>4. ibc_events' \in Seq(ChainLines)
  <2>1. ibc_events \in Seq(ChainLines) /\ stamp[t] \in Nat
    BY DEF TInv, TypeOK
  <2>2. line \in ChainLines
    BY <1>3, <2>1, PacketTypes
  <2> HIDE DEF line
  <2> QED BY <1>1, <2>1, <2>2, AppendType
<1>5. CASE Publish(t, "ack_generated", job[t].pkt) /\ UNCHANGED chainMutex
  <2>1. /\ pc' \in [Threads -> PacketLabels \union TxLabels \union RestLabels]
        /\ job' \in [Threads -> PacketJobs \union TxJobs \union {NoJob}]
        /\ todo' \in [Threads -> SUBSET Subs]
        /\ busMutex' \in Threads \union {Free}
        /\ Working'
    BY <1>3, <1>5, PublishTypes DEF ChainEvents
  <2>2. TypeOK'
    BY <1>4, <1>5, <2>1 DEF TInv, TypeOK, Write, busVars, queueVars, clockVars
  <2> QED BY <2>1, <2>2 DEF TInv
<1>6. CASE /\ pc' = [pc EXCEPT ![t] = next] /\ job' = [job EXCEPT ![t] = NoJob]
           /\ chainMutex' = Free /\ todo' = todo /\ busMutex' = busMutex
  <2>1. pc' \in [Threads -> PacketLabels \union TxLabels \union RestLabels]
    BY <1>6 DEF TInv, TypeOK, RestLabels
  <2>2. job' \in [Threads -> PacketJobs \union TxJobs \union {NoJob}]
    BY <1>6 DEF TInv, TypeOK
  <2>3. TypeOK'
    BY <1>4, <1>6, <2>1, <2>2 DEF TInv, TypeOK, Write, busVars, queueVars, clockVars
  <2>4. next \notin PacketLabels /\ next \notin TxLabels
    BY DEF PacketLabels, TxLabels
  <2>5. \A u \in Threads \ {t} : job'[u] = job[u]
    BY <1>6 DEF TInv, TypeOK
  <2> HIDE DEF next
  <2>6. Working'
    BY <1>2, <1>3, <1>6, <2>4, <2>5, WorkingStep
  <2> QED BY <2>3, <2>6 DEF TInv
<1> QED BY <1>1, <1>5, <1>6

LEMMA TypeSnapshot ==
  ASSUME TInv, NEW c \in Chains, Snapshot(c) PROVE TInv'
<1>1. /\ pc[c] = "snapshot" /\ pc' = [pc EXCEPT ![c] = "idle"]
      /\ node_state' = [node_state EXCEPT ![c] = @ + 1]
      /\ job' = job /\ todo' = todo /\ chainMutex' = chainMutex
  BY DEF Snapshot, GoTo, LogNodeState
<1>2. pc' \in [Threads -> PacketLabels \union TxLabels \union RestLabels]
  BY <1>1 DEF TInv, TypeOK, RestLabels
<1>3. node_state' \in [Chains -> Nat]
  BY <1>1 DEF TInv, TypeOK
<1>4. TypeOK'
  BY <1>1, <1>2, <1>3 DEF TInv, TypeOK, Snapshot, busVars, queueVars, clockVars, trailVars
<1>5. Working'
  BY <1>1, OnlyPlace, Domains DEF RestLabels
<1> QED BY <1>4, <1>5 DEF TInv

\* A thread takes up a transaction, or has its next event to log.
LEMMA TxPlace ==
  ASSUME TInv, NEW t \in Threads, t \notin Relayers, NEW work \in TxJobs, NEW label \in TxLabels,
         pc[t] # "publish",
         WorkAt(t, label, work), todo' = todo, chainMutex' = chainMutex
  PROVE  /\ pc' \in [Threads -> PacketLabels \union TxLabels \union RestLabels]
         /\ job' \in [Threads -> PacketJobs \union TxJobs \union {NoJob}]
         /\ Working'
<1>1. pc' = [pc EXCEPT ![t] = label] /\ job' = [job EXCEPT ![t] = work]
  BY DEF WorkAt, GoTo
<1>2. /\ pc \in [Threads -> PacketLabels \union TxLabels \union RestLabels]
      /\ job \in [Threads -> PacketJobs \union TxJobs \union {NoJob}]
  BY DEF TInv, TypeOK
<1>3. todo[t] = {} /\ label \notin PacketLabels
  BY DEF TInv, Working, TxLabels, PacketLabels
<1>4. job'[t] = work /\ \A u \in Threads \ {t} : job'[u] = job[u]
  BY <1>1, <1>2
<1>5. Working'
  BY <1>1, <1>3, <1>4, WorkingStep
<1> QED BY <1>1, <1>2, <1>5

\* A thread has done with its transaction.
LEMMA TxDone ==
  ASSUME TInv, NEW t \in Threads, t \notin Relayers, NEW label \in {"idle", "snapshot"},
         pc[t] # "publish",
         WorkAt(t, label, NoJob), todo' = todo, chainMutex' = chainMutex
  PROVE  /\ pc' \in [Threads -> PacketLabels \union TxLabels \union RestLabels]
         /\ job' \in [Threads -> PacketJobs \union TxJobs \union {NoJob}]
         /\ Working'
<1>1. pc' = [pc EXCEPT ![t] = label] /\ job' = [job EXCEPT ![t] = NoJob]
  BY DEF WorkAt, GoTo
<1>2. /\ pc \in [Threads -> PacketLabels \union TxLabels \union RestLabels]
      /\ job \in [Threads -> PacketJobs \union TxJobs \union {NoJob}]
  BY DEF TInv, TypeOK
<1>3. todo[t] = {} /\ label \notin PacketLabels /\ label \notin TxLabels
  BY DEF TInv, Working, TxLabels, PacketLabels
<1>4. \A u \in Threads \ {t} : job'[u] = job[u]
  BY <1>1, <1>2
<1>5. Working'
  BY <1>1, <1>3, <1>4, WorkingStep
<1>6. label \in RestLabels
  BY DEF RestLabels
<1> QED BY <1>1, <1>2, <1>5, <1>6

LEMMA TypeNewTx ==
  ASSUME TInv, NEW t \in Senders, NEW c \in Chains, NewTx(t, c) PROVE TInv'
<1> DEFINE work == [event |-> "created", tx |-> nextTx, to |-> c]
<1>0. t \in Threads /\ t \notin Relayers /\ MaxTx \in Nat
  BY Domains
<1>1. /\ pc[t] = "idle" /\ nextTx <= MaxTx /\ nextTx' = nextTx + 1 /\ WorkAt(t, "log", work)
      /\ todo' = todo /\ chainMutex' = chainMutex
  BY DEF NewTx
<1>2. nextTx \in 1..MaxTx /\ nextTx' \in 1..(MaxTx + 1)
  BY <1>0, <1>1 DEF TInv, TypeOK
<1>3. work \in TxJobs
  BY <1>2 DEF TxJobs, TxEvents
<1> HIDE DEF work
<1>4. /\ pc' \in [Threads -> PacketLabels \union TxLabels \union RestLabels]
      /\ job' \in [Threads -> PacketJobs \union TxJobs \union {NoJob}]
      /\ Working'
  BY <1>0, <1>1, <1>3, TxPlace DEF TxLabels
<1>5. TypeOK'
  BY <1>1, <1>2, <1>4 DEF TInv, TypeOK, NewTx, busVars, queueVars, clockVars, trailVars
<1> QED BY <1>4, <1>5 DEF TInv

\* A thread with a transaction
LEMMA AtTx ==
  ASSUME TInv, NEW t \in Threads, pc[t] \in TxLabels
  PROVE  /\ job[t] \in TxJobs /\ job[t].tx \in 1..MaxTx /\ job[t].to \in Chains
         /\ job[t].event \in TxEvents /\ t \notin Relayers /\ pc[t] # "publish"
<1>1. job[t] \in TxJobs
  BY DEF TInv, Working
<1>2. t \notin Relayers /\ pc[t] # "publish"
  BY DEF TInv, Working, RelayerLabels, TxLabels
<1> QED BY <1>1, <1>2 DEF TxJobs

LEMMA TypeLogTx ==
  ASSUME TInv, NEW t \in Threads, LogTx(t) PROVE TInv'
<1>1. /\ pc[t] = "log" /\ transactions' = Append(transactions, job[t])
      /\ \/ WorkAt(t, "log", [job[t] EXCEPT !.event = "submitted"])
         \/ job' = job /\ GoTo(t, "send")
         \/ WorkAt(t, "snapshot", NoJob)
      /\ todo' = todo /\ chainMutex' = chainMutex
  BY DEF LogTx, LogTransactionEvent
<1>2. pc[t] \in TxLabels
  BY <1>1 DEF TxLabels
<1>3. job[t] \in TxJobs /\ t \notin Relayers /\ pc[t] # "publish"
  BY <1>2, AtTx
<1>4. transactions' \in Seq(TxJobs)
  BY <1>1, <1>3, AppendType DEF TInv, TypeOK
<1>5. [job[t] EXCEPT !.event = "submitted"] \in TxJobs
  BY <1>3 DEF TxJobs, TxEvents
<1>6. job' = job /\ GoTo(t, "send") => WorkAt(t, "send", job[t])
  BY DEF WorkAt, TInv, TypeOK
<1>7. /\ pc' \in [Threads -> PacketLabels \union TxLabels \union RestLabels]
      /\ job' \in [Threads -> PacketJobs \union TxJobs \union {NoJob}]
      /\ Working'
  <2>1. CASE WorkAt(t, "log", [job[t] EXCEPT !.event = "submitted"])
    BY <1>1, <1>3, <1>5, <2>1, TxPlace DEF TxLabels
  <2>2. CASE WorkAt(t, "send", job[t])
    BY <1>1, <1>3, <2>2, TxPlace DEF TxLabels
  <2>3. CASE WorkAt(t, "snapshot", NoJob)
    BY <1>1, <1>3, <2>3, TxDone
  <2> QED BY <1>1, <1>6, <2>1, <2>2, <2>3
<1>8. TypeOK'
  BY <1>1, <1>4, <1>7 DEF TInv, TypeOK, LogTx, busVars, queueVars, clockVars, trailVars
<1> QED BY <1>7, <1>8 DEF TInv

LEMMA TypeSendTx ==
  ASSUME TInv, NEW t \in Threads, SendTx(t) PROVE TInv'
<1> DEFINE msg == [type |-> "Tx", tx |-> job[t].tx, to |-> job[t].to]
<1>1. /\ pc[t] = "send" /\ transit' = transit \union {msg} /\ WorkAt(t, "idle", NoJob)
      /\ todo' = todo /\ chainMutex' = chainMutex
  BY DEF SendTx
<1>2. pc[t] \in TxLabels
  BY <1>1 DEF TxLabels
<1>3. t \notin Relayers /\ pc[t] # "publish"
  BY <1>2, AtTx
<1>4. msg \in TxMessages
  BY <1>2, AtTx DEF TxMessages
<1> HIDE DEF msg
<1>5. /\ pc' \in [Threads -> PacketLabels \union TxLabels \union RestLabels]
      /\ job' \in [Threads -> PacketJobs \union TxJobs \union {NoJob}]
      /\ Working'
  BY <1>1, <1>3, TxDone
<1>6. TypeOK'
  BY <1>1, <1>4, <1>5 DEF TInv, TypeOK, SendTx, busVars, queueVars, clockVars, trailVars
<1> QED BY <1>5, <1>6 DEF TInv

LEMMA TypeReceiveTx ==
  ASSUME TInv, NEW c \in Chains, NEW msg \in transit, ReceiveTx(c, msg) PROVE TInv'
<1> DEFINE work == [event |-> "received", tx |-> msg.tx, to |-> c]
<1>0. c \in Threads /\ c \notin Relayers
  BY Domains
<1>1. /\ pc[c] = "idle" /\ msg.type = "Tx" /\ transit' = transit \ {msg} /\ WorkAt(c, "log", work)
      /\ todo' = todo /\ chainMutex' = chainMutex
  BY DEF ReceiveTx
<1>2. msg.tx \in 1..MaxTx /\ transit \ {msg} \subseteq PacketMessages \union TxMessages
  BY <1>1, MessageTypes
<1>3. work \in TxJobs
  BY <1>2 DEF TxJobs, TxEvents
<1> HIDE DEF work
<1>4. /\ pc' \in [Threads -> PacketLabels \union TxLabels \union RestLabels]
      /\ job' \in [Threads -> PacketJobs \union TxJobs \union {NoJob}]
      /\ Working'
  BY <1>0, <1>1, <1>3, TxPlace DEF TxLabels
<1>5. TypeOK'
  BY <1>1, <1>2, <1>4 DEF TInv, TypeOK, ReceiveTx, busVars, queueVars, clockVars, trailVars
<1> QED BY <1>4, <1>5 DEF TInv

\* What relaying a packet does to the transport, the files and the statistics
LEMMA RelayTypes ==
  ASSUME TInv, NEW r \in Relayers, NEW p \in Packets,
         NEW event \in RelayerEvents, NEW type \in {"Data", "Ack"}, Relay(r, event, type, p)
  PROVE  /\ transit' \subseteq PacketMessages \union TxMessages
         /\ relayed' \subseteq RelayerLines
         /\ relayer_state' \in [Relayers -> Seq([packets : Nat, acks : Nat, failures : Nat])]
         /\ statistics' \in [Relayers -> [packets : Nat, acks : Nat, failures : Nat]]
<1>1. /\ transit \subseteq PacketMessages \union TxMessages /\ relayed \subseteq RelayerLines
      /\ relayer_state \in [Relayers -> Seq([packets : Nat, acks : Nat, failures : Nat])]
      /\ statistics \in [Relayers -> [packets : Nat, acks : Nat, failures : Nat]]
  BY DEF TInv, TypeOK
<1>2. /\ [type |-> type, pkt |-> p, via |-> r] \in PacketMessages
      /\ [event |-> event, pkt |-> p, by |-> r] \in RelayerLines
  BY PacketTypes
<1>3. /\ \/ /\ transit' = transit \union {[type |-> type, pkt |-> p, via |-> r]}
            /\ relayed' = relayed \union {[event |-> event, pkt |-> p, by |-> r]}
            /\ statistics' = IF type = "Data" THEN [statistics EXCEPT ![r].packets = @ + 1]
                             ELSE [statistics EXCEPT ![r].acks = @ + 1]
         \/ /\ statistics' = [statistics EXCEPT ![r].failures = @ + 1]
            /\ UNCHANGED <<transit, relayed>>
      /\ relayer_state' = [relayer_state EXCEPT ![r] = Append(@, statistics'[r])]
  BY DEF Relay, LogRelayerState
<1>4. transit' \subseteq PacketMessages \union TxMessages /\ relayed' \subseteq RelayerLines
  BY <1>1, <1>2, <1>3
<1>5. statistics' \in [Relayers -> [packets : Nat, acks : Nat, failures : Nat]]
  <2>0. statistics \in [Relayers -> [packets : Nat, acks : Nat, failures : Nat]]
    BY <1>1
  <2>1. CASE statistics' = [statistics EXCEPT ![r].failures = @ + 1]
    BY ONLY <2>0, <2>1, r \in Relayers
  <2>2. CASE statistics' = [statistics EXCEPT ![r].packets = @ + 1]
    BY ONLY <2>0, <2>2, r \in Relayers
  <2>3. CASE statistics' = [statistics EXCEPT ![r].acks = @ + 1]
    BY ONLY <2>0, <2>3, r \in Relayers
  <2> QED BY <1>3, <2>1, <2>2, <2>3
<1>6. relayer_state' \in [Relayers -> Seq([packets : Nat, acks : Nat, failures : Nat])]
  <2>1. Append(relayer_state[r], statistics'[r]) \in Seq([packets : Nat, acks : Nat, failures : Nat])
    BY <1>1, <1>5, AppendType
  <2> QED BY <1>1, <1>3, <2>1
<1> QED BY <1>4, <1>5, <1>6

LEMMA TypeRelayPacket ==
  ASSUME TInv, NEW r \in Relayers, RelayPacket(r) PROVE TInv'
<1> DEFINE p == Head(pendingPackets[r])
<1>1. /\ pc[r] = "idle" /\ pendingPackets[r] # <<>>
      /\ pendingPackets' = [pendingPackets EXCEPT ![r] = Tail(@)]
      /\ Relay(r, "packet_relayed", "Data", p) /\ pc' = [pc EXCEPT ![r] = "acks"]
      /\ job' = job /\ todo' = todo /\ chainMutex' = chainMutex
  BY DEF RelayPacket, GoTo
<1>2. p \in Packets /\ Tail(pendingPackets[r]) \in Seq(Packets)
  BY <1>1, HeadTailType DEF TInv, TypeOK
<1> HIDE DEF p
<1>3. pendingPackets' \in [Relayers -> Seq(Packets)]
  BY <1>1, <1>2 DEF TInv, TypeOK
<1>4. pc' \in [Threads -> PacketLabels \union TxLabels \union RestLabels]
  BY <1>1 DEF TInv, TypeOK, RestLabels
<1>5. /\ transit' \subseteq PacketMessages \union TxMessages
      /\ relayed' \subseteq RelayerLines
      /\ relayer_state' \in [Relayers -> Seq([packets : Nat, acks : Nat, failures : Nat])]
      /\ statistics' \in [Relayers -> [packets : Nat, acks : Nat, failures : Nat]]
  BY <1>1, <1>2, RelayTypes DEF RelayerEvents
<1>6. TypeOK'
  BY <1>1, <1>3, <1>4, <1>5 DEF TInv, TypeOK, RelayPacket, busVars, clockVars
<1>7. Working'
  BY <1>1, OnlyPlace, Domains DEF RestLabels, RelayerLabels
<1> QED BY <1>6, <1>7 DEF TInv

LEMMA TypeRelayAck ==
  ASSUME TInv, NEW r \in Relayers, RelayAck(r) PROVE TInv'
<1> DEFINE p == Head(pendingAcks[r])
<1>1. /\ pc[r] # "publish" /\ pendingAcks[r] # <<>>
      /\ pendingAcks' = [pendingAcks EXCEPT ![r] = Tail(@)]
      /\ Relay(r, "ack_relayed", "Ack", p) /\ pc' = [pc EXCEPT ![r] = "idle"]
      /\ job' = job /\ todo' = todo /\ chainMutex' = chainMutex
  BY DEF RelayAck, GoTo
<1>2. p \in Packets /\ Tail(pendingAcks[r]) \in Seq(Packets)
  BY <1>1, HeadTailType DEF TInv, TypeOK
<1> HIDE DEF p
<1>3. pendingAcks' \in [Relayers -> Seq(Packets)]
  BY <1>1, <1>2 DEF TInv, TypeOK
<1>4. pc' \in [Threads -> PacketLabels \union TxLabels \union RestLabels]
  BY <1>1 DEF TInv, TypeOK, RestLabels
<1>5. /\ transit' \subseteq PacketMessages \union TxMessages
      /\ relayed' \subseteq RelayerLines
      /\ relayer_state' \in [Relayers -> Seq([packets : Nat, acks : Nat, failures : Nat])]
      /\ statistics' \in [Relayers -> [packets : Nat, acks : Nat, failures : Nat]]
  BY <1>1, <1>2, RelayTypes DEF RelayerEvents
<1>6. TypeOK'
  BY <1>1, <1>3, <1>4, <1>5 DEF TInv, TypeOK, RelayAck, busVars, clockVars
<1>7. Working'
  BY <1>1, OnlyPlace, Domains DEF RestLabels, RelayerLabels
<1> QED BY <1>6, <1>7 DEF TInv

LEMMA TypeNoAck ==
  ASSUME TInv, NEW r \in Relayers, NoAck(r) PROVE TInv'
<1>1. /\ pc[r] = "acks" /\ pc' = [pc EXCEPT ![r] = "idle"]
      /\ job' = job /\ todo' = todo /\ chainMutex' = chainMutex
  BY DEF NoAck, GoTo
<1>2. pc' \in [Threads -> PacketLabels \union TxLabels \union RestLabels]
  BY <1>1 DEF TInv, TypeOK, RestLabels
<1>3. TypeOK'
  BY <1>2 DEF TInv, TypeOK, NoAck, busVars, queueVars, clockVars, trailVars
<1>4. Working'
  BY <1>1, OnlyPlace, Domains DEF RestLabels, RelayerLabels
<1> QED BY <1>3, <1>4 DEF TInv

LEMMA TypeStopRelayer ==
  ASSUME TInv, NEW r \in Relayers, StopRelayer(r) PROVE TInv'
<1>1. closed' \subseteq Relayers
  BY DEF StopRelayer, TInv, TypeOK
<1>2. TypeOK'
  BY <1>1 DEF TInv, TypeOK, StopRelayer, busVars, queueVars, clockVars, trailVars
<1>3. Working'
  BY DEF StopRelayer, TInv, Working
<1> QED BY <1>2, <1>3 DEF TInv

LEMMA TypeEnd ==
  ASSUME TInv, NEW t \in Threads, End(t) PROVE TInv'
<1>1. /\ pc[t] = "idle" /\ pc' = [pc EXCEPT ![t] = "ended"]
      /\ job' = job /\ todo' = todo /\ chainMutex' = chainMutex
  BY DEF End, GoTo
<1>2. pc' \in [Threads -> PacketLabels \union TxLabels \union RestLabels]
  BY <1>1 DEF TInv, TypeOK, RestLabels
<1>3. TypeOK'
  BY <1>2 DEF TInv, TypeOK, End, busVars, queueVars, clockVars, trailVars
<1>4. Working'
  BY <1>1, OnlyPlace DEF RestLabels, RelayerLabels
<1> QED BY <1>3, <1>4 DEF TInv

LEMMA TypeDestroy ==
  ASSUME TInv, NEW r \in Relayers, Destroy(r) PROVE TInv'
<1>1. /\ pc[r] = "ended" /\ pc' = [pc EXCEPT ![r] = "destroyed"]
      /\ job' = job /\ todo' = todo /\ chainMutex' = chainMutex
  BY DEF Destroy, GoTo
<1>2. pc' \in [Threads -> PacketLabels \union TxLabels \union RestLabels]
  BY <1>1 DEF TInv, TypeOK, RestLabels
<1>3. bus' \in [nextToken : Nat \ {0}, subs : SUBSET Subs]
  <2>1. bus \in [nextToken : Nat \ {0}, subs : SUBSET Subs]
    BY DEF TInv, TypeOK
  <2>2. Unsubscribe(bus, tokens[r].packet) \in [nextToken : Nat \ {0}, subs : SUBSET Subs]
    BY <2>1, BusTypes DEF EventKinds
  <2> QED BY <2>2, BusTypes DEF Destroy, EventKinds
<1>4. TypeOK'
  BY <1>2, <1>3 DEF TInv, TypeOK, Destroy, queueVars, clockVars, trailVars
<1>5. Working'
  BY <1>1, OnlyPlace, Domains DEF RestLabels, RelayerLabels
<1> QED BY <1>4, <1>5 DEF TInv

\* Every step keeps the types and the mutual exclusion.
LEMMA TypeStep == TInv /\ [Next]_vars => TInv'
<1> SUFFICES ASSUME TInv, [Next]_vars PROVE TInv'
  OBVIOUS
<1>1. CASE UNCHANGED vars
  <2>1. TypeOK'
    BY <1>1 DEF TInv, TypeOK, vars, busVars, queueVars, clockVars, trailVars
  <2>2. Working'
    BY <1>1 DEF TInv, Working, vars, busVars, queueVars, clockVars, trailVars
  <2> QED BY <2>1, <2>2 DEF TInv
<1>2. ASSUME NEW r \in Relayers, Construct(r) \/ StopRelayer(r) \/ Destroy(r) PROVE TInv'
  BY <1>2, TypeConstruct, TypeStopRelayer, TypeDestroy
<1>3. CASE Start
  BY <1>3, TypeStart
<1>4. ASSUME NEW t \in Threads, Step(t) PROVE TInv'
  BY <1>4, TypeCallHandler, TypeStamp, TypeWrite, TypeLogTx, TypeSendTx, TypeRelayPacket,
     TypeRelayAck, TypeNoAck, TypeSnapshot, TypeAccept, TypePublishAck, TypeReceiveTx DEF Step
<1>5. ASSUME NEW t \in Threads, End(t) PROVE TInv'
  BY <1>5, TypeEnd
<1>6. ASSUME NEW t \in Senders, Traffic(t) PROVE TInv'
  BY <1>6, TypeMakeAndPublish, TypeNewTx DEF Traffic
<1>7. CASE Terminated
  BY <1>1, <1>7 DEF Terminated
<1> QED BY <1>1, <1>2, <1>3, <1>4, <1>5, <1>6, <1>7 DEF Next

\* The state keeps its type, and the mutex of the chains its meaning: no two threads
\* are inside methods of chains at once, and relayers never are.
THEOREM TypeCorrect == Spec => []TypeOK /\ []Working
<1>1. TInv => TypeOK /\ Working
  BY DEF TInv
<1> QED BY <1>1, TypeInit, TypeStep, PTL DEF Spec

-----------------------------------------------------------------------------
(* Handlers *)

Gone == {"none", "destroyed"}

\* A subscription is by one of the two tokens its relayer keeps, and neither the bus
\* nor a publish() has a handler of a relayer that is not there.
SubscribersLive ==
  /\ \A s \in bus.subs :
       /\ s.token = tokens[s.handler].packet \/ s.token = tokens[s.handler].ack
       /\ pc[s.handler] \notin Gone
  /\ \A t \in Threads : \A s \in todo[t] : pc[s.handler] \notin Gone

\* All steps but two leave the bus alone, and no relayer goes or comes.
LEMMA BusSteps ==
  ASSUME TInv, [Next]_vars
  PROVE  \/ \E r \in Relayers : Construct(r) \/ Destroy(r)
         \/ /\ bus' = bus /\ tokens' = tokens
            /\ \A r \in Relayers : pc[r] \notin Gone => pc'[r] \notin Gone
            /\ \A t \in Threads : todo'[t] \subseteq todo[t] \union bus.subs
<1> DEFINE Kept == /\ bus' = bus /\ tokens' = tokens
                   /\ \A r \in Relayers : pc[r] \notin Gone => pc'[r] \notin Gone
                   /\ \A t \in Threads : todo'[t] \subseteq todo[t] \union bus.subs
<1>0. ASSUME NEW t \in Threads, NEW label, label \notin Gone, pc' = [pc EXCEPT ![t] = label]
      PROVE  \A r \in Relayers : pc[r] \notin Gone => pc'[r] \notin Gone
  <2>1. \A r \in Relayers : r \in Threads
    BY Domains
  <2>2. pc \in [Threads -> PacketLabels \union TxLabels \union RestLabels]
    BY DEF TInv, TypeOK
  <2> QED BY <1>0, <2>1, <2>2
<1>1. ASSUME NEW t \in Threads, NEW event, NEW p, Publish(t, event, p)
      PROVE  /\ \A r \in Relayers : pc[r] \notin Gone => pc'[r] \notin Gone
             /\ \A u \in Threads : todo'[u] \subseteq todo[u] \union bus.subs
  <2>1. pc' = [pc EXCEPT ![t] = "publish"] /\ todo' = [todo EXCEPT ![t] = Handlers(bus, Kind[event])]
    BY <1>1 DEF Publish, WorkAt, GoTo
  <2>2. \A u \in Threads : todo'[u] \subseteq todo[u] \union bus.subs
    BY <2>1 DEF Handlers, TInv, TypeOK
  <2> QED BY <1>0, <2>1, <2>2 DEF Gone
<1>2. CASE UNCHANGED vars
  BY <1>2 DEF vars, busVars
<1>3. ASSUME NEW r \in Relayers, StopRelayer(r) PROVE Kept
  BY <1>3 DEF StopRelayer, busVars
<1>4. CASE Start
  <2>1. \A r \in Relayers : r \in Threads /\ "idle" \notin Gone
    BY Domains DEF Gone
  <2> QED BY <1>4, <2>1 DEF Start, busVars
<1>5. ASSUME NEW t \in Threads, End(t) PROVE Kept
  <2>1. pc' = [pc EXCEPT ![t] = "ended"] /\ bus' = bus /\ tokens' = tokens /\ todo' = todo
    BY <1>5 DEF End, GoTo, busVars
  <2> QED BY <1>0, <2>1 DEF Gone
<1>6. ASSUME NEW t \in Senders, Traffic(t) PROVE Kept
  <2>0. t \in Threads
    BY Domains
  <2>1. ASSUME NEW route \in Routes, MakeAndPublish(t, route) PROVE Kept
    <3>1. /\ \E event, p : Publish(t, event, p)
          /\ bus' = bus /\ tokens' = tokens
      BY <2>1 DEF MakeAndPublish, busVars
    <3> QED BY <1>1, <2>0, <3>1
  <2>2. ASSUME NEW c \in Chains, NewTx(t, c) PROVE Kept
    <3>1. pc' = [pc EXCEPT ![t] = "log"] /\ bus' = bus /\ tokens' = tokens /\ todo' = todo
      BY <2>2 DEF NewTx, WorkAt, GoTo, busVars
    <3> QED BY <1>0, <2>0, <3>1 DEF Gone
  <2> QED BY <1>6, <2>1, <2>2 DEF Traffic
<1>7. ASSUME NEW t \in Threads, Step(t) PROVE Kept
  <2>1. ASSUME NEW s \in todo[t], CallHandler(t, s) PROVE Kept
    <3>1. pc' = pc /\ bus' = bus /\ tokens' = tokens /\ todo' = [todo EXCEPT ![t] = @ \ {s}]
      BY <2>1 DEF CallHandler, busVars
    <3>2. \A u \in Threads : todo'[u] \subseteq todo[u]
      BY <3>1 DEF TInv, TypeOK
    <3> QED BY <3>1, <3>2
  <2>2. CASE Stamp(t)
    <3>1. pc' = [pc EXCEPT ![t] = "write"] /\ bus' = bus /\ tokens' = tokens /\ todo' = todo
      BY <2>2 DEF Stamp, GoTo, busVars
    <3> QED BY <1>0, <3>1 DEF Gone
  <2>3. CASE Write(t)
    <3>1. /\ bus' = bus /\ tokens' = tokens
          /\ \/ Publish(t, "ack_generated", job[t].pkt)
             \/ pc' = [pc EXCEPT ![t] = IF t \in Senders THEN "idle" ELSE "snapshot"] /\ todo' = todo
      BY <2>3 DEF Write, WorkAt, GoTo, busVars
    <3>2. (IF t \in Senders THEN "idle" ELSE "snapshot") \notin Gone
      BY DEF Gone
    <3> QED BY <1>0, <1>1, <3>1, <3>2
  <2>4. CASE LogTx(t)
    <3>1. /\ bus' = bus /\ tokens' = tokens /\ todo' = todo
          /\ \E label \in {"log", "send", "snapshot"} : pc' = [pc EXCEPT ![t] = label]
      BY <2>4 DEF LogTx, WorkAt, GoTo, busVars
    <3> QED BY <1>0, <3>1 DEF Gone
  <2>5. CASE SendTx(t)
    <3>1. pc' = [pc EXCEPT ![t] = "idle"] /\ bus' = bus /\ tokens' = tokens /\ todo' = todo
      BY <2>5 DEF SendTx, WorkAt, GoTo, busVars
    <3> QED BY <1>0, <3>1 DEF Gone
  <2>6. CASE t \in Relayers /\ (RelayPacket(t) \/ RelayAck(t) \/ NoAck(t))
    <3>1. /\ bus' = bus /\ tokens' = tokens /\ todo' = todo
          /\ \E label \in {"acks", "idle"} : pc' = [pc EXCEPT ![t] = label]
      BY <2>6 DEF RelayPacket, RelayAck, NoAck, GoTo, busVars
    <3> QED BY <1>0, <3>1 DEF Gone
  <2>7. CASE Snapshot(t)
    <3>1. pc' = [pc EXCEPT ![t] = "idle"] /\ bus' = bus /\ tokens' = tokens /\ todo' = todo
      BY <2>7 DEF Snapshot, GoTo, busVars
    <3> QED BY <1>0, <3>1 DEF Gone
  <2>8. ASSUME NEW msg \in transit, AcceptAndPublish(t, msg) PROVE Kept
    <3>1. /\ bus' = bus /\ tokens' = tokens
          /\ \/ Publish(t, "packet_received", msg.pkt)
             \/ pc' = [pc EXCEPT ![t] = "snapshot"] /\ todo' = todo
      BY <2>8 DEF AcceptAndPublish, GoTo, busVars
    <3> QED BY <1>0, <1>1, <3>1 DEF Gone
  <2>9. ASSUME NEW msg \in transit, PublishAck(t, msg) PROVE Kept
    BY <1>1, <2>9 DEF PublishAck, busVars
  <2>10. ASSUME NEW msg \in transit, ReceiveTx(t, msg) PROVE Kept
    <3>1. pc' = [pc EXCEPT ![t] = "log"] /\ bus' = bus /\ tokens' = tokens /\ todo' = todo
      BY <2>10 DEF ReceiveTx, WorkAt, GoTo, busVars
    <3> QED BY <1>0, <3>1 DEF Gone
  <2> QED BY <1>7, <2>1, <2>2, <2>3, <2>4, <2>5, <2>6, <2>7, <2>8, <2>9, <2>10 DEF Step
<1>8. CASE Terminated
  BY <1>2, <1>8 DEF Terminated
<1> QED BY <1>2, <1>3, <1>4, <1>5, <1>6, <1>7, <1>8 DEF Next

LEMMA SubscribersInit == Init => SubscribersLive
BY DEF Init, SubscribersLive, NewBus

LEMMA SubscribersStep == TInv /\ SubscribersLive /\ [Next]_vars => SubscribersLive'
<1> SUFFICES ASSUME TInv, SubscribersLive, [Next]_vars PROVE SubscribersLive'
  OBVIOUS
<1>0. /\ \A r \in Relayers : r \in Threads
      /\ pc \in [Threads -> PacketLabels \union TxLabels \union RestLabels]
      /\ bus.subs \subseteq Subs /\ \A s \in Subs : s.handler \in Relayers
      /\ \A t \in Threads : todo[t] \subseteq Subs
      /\ tokens \in [Relayers -> [packet : Int, ack : Int]]
  BY Domains DEF TInv, TypeOK, Subs, Subscriptions
<1>1. ASSUME NEW r \in Relayers, Construct(r) PROVE SubscribersLive'
  <2> DEFINE packet == Subscribe(bus, "IBCPacketSend", r)
             ack == Subscribe(packet.bus, "IBCAckSend", r)
  <2>1. /\ pc[r] = "none" /\ pc' = [pc EXCEPT ![r] = "constructed"]
        /\ bus' = ack.bus /\ todo' = todo
        /\ tokens' = [tokens EXCEPT ![r] = [packet |-> packet.token, ack |-> ack.token]]
    BY <1>1 DEF Construct, GoTo
  <2>2. /\ packet.bus.subs = bus.subs \union
             {[token |-> packet.token, kind |-> "IBCPacketSend", handler |-> r]}
        /\ ack.bus.subs = packet.bus.subs \union
             {[token |-> ack.token, kind |-> "IBCAckSend", handler |-> r]}
    BY DEF Subscribe
  <2> HIDE DEF packet, ack
  <2>3. /\ pc'[r] \notin Gone /\ \A q \in Relayers \ {r} : pc'[q] = pc[q] /\ tokens'[q] = tokens[q]
        /\ tokens'[r] = [packet |-> packet.token, ack |-> ack.token]
    BY <1>0, <2>1 DEF Gone
  <2>4. \A s \in bus.subs : s.handler \in Relayers \ {r}
    BY <1>0, <2>1 DEF SubscribersLive, Gone
  <2>5. ASSUME NEW s \in bus'.subs
        PROVE  /\ s.token = tokens'[s.handler].packet \/ s.token = tokens'[s.handler].ack
               /\ pc'[s.handler] \notin Gone
    <3>1. CASE s \in bus.subs
      BY <2>3, <2>4, <3>1 DEF SubscribersLive
    <3>2. CASE s = [token |-> packet.token, kind |-> "IBCPacketSend", handler |-> r]
      BY <2>3, <3>2
    <3>3. CASE s = [token |-> ack.token, kind |-> "IBCAckSend", handler |-> r]
      BY <2>3, <3>3
    <3> QED BY <2>1, <2>2, <3>1, <3>2, <3>3
  <2>6. \A t \in Threads : \A s \in todo'[t] : pc'[s.handler] \notin Gone
    BY <1>0, <2>1, <2>3 DEF SubscribersLive
  <2> QED BY <2>5, <2>6 DEF SubscribersLive
<1>2. ASSUME NEW r \in Relayers, Destroy(r) PROVE SubscribersLive'
  <2>1. /\ pc' = [pc EXCEPT ![r] = "destroyed"] /\ tokens' = tokens /\ todo' = todo
        /\ bus' = Unsubscribe(Unsubscribe(bus, tokens[r].packet), tokens[r].ack)
        /\ \A t \in Senders \union Chains : pc[t] = "ended"
    BY <1>2 DEF Destroy, GoTo
  <2>2. /\ bus'.subs \subseteq bus.subs
        /\ \A s \in bus'.subs : s.token # tokens[r].packet /\ s.token # tokens[r].ack
    <3>1. bus \in [nextToken : Nat \ {0}, subs : SUBSET Subs]
      BY DEF TInv, TypeOK
    <3> DEFINE half == Unsubscribe(bus, tokens[r].packet)
    <3>2. half.subs = {s \in bus.subs : s.token # tokens[r].packet} /\ half = [bus EXCEPT !.subs = half.subs]
      BY <3>1 DEF Unsubscribe
    <3>3. half \in [nextToken : Nat \ {0}, subs : SUBSET Subs]
      BY <3>1, BusTypes DEF EventKinds
    <3>4. bus' = Unsubscribe(half, tokens[r].ack)
      BY <2>1
    <3> HIDE DEF half
    <3>5. bus'.subs = {s \in half.subs : s.token # tokens[r].ack}
      BY <3>3, <3>4 DEF Unsubscribe
    <3> QED BY <3>2, <3>5
  <2>3. \A s \in bus'.subs : s.handler \in Relayers \ {r}
    BY <1>0, <2>2 DEF SubscribersLive
  <2>4. \A q \in Relayers \ {r} : pc'[q] = pc[q]
    BY <1>0, <2>1
  <2>5. \A t \in Threads : todo[t] = {}
    <3>1. \A t \in Senders \union Chains : pc[t] # "publish"
      BY <2>1
    <3>2. \A q \in Relayers : pc[q] # "publish"
      BY DEF TInv, Working, RelayerLabels
    <3> QED BY <3>1, <3>2 DEF TInv, Working, Threads
  <2> QED BY <2>1, <2>2, <2>3, <2>4, <2>5 DEF SubscribersLive
<1>3. CASE /\ bus' = bus /\ tokens' = tokens
           /\ \A r \in Relayers : pc[r] \notin Gone => pc'[r] \notin Gone
           /\ \A t \in Threads : todo'[t] \subseteq todo[t] \union bus.subs
  <2>1. \A s \in bus.subs : pc'[s.handler] \notin Gone
    BY <1>0, <1>3 DEF SubscribersLive
  <2>2. ASSUME NEW t \in Threads, NEW s \in todo'[t] PROVE pc'[s.handler] \notin Gone
    <3>1. CASE s \in bus.subs
      BY <2>1, <3>1
    <3>2. CASE s \in todo[t]
      BY <1>0, <1>3, <3>2 DEF SubscribersLive
    <3> QED BY <1>3, <3>1, <3>2
  <2> QED BY <1>3, <2>1, <2>2 DEF SubscribersLive
<1> QED BY <1>1, <1>2, <1>3, BusSteps

\* The bus never keeps, and publish() never still has to call, a handler that captured
\* a relayer whose destructor has run (Relayer.cpp, EventBus.cpp).
THEOREM NoHandlerOfTheDead == Spec => []HandlersLive
<1>1. SubscribersLive => HandlersLive
  BY DEF SubscribersLive, HandlersLive, Gone
<1> QED BY <1>1, TypeInit, TypeStep, SubscribersInit, SubscribersStep, PTL DEF Spec

-----------------------------------------------------------------------------
(* The trail *)

\* The events whose lines are not yet written: one at most
Work == {job[t] : t \in {u \in Threads : pc[u] \in PacketLabels}}
Begun(event, p) == \E j \in Work : j.event = event /\ j.pkt = p

\* A chain's counter and the lines that tell of it, up to the event at work
InOrder(event, end, side) ==
  \A c \in Chains :
    LET last == channels[c][side].nextSeq - 1 IN
    /\ \A j \in Work : j.event = event /\ j.pkt[end] = c =>
         j.pkt.seq = last /\ Trail!Numbers(event, end, c) = 1..(last - 1)
    /\ (\A j \in Work : ~(j.event = event /\ j.pkt[end] = c)) =>
         Trail!Numbers(event, end, c) = 1..last

\* What an event at work follows is logged.
Grounded ==
  \A j \in Work :
    /\ j.event = "packet_received" => Trail!Has("packet_created", j.pkt)
    /\ j.event = "ack_generated" =>
         Trail!Has("packet_received", j.pkt) /\ ~Trail!Has("ack_generated", j.pkt)
    /\ j.event = "ack_received" => Trail!Has("ack_generated", j.pkt)

\* The packets and acks between relayers and chains
In(p, s) == \E k \in DOMAIN s : s[k] = p
PacketCopy(p) ==
  \/ \E r \in Relayers : In(p, pendingPackets[r])
  \/ \E msg \in transit : msg.type = "Data" /\ msg.pkt = p
AckCopy(p) ==
  \/ \E r \in Relayers : In(p, pendingAcks[r])
  \/ \E msg \in transit : msg.type = "Ack" /\ msg.pkt = p

CopiesTrue ==
  \A p \in Packets :
    /\ PacketCopy(p) => Trail!Has("packet_created", p) \/ Begun("packet_created", p)
    /\ AckCopy(p) => /\ Trail!Has("packet_received", p)
                     /\ Trail!Has("ack_generated", p) \/ Begun("ack_generated", p)

AcksOfReceived ==
  \A p \in Packets : Trail!Has("ack_generated", p) => Trail!Has("packet_received", p)

\* Handlers that publish() has still to call are for its event.
TodoFits == \A t \in Threads : \A s \in todo[t] : s.kind = Kind[job[t].event]

\* No line is later than the clock, nor than the stamp of a line not yet written.
Timed ==
  /\ \A k \in DOMAIN ibc_events : ibc_events[k].ts <= clock_
  /\ \A t \in Threads : pc[t] = "write" =>
       stamp[t] <= clock_ /\ \A k \in DOMAIN ibc_events : ibc_events[k].ts <= stamp[t]

TrailInv ==
  /\ InOrder("packet_created", "src", "A") /\ InOrder("packet_received", "dst", "B")
  /\ Grounded /\ CopiesTrue /\ AcksOfReceived

\* A new line adds its event, its packet and its number.
LEMMA LineAppended ==
  ASSUME TInv, NEW line \in ChainLines, ibc_events' = Append(ibc_events, line)
  PROVE  /\ \A event, p : Trail!Has(event, p)' <=>
               Trail!Has(event, p) \/ (line.event = event /\ line.pkt = p)
         /\ \A event, end, c : line.event = event /\ line.pkt[end] = c =>
              Trail!Numbers(event, end, c)' = Trail!Numbers(event, end, c) \union {line.pkt.seq}
         /\ \A event, end, c : ~(line.event = event /\ line.pkt[end] = c) =>
              Trail!Numbers(event, end, c)' = Trail!Numbers(event, end, c)
<1>1. /\ ibc_events \in Seq(ChainLines)
  BY DEF TInv, TypeOK
<1>2. /\ DOMAIN ibc_events' = DOMAIN ibc_events \union {Len(ibc_events) + 1}
      /\ ibc_events'[Len(ibc_events) + 1] = line
      /\ \A k \in DOMAIN ibc_events : ibc_events'[k] = ibc_events[k] /\ k # Len(ibc_events) + 1
  BY <1>1
<1>3. \A event, p : Trail!Has(event, p)' <=>
               Trail!Has(event, p) \/ (line.event = event /\ line.pkt = p)
  BY <1>2 DEF Trail!Has
<1> DEFINE last == Len(ibc_events) + 1
           new == ibc_events'
<1> HIDE DEF last
<1>4. ASSUME NEW event, NEW end, NEW c
      PROVE  /\ line.event = event /\ line.pkt[end] = c =>
                  Trail!Numbers(event, end, c)' = Trail!Numbers(event, end, c) \union {line.pkt.seq}
             /\ ~(line.event = event /\ line.pkt[end] = c) =>
                  Trail!Numbers(event, end, c)' = Trail!Numbers(event, end, c)
  <2> DEFINE old == {i \in DOMAIN ibc_events : ibc_events[i].event = event /\ ibc_events[i].pkt[end] = c}
             now == {i \in DOMAIN ibc_events' : ibc_events'[i].event = event /\ ibc_events'[i].pkt[end] = c}
  <2>1. /\ Trail!Numbers(event, end, c) = {ibc_events[k].pkt.seq : k \in old}
        /\ Trail!Numbers(event, end, c)' = {ibc_events'[k].pkt.seq : k \in now}
    BY DEF Trail!Numbers
  <2>2. /\ \A k \in old : k \in DOMAIN ibc_events
        /\ line.event = event /\ line.pkt[end] = c => now = old \union {last}
        /\ ~(line.event = event /\ line.pkt[end] = c) => now = old
    BY <1>2 DEF last
  <2> HIDE DEF old, now
  <2>3. {ibc_events'[k].pkt.seq : k \in old} = {ibc_events[k].pkt.seq : k \in old}
    BY <1>2, <2>2
  <2>4. ibc_events'[last] = line
    BY <1>2 DEF last
  <2>5. {ibc_events'[k].pkt.seq : k \in old \union {last}}
          = {ibc_events'[k].pkt.seq : k \in old} \union {line.pkt.seq}
    BY <2>4
  <2> QED BY <2>1, <2>2, <2>3, <2>5
<1> QED BY <1>3, <1>4

\* Copies in queues
LEMMA Copies ==
  ASSUME NEW S, NEW s \in Seq(S), NEW p, NEW x \in S
  PROVE  /\ In(p, Append(s, x)) => p = x \/ In(p, s)
         /\ s # <<>> => In(Head(s), s)
         /\ s # <<>> => (In(p, Tail(s)) => In(p, s))
<1>1. In(p, Append(s, x)) => p = x \/ In(p, s)
  BY DEF In
<1>2. s # <<>> => In(Head(s), s)
  BY DEF In
<1>3. ASSUME s # <<>>, In(p, Tail(s)) PROVE In(p, s)
  <2>1. PICK k \in DOMAIN Tail(s) : Tail(s)[k] = p
    BY <1>3 DEF In
  <2>2. k + 1 \in DOMAIN s /\ s[k + 1] = p
    BY <1>3, <2>1
  <2> QED BY <2>2 DEF In
<1> QED BY <1>1, <1>2, <1>3

\* Work while nobody is in a chain's method, and while somebody is
LEMMA WorkOf ==
  ASSUME TInv
  PROVE  /\ Work \subseteq PacketJobs
         /\ chainMutex = Free => Work = {}
         /\ \A t \in Threads : pc[t] \in PacketLabels => Work = {job[t]}
<1>1. Work \subseteq PacketJobs
  BY DEF Work, TInv, Working
<1>2. chainMutex = Free => Work = {}
  BY Domains DEF Work, TInv, Working
<1>3. \A t \in Threads : pc[t] \in PacketLabels => Work = {job[t]}
  BY DEF Work, TInv, Working
<1> QED BY <1>1, <1>2, <1>3

\* Steps that begin or end nothing
LEMMA WorkKept ==
  ASSUME \A t \in Threads : pc'[t] \in PacketLabels <=> pc[t] \in PacketLabels,
         \A t \in Threads : pc[t] \in PacketLabels => job'[t] = job[t]
  PROVE  Work' = Work
BY DEF Work, Threads

LEMMA LinesKept ==
  ASSUME ibc_events' = ibc_events
  PROVE  /\ \A event, p : Trail!Has(event, p)' <=> Trail!Has(event, p)
         /\ \A event, end, c : Trail!Numbers(event, end, c)' = Trail!Numbers(event, end, c)
BY DEF Trail!Has, Trail!Numbers

\* The order of a chain's numbers: nothing moves, a number is given out, it is logged.
LEMMA OrderKept ==
  ASSUME NEW event, NEW end, NEW side, InOrder(event, end, side),
         ibc_events' = ibc_events,
         \A j : j.event = event => (j \in Work' <=> j \in Work),
         \A c \in Chains : channels'[c][side].nextSeq = channels[c][side].nextSeq
  PROVE  InOrder(event, end, side)'
BY LinesKept, Zenon DEF InOrder

LEMMA OrderBegins ==
  ASSUME TInv, NEW event, NEW end, NEW side, InOrder(event, end, side),
         NEW p \in Packets, p[end] \in Chains,
         Work = {}, Work' = {On(event, p)}, ibc_events' = ibc_events,
         channels[p[end]][side].nextSeq = p.seq,
         channels'[p[end]][side].nextSeq = p.seq + 1,
         \A d \in Chains \ {p[end]} : channels'[d][side].nextSeq = channels[d][side].nextSeq
  PROVE  InOrder(event, end, side)'
<1>0. p.seq \in Nat /\ p.seq + 1 - 1 = p.seq /\ On(event, p).event = event /\ On(event, p).pkt = p
  BY PacketTypes DEF On
<1> SUFFICES ASSUME NEW c \in Chains
             PROVE  /\ \A j \in Work' : j.event = event /\ j.pkt[end] = c =>
                         /\ j.pkt.seq = channels'[c][side].nextSeq - 1
                         /\ Trail!Numbers(event, end, c)' = 1..(channels'[c][side].nextSeq - 1 - 1)
                    /\ (\A j \in Work' : ~(j.event = event /\ j.pkt[end] = c)) =>
                         Trail!Numbers(event, end, c)' = 1..(channels'[c][side].nextSeq - 1)
  BY Zenon DEF InOrder
<1>1. Trail!Numbers(event, end, c)' = 1..(channels[c][side].nextSeq - 1)
  <2>1. Trail!Numbers(event, end, c) = 1..(channels[c][side].nextSeq - 1)
    BY DEF InOrder
  <2> QED BY <2>1, LinesKept
<1>2. CASE c = p[end]
  BY <1>0, <1>1, <1>2
<1>3. CASE c # p[end]
  BY <1>0, <1>1, <1>3
<1> QED BY <1>2, <1>3

LEMMA OrderWritten ==
  ASSUME TInv, NEW event, NEW end, NEW side \in {"A", "B"}, InOrder(event, end, side),
         NEW j \in PacketJobs, NEW ts \in Nat, Work = {j},
         \A k \in Work' : k.event # event,
         ibc_events' = Append(ibc_events, [event |-> j.event, pkt |-> j.pkt, ts |-> ts]),
         channels' = channels
  PROVE  InOrder(event, end, side)'
<1> DEFINE line == [event |-> j.event, pkt |-> j.pkt, ts |-> ts]
<1>0. line \in ChainLines /\ line.event = j.event /\ line.pkt = j.pkt /\ j.pkt.seq \in Nat \ {0}
  BY PacketTypes
<1> HIDE DEF line
<1>1. /\ \A c : line.event = event /\ line.pkt[end] = c =>
              Trail!Numbers(event, end, c)' = Trail!Numbers(event, end, c) \union {line.pkt.seq}
      /\ \A c : ~(line.event = event /\ line.pkt[end] = c) =>
              Trail!Numbers(event, end, c)' = Trail!Numbers(event, end, c)
  <2>1. ibc_events' = Append(ibc_events, line)
    BY DEF line
  <2>2. /\ \A e, f, c : line.event = e /\ line.pkt[f] = c =>
              Trail!Numbers(e, f, c)' = Trail!Numbers(e, f, c) \union {line.pkt.seq}
        /\ \A e, f, c : ~(line.event = e /\ line.pkt[f] = c) =>
              Trail!Numbers(e, f, c)' = Trail!Numbers(e, f, c)
    BY ONLY TInv, <1>0, <2>1, LineAppended, Zenon
  <2> QED BY ONLY <2>2, Zenon
<1> SUFFICES ASSUME NEW c \in Chains
             PROVE  Trail!Numbers(event, end, c)' = 1..(channels[c][side].nextSeq - 1)
  BY Zenon DEF InOrder
<1> DEFINE last == channels[c][side].nextSeq - 1
<1>2. CASE j.event = event /\ j.pkt[end] = c
  <2>1. j.pkt.seq = last /\ Trail!Numbers(event, end, c) = 1..(last - 1)
    BY <1>2, Zenon DEF InOrder
  <2>2. Trail!Numbers(event, end, c)' = 1..(last - 1) \union {last}
    BY <1>0, <1>1, <1>2, <2>1
  <2>3. last \in Nat \ {0}
    BY <1>0, <2>1
  <2> HIDE DEF last
  <2>4. 1..(last - 1) \union {last} = 1..last
    BY <2>3
  <2>5. Trail!Numbers(event, end, c)' = 1..last
    BY <2>2, <2>4, Zenon
  <2> QED BY <2>5 DEF last
<1>3. CASE ~(j.event = event /\ j.pkt[end] = c)
  <2>1. Trail!Numbers(event, end, c) = 1..last
    BY <1>3, Zenon DEF InOrder
  <2> QED BY <1>0, <1>1, <1>3, <2>1
<1> QED BY <1>2, <1>3

\* Steps that begin and log nothing; a handler may take a copy of what is at work.
LEMMA TrailQuiet ==
  ASSUME TInv, TrailInv, Work' = Work, ibc_events' = ibc_events,
         \A c \in Chains : /\ channels'[c]["A"].nextSeq = channels[c]["A"].nextSeq
                           /\ channels'[c]["B"].nextSeq = channels[c]["B"].nextSeq,
         \A p \in Packets : PacketCopy(p)' => PacketCopy(p) \/ Begun("packet_created", p),
         \A p \in Packets : AckCopy(p)' => AckCopy(p) \/ Begun("ack_generated", p)
  PROVE  TrailInv'
<1>1. \A event, p : (Trail!Has(event, p)' <=> Trail!Has(event, p)) /\ (Begun(event, p)' <=> Begun(event, p))
  BY LinesKept, Zenon DEF Begun
<1>2. InOrder("packet_created", "src", "A")' /\ InOrder("packet_received", "dst", "B")'
  BY OrderKept DEF TrailInv
<1>3. Grounded'
  BY <1>1, Zenon DEF TrailInv, Grounded
<1>4. CopiesTrue'
  <2>1. \A p \in Packets : Begun("ack_generated", p) => Trail!Has("packet_received", p)
    BY DEF TrailInv, Grounded, Begun
  <2> QED BY <1>1, <2>1 DEF TrailInv, CopiesTrue
<1>5. AcksOfReceived'
  BY <1>1 DEF TrailInv, AcksOfReceived
<1> QED BY <1>2, <1>3, <1>4, <1>5 DEF TrailInv

\* Steps that take up what is logged already
LEMMA TrailBegins ==
  ASSUME TInv, TrailInv, NEW event, NEW p \in Packets,
         Work = {}, Work' = {On(event, p)}, ibc_events' = ibc_events,
         InOrder("packet_created", "src", "A")', InOrder("packet_received", "dst", "B")',
         event \in {"packet_created", "packet_received", "ack_received"},
         event = "packet_received" => Trail!Has("packet_created", p),
         event = "ack_received" => Trail!Has("ack_generated", p),
         \A q \in Packets : PacketCopy(q)' => PacketCopy(q),
         \A q \in Packets : AckCopy(q)' => AckCopy(q)
  PROVE  TrailInv'
<1>1. /\ \A e, q : Trail!Has(e, q)' <=> Trail!Has(e, q)
      /\ \A e, q : ~Begun(e, q)
      /\ On(event, p).event = event /\ On(event, p).pkt = p
  BY LinesKept DEF Begun, On
<1>2. Grounded'
  BY <1>1 DEF Grounded
<1>3. CopiesTrue'
  BY <1>1 DEF TrailInv, CopiesTrue
<1>4. AcksOfReceived'
  BY <1>1 DEF TrailInv, AcksOfReceived
<1> QED BY <1>2, <1>3, <1>4 DEF TrailInv

LEMMA TrailWrite ==
  ASSUME TInv, TrailInv, NEW t \in Threads, Write(t) PROVE TrailInv'
<1> DEFINE j == job[t]
           line == [event |-> j.event, pkt |-> j.pkt, ts |-> stamp[t]]
<1>1. /\ pc[t] = "write" /\ ibc_events' = Append(ibc_events, line)
      /\ channels' = channels /\ pendingPackets' = pendingPackets /\ pendingAcks' = pendingAcks
      /\ transit' = transit
      /\ \/ j.event = "packet_received" /\ Publish(t, "ack_generated", j.pkt)
         \/ /\ pc' = [pc EXCEPT ![t] = IF t \in Senders THEN "idle" ELSE "snapshot"]
            /\ job' = [job EXCEPT ![t] = NoJob]
  BY DEF Write, WorkAt, GoTo, LogIBCEvent, queueVars
<1>2. pc[t] \in PacketLabels
  BY <1>1 DEF PacketLabels
<1>3. /\ j \in PacketJobs /\ j.pkt \in Packets /\ j.event \in ChainEvents /\ stamp[t] \in Nat
      /\ Work = {j} /\ \A u \in Threads \ {t} : pc[u] \notin PacketLabels
  BY <1>2, AtWork, WorkOf DEF TInv, TypeOK
<1>4. \/ Work' = {}
      \/ j.event = "packet_received" /\ Work' = {On("ack_generated", j.pkt)}
  <2>1. \A u \in Threads \ {t} : pc'[u] = pc[u]
    BY <1>1 DEF TInv, TypeOK, Publish, WorkAt, GoTo
  <2>2. CASE j.event = "packet_received" /\ Publish(t, "ack_generated", j.pkt)
    <3>1. pc'[t] = "publish" /\ job'[t] = On("ack_generated", j.pkt)
      BY <2>2 DEF Publish, WorkAt, GoTo, TInv, TypeOK
    <3> QED BY <1>3, <2>1, <2>2, <3>1 DEF Work, PacketLabels
  <2>3. CASE pc' = [pc EXCEPT ![t] = IF t \in Senders THEN "idle" ELSE "snapshot"]
    <3>1. pc'[t] \notin PacketLabels
      BY <2>3 DEF TInv, TypeOK, PacketLabels
    <3> QED BY <1>3, <2>1, <3>1 DEF Work
  <2> QED BY <1>1, <2>2, <2>3
<1> HIDE DEF j
<1>5. \A event, p : Trail!Has(event, p)' <=> Trail!Has(event, p) \/ (j.event = event /\ j.pkt = p)
  <2>1. line \in ChainLines /\ line.event = j.event /\ line.pkt = j.pkt
    BY <1>3, PacketTypes
  <2> HIDE DEF line
  <2> QED BY <1>1, <2>1, LineAppended
<1>6. \A k \in Work' : k.event # "packet_created" /\ k.event # "packet_received"
  BY <1>4 DEF On
<1>7. InOrder("packet_created", "src", "A")' /\ InOrder("packet_received", "dst", "B")'
  BY <1>1, <1>3, <1>6, OrderWritten DEF TrailInv
<1>8. j.event = "packet_received" => ~Trail!Has("ack_generated", j.pkt)
  <2> SUFFICES ASSUME j.event = "packet_received", Trail!Has("packet_received", j.pkt) PROVE FALSE
    BY <1>3 DEF TrailInv, AcksOfReceived
  <2>1. j.pkt.dst \in Chains /\ j.pkt.seq \in Nat
    BY <1>3, PacketTypes
  <2>2. Trail!Numbers("packet_received", "dst", j.pkt.dst) = 1..(j.pkt.seq - 1)
    BY <1>3, <2>1 DEF TrailInv, InOrder
  <2>3. j.pkt.seq \in Trail!Numbers("packet_received", "dst", j.pkt.dst)
    BY DEF Trail!Has, Trail!Numbers
  <2> QED BY <2>1, <2>2, <2>3
<1>9. Grounded'
  BY <1>4, <1>5, <1>8 DEF Grounded, On
<1>10. CopiesTrue'
  <2>1. \A p : (PacketCopy(p)' <=> PacketCopy(p)) /\ (AckCopy(p)' <=> AckCopy(p))
    BY <1>1 DEF PacketCopy, AckCopy
  <2>2. \A event, p : Begun(event, p) => j.event = event /\ j.pkt = p
    BY <1>3 DEF Begun
  <2> QED BY <1>5, <2>1, <2>2 DEF TrailInv, CopiesTrue
<1>11. AcksOfReceived'
  BY <1>3, <1>5 DEF TrailInv, AcksOfReceived, Grounded
<1> QED BY <1>7, <1>9, <1>10, <1>11 DEF TrailInv

\* A chain's thread takes up an event.
LEMMA WorkTaken ==
  ASSUME TInv, NEW t \in Threads, chainMutex = Free, NEW event, NEW p, Publish(t, event, p)
  PROVE  Work = {} /\ Work' = {On(event, p)}
<1>1. Work = {} /\ \A u \in Threads : pc[u] \notin PacketLabels
  BY WorkOf, Domains DEF TInv, Working
<1>2. /\ pc'[t] = "publish" /\ job'[t] = On(event, p)
      /\ \A u \in Threads \ {t} : pc'[u] = pc[u]
  BY DEF Publish, WorkAt, GoTo, TInv, TypeOK
<1> QED BY <1>1, <1>2 DEF Work, PacketLabels

\* Taking a message away leaves no new copies.
LEMMA FewerCopies ==
  ASSUME pendingPackets' = pendingPackets, pendingAcks' = pendingAcks, transit' \subseteq transit
  PROVE  \A p : (PacketCopy(p)' => PacketCopy(p)) /\ (AckCopy(p)' => AckCopy(p))
BY DEF PacketCopy, AckCopy

LEMMA TrailMake ==
  ASSUME TInv, TrailInv, NEW t \in Senders, NEW route \in Routes, MakeAndPublish(t, route)
  PROVE  TrailInv'
<1> DEFINE old == channels[route[1]]["A"]
           end == OpenChannel(old).chan
           p == [src |-> route[1], dst |-> route[2], seq |-> end.nextSeq]
<1>0. t \in Threads /\ route[1] \in Chains /\ route[2] \in Chains /\ MaxSend \in Nat
  BY Domains
<1>1. old \in Channel
  BY <1>0 DEF TInv, TypeOK
<1>2. /\ end \in Channel /\ end.nextSeq = old.nextSeq /\ old.nextSeq \in Nat \ {0}
      /\ MakePacket(end).status = "Ok" => MakePacket(end).chan.nextSeq = end.nextSeq + 1
  <2> HIDE DEF old
  <2>1. end \in Channel /\ end.nextSeq = old.nextSeq /\ old.nextSeq \in Nat \ {0}
    BY <1>1, ChannelOperations, 1 \in Nat
  <2> HIDE DEF end
  <2> QED BY <2>1, ChannelOperations, 1 \in Nat
<1> HIDE DEF end
<1>3. /\ MakePacket(end).status = "Ok" /\ end.nextSeq <= MaxSend /\ chainMutex = Free
      /\ channels' = [channels EXCEPT ![route[1]]["A"] = MakePacket(end).chan]
      /\ Publish(t, "packet_created", p)
      /\ pendingPackets' = pendingPackets /\ pendingAcks' = pendingAcks /\ transit' = transit
      /\ ibc_events' = ibc_events
  BY DEF MakeAndPublish, end, queueVars, trailVars
<1>4. p \in Packets /\ p.src = route[1] /\ p.seq = old.nextSeq
  BY <1>0, <1>2, <1>3 DEF Packets
<1> HIDE DEF p
<1>5. Work = {} /\ Work' = {On("packet_created", p)}
  BY <1>0, <1>3, WorkTaken
<1>6. /\ channels'[route[1]]["A"].nextSeq = p.seq + 1
      /\ \A c \in Chains \ {route[1]} : channels'[c]["A"].nextSeq = channels[c]["A"].nextSeq
      /\ \A c \in Chains : channels'[c]["B"].nextSeq = channels[c]["B"].nextSeq
  <2>1. channels \in [Chains -> [{"A", "B"} -> Channel]]
    BY DEF TInv, TypeOK
  <2> HIDE DEF old
  <2> QED BY <1>0, <1>2, <1>3, <1>4, <2>1
<1>7. InOrder("packet_created", "src", "A")'
  BY <1>0, <1>3, <1>4, <1>5, <1>6, OrderBegins DEF TrailInv
<1>8. InOrder("packet_received", "dst", "B")'
  <2>1. \A j : j.event = "packet_received" => (j \in Work' <=> j \in Work)
    BY <1>5 DEF On
  <2> QED BY <1>3, <1>6, <2>1, OrderKept DEF TrailInv
<1>9. \A q : (PacketCopy(q)' => PacketCopy(q)) /\ (AckCopy(q)' => AckCopy(q))
  BY <1>3, FewerCopies
<1> QED BY <1>3, <1>4, <1>5, <1>7, <1>8, <1>9, TrailBegins

LEMMA TrailAccept ==
  ASSUME TInv, TrailInv, NEW c \in Chains, NEW msg \in transit, AcceptAndPublish(c, msg)
  PROVE  TrailInv'
<1> DEFINE old == channels[c]["B"]
           end == OpenChannel(old).chan
           accepted == AcceptPacket(end, msg.pkt.seq)
           p == msg.pkt
<1>0. c \in Threads /\ p \in Packets /\ p.seq \in Nat /\ msg.type = "Data" /\ p.dst = c
  <2>1. msg.type = "Data" /\ To(msg) = c
    BY DEF AcceptAndPublish
  <2> QED BY <2>1, MessageTypes, PacketTypes, Domains DEF To
<1>1. old \in Channel
  BY DEF TInv, TypeOK
<1>2. /\ accepted.chan \in Channel
      /\ accepted.status = "Ok" => p.seq = old.nextSeq /\ accepted.chan.nextSeq = old.nextSeq + 1
      /\ accepted.status # "Ok" => accepted.chan.nextSeq = old.nextSeq
  <2> HIDE DEF old
  <2>1. end \in Channel /\ end.nextSeq = old.nextSeq
    BY <1>1, ChannelOperations, 1 \in Nat
  <2> HIDE DEF end
  <2> QED BY <1>0, <2>1, ChannelOperations
<1> HIDE DEF accepted
<1>3. /\ pc[c] = "idle" /\ chainMutex = Free
      /\ channels' = [channels EXCEPT ![c]["B"] = accepted.chan]
      /\ pendingPackets' = pendingPackets /\ pendingAcks' = pendingAcks /\ transit' \subseteq transit
      /\ ibc_events' = ibc_events
      /\ \/ accepted.status = "Ok" /\ Publish(c, "packet_received", p)
         \/ accepted.status # "Ok" /\ pc' = [pc EXCEPT ![c] = "snapshot"] /\ job' = job
  BY DEF AcceptAndPublish, GoTo, queueVars, trailVars, accepted
<1>4. /\ channels'[c]["B"] = accepted.chan
      /\ \A d \in Chains \ {c} : channels'[d]["B"].nextSeq = channels[d]["B"].nextSeq
      /\ \A d \in Chains : channels'[d]["A"].nextSeq = channels[d]["A"].nextSeq
  <2>1. channels \in [Chains -> [{"A", "B"} -> Channel]]
    BY DEF TInv, TypeOK
  <2> HIDE DEF old
  <2> QED BY <1>3, <2>1
<1>5. \A q : (PacketCopy(q)' => PacketCopy(q)) /\ (AckCopy(q)' => AckCopy(q))
  BY <1>3, FewerCopies
<1>6. CASE accepted.status = "Ok" /\ Publish(c, "packet_received", p)
  <2>1. Work = {} /\ Work' = {On("packet_received", p)}
    BY <1>0, <1>3, <1>6, WorkTaken
  <2>2. InOrder("packet_received", "dst", "B")'
    BY <1>0, <1>2, <1>3, <1>4, <1>6, <2>1, OrderBegins DEF TrailInv
  <2>3. InOrder("packet_created", "src", "A")'
    <3>1. \A j : j.event = "packet_created" => (j \in Work' <=> j \in Work)
      BY <2>1 DEF On
    <3> QED BY <1>3, <1>4, <3>1, OrderKept DEF TrailInv
  <2>4. Trail!Has("packet_created", p)
    <3>1. PacketCopy(p) /\ ~Begun("packet_created", p)
      BY <1>0, <2>1 DEF PacketCopy, Begun
    <3> QED BY <1>0, <3>1 DEF TrailInv, CopiesTrue
  <2> QED BY <1>0, <1>3, <1>5, <2>1, <2>2, <2>3, <2>4, TrailBegins
<1>7. CASE accepted.status # "Ok" /\ pc' = [pc EXCEPT ![c] = "snapshot"] /\ job' = job
  <2>1. Work' = Work
    <3>1. \A t \in Threads : pc'[t] \in PacketLabels <=> pc[t] \in PacketLabels
      BY <1>0, <1>3, <1>7 DEF TInv, TypeOK, PacketLabels
    <3> QED BY <1>7, <3>1, WorkKept
  <2>2. \A d \in Chains : /\ channels'[d]["A"].nextSeq = channels[d]["A"].nextSeq
                          /\ channels'[d]["B"].nextSeq = channels[d]["B"].nextSeq
    BY <1>2, <1>4, <1>7
  <2> QED BY <1>3, <1>5, <2>1, <2>2, TrailQuiet
<1> QED BY <1>3, <1>6, <1>7

LEMMA TrailPublishAck ==
  ASSUME TInv, TrailInv, NEW c \in Chains, NEW msg \in transit, PublishAck(c, msg)
  PROVE  TrailInv'
<1> DEFINE p == msg.pkt
<1>1. /\ msg.type = "Ack" /\ chainMutex = Free /\ Publish(c, "ack_received", p)
      /\ pendingPackets' = pendingPackets /\ pendingAcks' = pendingAcks /\ transit' \subseteq transit
      /\ ibc_events' = ibc_events /\ channels' = channels
  BY DEF PublishAck, queueVars, trailVars
<1>2. p \in Packets /\ c \in Threads
  BY <1>1, MessageTypes, Domains
<1>3. Work = {} /\ Work' = {On("ack_received", p)}
  BY <1>1, <1>2, WorkTaken
<1>4. InOrder("packet_created", "src", "A")' /\ InOrder("packet_received", "dst", "B")'
  <2>1. \A j : j.event \in {"packet_created", "packet_received"} => (j \in Work' <=> j \in Work)
    BY <1>3 DEF On
  <2> QED BY <1>1, <2>1, OrderKept DEF TrailInv
<1>5. Trail!Has("ack_generated", p)
  <2>1. AckCopy(p) /\ ~Begun("ack_generated", p)
    BY <1>1, <1>3 DEF AckCopy, Begun
  <2> QED BY <1>2, <2>1 DEF TrailInv, CopiesTrue
<1>6. \A q : (PacketCopy(q)' => PacketCopy(q)) /\ (AckCopy(q)' => AckCopy(q))
  BY <1>1, FewerCopies
<1> QED BY <1>1, <1>2, <1>3, <1>4, <1>5, <1>6, TrailBegins

\* A handler queues the packet of the event at work, by its kind.
LEMMA TrailCall ==
  ASSUME TInv, TodoFits, TrailInv, NEW t \in Threads, NEW s \in todo[t], CallHandler(t, s)
  PROVE  TrailInv'
<1> DEFINE r == s.handler
           p == job[t].pkt
<1>0. /\ pc[t] = "publish" /\ job[t] \in PacketJobs /\ p \in Packets /\ r \in Relayers
      /\ job[t].event \in ChainEvents
  BY Calling
<1>1. /\ \/ /\ s.kind = "IBCPacketSend" /\ UNCHANGED pendingAcks
            /\ pendingPackets' = [pendingPackets EXCEPT ![r] = Append(@, p)]
         \/ /\ s.kind = "IBCAckSend" /\ UNCHANGED pendingPackets
            /\ pendingAcks' = [pendingAcks EXCEPT ![r] = Append(@, p)]
         \/ UNCHANGED <<pendingPackets, pendingAcks>>
      /\ pc' = pc /\ job' = job /\ channels' = channels /\ transit' = transit
      /\ ibc_events' = ibc_events
  BY DEF CallHandler, queueVars, trailVars
<1>2. /\ s.kind = "IBCPacketSend" => job[t].event = "packet_created"
      /\ s.kind = "IBCAckSend" => job[t].event = "ack_generated"
  BY <1>0 DEF TodoFits, Kind, ChainEvents
<1>3. job[t] \in Work
  BY <1>0 DEF Work, PacketLabels
<1>4. pendingPackets \in [Relayers -> Seq(Packets)] /\ pendingAcks \in [Relayers -> Seq(Packets)]
  BY DEF TInv, TypeOK
<1> HIDE DEF r
<1>5. ASSUME NEW q \in Packets, PacketCopy(q)'
      PROVE  PacketCopy(q) \/ Begun("packet_created", q)
  <2>1. CASE \E msg \in transit : msg.type = "Data" /\ msg.pkt = q
    BY <2>1 DEF PacketCopy
  <2>2. ASSUME NEW w \in Relayers, In(q, pendingPackets'[w])
        PROVE  PacketCopy(q) \/ Begun("packet_created", q)
    <3>1. CASE pendingPackets'[w] = pendingPackets[w]
      BY <2>2, <3>1 DEF PacketCopy
    <3>2. CASE /\ s.kind = "IBCPacketSend" /\ w = r
               /\ pendingPackets'[w] = Append(pendingPackets[w], p)
      <4>1. q = p \/ In(q, pendingPackets[w])
        BY <1>0, <1>4, <2>2, <3>2, Copies
      <4> QED BY <1>2, <1>3, <3>2, <4>1 DEF Begun, PacketCopy
    <3> QED BY <1>0, <1>1, <1>4, <3>1, <3>2
  <2> QED BY <1>1, <1>5, <2>1, <2>2 DEF PacketCopy, In
<1>6. ASSUME NEW q \in Packets, AckCopy(q)'
      PROVE  AckCopy(q) \/ Begun("ack_generated", q)
  <2>1. CASE \E msg \in transit : msg.type = "Ack" /\ msg.pkt = q
    BY <2>1 DEF AckCopy
  <2>2. ASSUME NEW w \in Relayers, In(q, pendingAcks'[w])
        PROVE  AckCopy(q) \/ Begun("ack_generated", q)
    <3>1. CASE pendingAcks'[w] = pendingAcks[w]
      BY <2>2, <3>1 DEF AckCopy
    <3>2. CASE /\ s.kind = "IBCAckSend" /\ w = r
               /\ pendingAcks'[w] = Append(pendingAcks[w], p)
      <4>1. q = p \/ In(q, pendingAcks[w])
        BY <1>0, <1>4, <2>2, <3>2, Copies
      <4> QED BY <1>2, <1>3, <3>2, <4>1 DEF Begun, AckCopy
    <3> QED BY <1>0, <1>1, <1>4, <3>1, <3>2
  <2> QED BY <1>1, <1>6, <2>1, <2>2 DEF AckCopy, In
<1>7. Work' = Work
  BY <1>1, WorkKept
<1> QED BY <1>1, <1>5, <1>6, <1>7, TrailQuiet

\* A relayer moves a copy on from its queue.
LEMMA TrailRelay ==
  ASSUME TInv, TrailInv, NEW r \in Relayers, RelayPacket(r) \/ RelayAck(r)
  PROVE  TrailInv'
<1>0. /\ pendingPackets \in [Relayers -> Seq(Packets)] /\ pendingAcks \in [Relayers -> Seq(Packets)]
      /\ \A q \in Relayers : q \in Threads
  BY Domains DEF TInv, TypeOK
<1>1. /\ ibc_events' = ibc_events /\ channels' = channels /\ job' = job
      /\ \E label \in {"acks", "idle"} : pc' = [pc EXCEPT ![r] = label]
      /\ pc[r] \in {"acks", "idle"}
  BY DEF RelayPacket, RelayAck, GoTo
<1>2. Work' = Work
  <2>1. \A t \in Threads : pc'[t] \in PacketLabels <=> pc[t] \in PacketLabels
    BY <1>0, <1>1 DEF TInv, TypeOK, PacketLabels
  <2> QED BY <1>1, <2>1, WorkKept
<1>3. /\ \A q \in Packets : PacketCopy(q)' => PacketCopy(q)
      /\ \A q \in Packets : AckCopy(q)' => AckCopy(q)
  <2>1. CASE RelayPacket(r)
    <3> DEFINE p == Head(pendingPackets[r])
               msg == [type |-> "Data", pkt |-> p, via |-> r]
    <3>1. /\ pendingPackets[r] # <<>> /\ pendingAcks' = pendingAcks
          /\ pendingPackets' = [pendingPackets EXCEPT ![r] = Tail(@)]
          /\ transit' = transit \union {msg} \/ transit' = transit
      BY <2>1 DEF RelayPacket, Relay
    <3>2. In(p, pendingPackets[r]) /\ \A q : In(q, Tail(pendingPackets[r])) => In(q, pendingPackets[r])
      <4>1. pendingPackets[r] \in Seq(Packets) /\ p \in Packets
        BY <1>0, <3>1, HeadTailType
      <4> QED BY <3>1, <4>1, Copies
    <3>3. msg.type = "Data" /\ msg.pkt = p
      OBVIOUS
    <3> HIDE DEF p, msg
    <3>4. \A q, w : w \in Relayers /\ In(q, pendingPackets'[w]) => In(q, pendingPackets[w])
      BY <1>0, <3>1, <3>2
    <3>5. \A q : PacketCopy(q)' => PacketCopy(q)
      BY <3>1, <3>2, <3>3, <3>4 DEF PacketCopy
    <3>6. \A q : AckCopy(q)' => AckCopy(q)
      BY <3>1, <3>3 DEF AckCopy
    <3> QED BY <3>5, <3>6
  <2>2. CASE RelayAck(r)
    <3> DEFINE p == Head(pendingAcks[r])
               msg == [type |-> "Ack", pkt |-> p, via |-> r]
    <3>1. /\ pendingAcks[r] # <<>> /\ pendingPackets' = pendingPackets
          /\ pendingAcks' = [pendingAcks EXCEPT ![r] = Tail(@)]
          /\ transit' = transit \union {msg} \/ transit' = transit
      BY <2>2 DEF RelayAck, Relay
    <3>2. In(p, pendingAcks[r]) /\ \A q : In(q, Tail(pendingAcks[r])) => In(q, pendingAcks[r])
      <4>1. pendingAcks[r] \in Seq(Packets) /\ p \in Packets
        BY <1>0, <3>1, HeadTailType
      <4> QED BY <3>1, <4>1, Copies
    <3>3. msg.type = "Ack" /\ msg.pkt = p
      OBVIOUS
    <3> HIDE DEF p, msg
    <3>4. \A q, w : w \in Relayers /\ In(q, pendingAcks'[w]) => In(q, pendingAcks[w])
      BY <1>0, <3>1, <3>2
    <3>5. \A q : AckCopy(q)' => AckCopy(q)
      BY <3>1, <3>2, <3>3, <3>4 DEF AckCopy
    <3>6. \A q : PacketCopy(q)' => PacketCopy(q)
      BY <3>1, <3>3 DEF PacketCopy
    <3> QED BY <3>5, <3>6
  <2> QED BY <2>1, <2>2
<1> QED BY <1>1, <1>2, <1>3, TrailQuiet

\* The rest neither touches the trail nor what goes between relayers and chains.
LEMMA TrailElse ==
  ASSUME TInv, TrailInv, NEW t \in Threads, NEW label, label \notin PacketLabels,
         pc' = [pc EXCEPT ![t] = label] \/ pc' = pc, pc[t] \notin PacketLabels,
         \A u \in Threads \ {t} : job'[u] = job[u],
         UNCHANGED <<ibc_events, channels, pendingPackets, pendingAcks>>,
         \A msg \in transit' : msg \in transit \/ msg.type = "Tx"
  PROVE  TrailInv'
<1>1. Work' = Work
  <2>1. \A u \in Threads : pc'[u] \in PacketLabels <=> pc[u] \in PacketLabels
    BY DEF TInv, TypeOK, PacketLabels
  <2> QED BY <2>1, WorkKept
<1>2. \A q : (PacketCopy(q)' => PacketCopy(q)) /\ (AckCopy(q)' => AckCopy(q))
  BY DEF PacketCopy, AckCopy
<1> QED BY <1>1, <1>2, TrailQuiet

LEMMA TrailInit == Init => TrailInv
<1> SUFFICES ASSUME Init PROVE TrailInv
  OBVIOUS
<1>1. /\ Work = {} /\ ibc_events = <<>> /\ transit = {}
      /\ pendingPackets = [r \in Relayers |-> <<>>] /\ pendingAcks = [r \in Relayers |-> <<>>]
      /\ \A c \in Chains : channels[c]["A"].nextSeq = 1 /\ channels[c]["B"].nextSeq = 1
  BY DEF Init, Work, PacketLabels, NewChannel
<1>2. /\ \A event, p : ~Trail!Has(event, p)
      /\ \A event, end, c : Trail!Numbers(event, end, c) = {}
  BY <1>1 DEF Trail!Has, Trail!Numbers
<1>3. InOrder("packet_created", "src", "A") /\ InOrder("packet_received", "dst", "B")
  <2>1. ASSUME NEW c \in Chains
        PROVE  1..(channels[c]["A"].nextSeq - 1) = {} /\ 1..(channels[c]["B"].nextSeq - 1) = {}
    BY <1>1
  <2> QED BY <1>1, <1>2, <2>1, Zenon DEF InOrder
<1>4. Grounded /\ CopiesTrue /\ AcksOfReceived
  BY <1>1, <1>2 DEF Grounded, CopiesTrue, AcksOfReceived, PacketCopy, AckCopy, In
<1> QED BY <1>3, <1>4 DEF TrailInv

LEMMA TrailStep == TInv /\ TodoFits /\ TrailInv /\ [Next]_vars => TrailInv'
<1> SUFFICES ASSUME TInv, TodoFits, TrailInv, [Next]_vars PROVE TrailInv'
  OBVIOUS
<1>0. /\ \A r \in Relayers : r \in Threads
      /\ \A t \in Senders : t \in Threads
  BY Domains
<1>1. CASE Work' = Work /\ UNCHANGED <<ibc_events, channels, pendingPackets, pendingAcks, transit>>
  <2>1. \A q : (PacketCopy(q)' => PacketCopy(q)) /\ (AckCopy(q)' => AckCopy(q))
    BY <1>1, FewerCopies
  <2> QED BY <1>1, <2>1, TrailQuiet
<1>2. CASE UNCHANGED vars
  BY <1>1, <1>2 DEF vars, queueVars, trailVars, Work
<1>3. ASSUME NEW r \in Relayers, Construct(r) \/ StopRelayer(r) \/ Destroy(r) PROVE TrailInv'
  <2>1. CASE Construct(r)
    <3>1. /\ pc[r] = "none" /\ pc' = [pc EXCEPT ![r] = "constructed"]
          /\ \A u \in Threads \ {r} : job'[u] = job[u]
          /\ UNCHANGED <<ibc_events, channels, pendingPackets, pendingAcks, transit>>
      BY <2>1 DEF Construct, GoTo, queueVars, trailVars
    <3> QED BY <1>0, <3>1, TrailElse DEF PacketLabels
  <2>2. CASE StopRelayer(r)
    BY <1>1, <2>2 DEF StopRelayer, queueVars, trailVars, Work
  <2>3. CASE Destroy(r)
    <3>1. /\ pc[r] = "ended" /\ pc' = [pc EXCEPT ![r] = "destroyed"]
          /\ \A u \in Threads \ {r} : job'[u] = job[u]
          /\ UNCHANGED <<ibc_events, channels, pendingPackets, pendingAcks, transit>>
      BY <2>3 DEF Destroy, GoTo, queueVars, trailVars
    <3> QED BY <1>0, <3>1, TrailElse DEF PacketLabels
  <2> QED BY <1>3, <2>1, <2>2, <2>3
<1>4. CASE Start
  <2>1. \A t \in Threads : pc[t] \notin PacketLabels /\ pc'[t] \notin PacketLabels
    BY <1>4 DEF Start, PacketLabels, Threads
  <2> QED BY <1>1, <1>4, <2>1 DEF Start, queueVars, trailVars, Work
<1>5. ASSUME NEW t \in Threads, End(t) PROVE TrailInv'
  <2>1. /\ pc[t] = "idle" /\ pc' = [pc EXCEPT ![t] = "ended"]
        /\ \A u \in Threads \ {t} : job'[u] = job[u]
        /\ UNCHANGED <<ibc_events, channels, pendingPackets, pendingAcks, transit>>
    BY <1>5 DEF End, GoTo, queueVars, trailVars
  <2> QED BY <1>0, <2>1, TrailElse DEF PacketLabels
<1>6. ASSUME NEW t \in Senders, Traffic(t) PROVE TrailInv'
  <2>1. ASSUME NEW c \in Chains, NewTx(t, c) PROVE TrailInv'
    <3>1. /\ pc[t] = "idle" /\ pc' = [pc EXCEPT ![t] = "log"]
          /\ \A u \in Threads \ {t} : job'[u] = job[u]
          /\ UNCHANGED <<ibc_events, channels, pendingPackets, pendingAcks, transit>>
      BY <2>1 DEF NewTx, WorkAt, GoTo, queueVars, trailVars, TInv, TypeOK
    <3> QED BY <1>0, <3>1, TrailElse DEF PacketLabels
  <2> QED BY <1>6, <2>1, TrailMake DEF Traffic
<1>7. ASSUME NEW t \in Threads, Step(t) PROVE TrailInv'
  <2>1. CASE Stamp(t)
    <3>1. /\ pc[t] = "publish" /\ pc' = [pc EXCEPT ![t] = "write"] /\ job' = job
          /\ UNCHANGED <<ibc_events, channels, pendingPackets, pendingAcks, transit>>
      BY <2>1 DEF Stamp, GoTo, queueVars, trailVars
    <3>2. \A u \in Threads : pc'[u] \in PacketLabels <=> pc[u] \in PacketLabels
      BY <3>1 DEF TInv, TypeOK, PacketLabels
    <3> QED BY <1>1, <3>1, <3>2, WorkKept
  <2>2. CASE LogTx(t)
    <3>1. /\ pc[t] = "log" /\ \E label \in {"log", "send", "snapshot"} : pc' = [pc EXCEPT ![t] = label]
          /\ \A u \in Threads \ {t} : job'[u] = job[u]
          /\ UNCHANGED <<ibc_events, channels, pendingPackets, pendingAcks, transit>>
      BY <2>2 DEF LogTx, WorkAt, GoTo, queueVars, trailVars, TInv, TypeOK
    <3> QED BY <3>1, TrailElse DEF PacketLabels
  <2>3. CASE SendTx(t)
    <3>1. /\ pc[t] = "send" /\ pc' = [pc EXCEPT ![t] = "idle"]
          /\ \A u \in Threads \ {t} : job'[u] = job[u]
          /\ UNCHANGED <<ibc_events, channels, pendingPackets, pendingAcks>>
          /\ \A msg \in transit' : msg \in transit \/ msg.type = "Tx"
      BY <2>3 DEF SendTx, WorkAt, GoTo, queueVars, trailVars, TInv, TypeOK
    <3> QED BY <3>1, TrailElse DEF PacketLabels
  <2>4. ASSUME t \in Relayers, NoAck(t) PROVE TrailInv'
    <3>1. /\ pc[t] = "acks" /\ pc' = [pc EXCEPT ![t] = "idle"]
          /\ \A u \in Threads \ {t} : job'[u] = job[u]
          /\ UNCHANGED <<ibc_events, channels, pendingPackets, pendingAcks, transit>>
      BY <2>4 DEF NoAck, GoTo, queueVars, trailVars
    <3> QED BY <1>0, <3>1, TrailElse DEF PacketLabels
  <2>5. ASSUME t \in Chains, Snapshot(t) PROVE TrailInv'
    <3>1. /\ pc[t] = "snapshot" /\ pc' = [pc EXCEPT ![t] = "idle"]
          /\ \A u \in Threads \ {t} : job'[u] = job[u]
          /\ UNCHANGED <<ibc_events, channels, pendingPackets, pendingAcks, transit>>
      BY <2>5 DEF Snapshot, GoTo, queueVars, trailVars
    <3> QED BY <1>0, <3>1, TrailElse DEF PacketLabels
  <2>6. ASSUME t \in Chains, NEW msg \in transit, ReceiveTx(t, msg) PROVE TrailInv'
    <3>1. /\ pc[t] = "idle" /\ pc' = [pc EXCEPT ![t] = "log"]
          /\ \A u \in Threads \ {t} : job'[u] = job[u]
          /\ UNCHANGED <<ibc_events, channels, pendingPackets, pendingAcks>> /\ transit' \subseteq transit
      BY <2>6 DEF ReceiveTx, WorkAt, GoTo, queueVars, trailVars, TInv, TypeOK
    <3> QED BY <3>1, TrailElse DEF PacketLabels
  <2> QED BY <1>7, <2>1, <2>2, <2>3, <2>4, <2>5, <2>6, TrailCall, TrailWrite, TrailRelay,
          TrailAccept, TrailPublishAck DEF Step
<1>8. CASE Terminated
  BY <1>2, <1>8 DEF Terminated
<1> QED BY <1>2, <1>3, <1>4, <1>5, <1>6, <1>7, <1>8 DEF Next

\* What a step does to the jobs of threads that still have handlers to call, and to
\* the clock: all steps but those that publish leave them alone.
LEMMA JobSteps ==
  ASSUME TInv, [Next]_vars
  PROVE  \/ \E t \in Threads, event \in ChainEvents, p \in Packets :
              /\ Publish(t, event, p) /\ clock_' = clock_ /\ stamp' = stamp
              /\ pc[t] = "idle" /\ ibc_events' = ibc_events
         \/ \E t \in Threads : Stamp(t) \/ Write(t)
         \/ /\ \A t \in Threads : todo'[t] \subseteq todo[t]
            /\ \A t \in Threads : pc[t] \in PacketLabels => job'[t] = job[t]
            /\ \A t \in Threads : pc'[t] = "write" => pc[t] = "write"
            /\ UNCHANGED <<clock_, stamp, ibc_events>>
<1> DEFINE Quiet == /\ \A t \in Threads : todo'[t] \subseteq todo[t]
                    /\ \A t \in Threads : pc[t] \in PacketLabels => job'[t] = job[t]
                    /\ \A t \in Threads : pc'[t] = "write" => pc[t] = "write"
                    /\ UNCHANGED <<clock_, stamp, ibc_events>>
           Begin(t) == \E event \in ChainEvents, p \in Packets :
                         /\ Publish(t, event, p) /\ clock_' = clock_ /\ stamp' = stamp
                         /\ pc[t] = "idle" /\ ibc_events' = ibc_events
<1>0. /\ \A t \in Senders : t \in Threads
      /\ \A r \in Relayers : r \in Threads
  BY Domains
<1>1. ASSUME NEW t \in Threads, NEW label, label # "write", pc' = [pc EXCEPT ![t] = label],
             pc[t] \notin PacketLabels, \A u \in Threads \ {t} : job'[u] = job[u],
             todo' = todo, UNCHANGED <<clock_, stamp, ibc_events>>
      PROVE  Quiet
  BY <1>1 DEF TInv, TypeOK
<1>2. ASSUME UNCHANGED vars PROVE Quiet
  BY <1>2 DEF vars, clockVars, trailVars
<1>3. ASSUME NEW r \in Relayers, Construct(r) \/ StopRelayer(r) \/ Destroy(r) PROVE Quiet
  <2>1. CASE StopRelayer(r)
    BY <2>1 DEF StopRelayer, clockVars, trailVars
  <2>2. CASE Construct(r) \/ Destroy(r)
    <3>1. /\ \E label \in {"constructed", "destroyed"} : pc' = [pc EXCEPT ![r] = label]
          /\ pc[r] \in {"none", "ended"} /\ todo' = todo
          /\ \A u \in Threads \ {r} : job'[u] = job[u]
          /\ UNCHANGED <<clock_, stamp, ibc_events>>
      BY <2>2 DEF Construct, Destroy, GoTo, clockVars, trailVars
    <3> QED BY <1>0, <1>1, <3>1 DEF PacketLabels
  <2> QED BY <1>3, <2>1, <2>2
<1>4. ASSUME Start PROVE Quiet
  BY <1>4 DEF Start, clockVars, trailVars
<1>5. ASSUME NEW t \in Threads, End(t) PROVE Quiet
  <2>1. /\ pc' = [pc EXCEPT ![t] = "ended"] /\ pc[t] = "idle" /\ todo' = todo
        /\ \A u \in Threads \ {t} : job'[u] = job[u]
        /\ UNCHANGED <<clock_, stamp, ibc_events>>
    BY <1>5 DEF End, GoTo, clockVars, trailVars
  <2> QED BY <1>1, <2>1 DEF PacketLabels
<1>6. ASSUME NEW t \in Senders, Traffic(t) PROVE Quiet \/ Begin(t)
  <2>1. ASSUME NEW c \in Chains, NewTx(t, c) PROVE Quiet
    <3>1. /\ pc' = [pc EXCEPT ![t] = "log"] /\ pc[t] = "idle" /\ todo' = todo
          /\ \A u \in Threads \ {t} : job'[u] = job[u]
          /\ UNCHANGED <<clock_, stamp, ibc_events>>
      BY <2>1 DEF NewTx, WorkAt, GoTo, clockVars, trailVars, TInv, TypeOK
    <3> QED BY <1>0, <1>1, <3>1 DEF PacketLabels
  <2>2. ASSUME NEW route \in Routes, MakeAndPublish(t, route) PROVE Begin(t)
    <3> DEFINE end == OpenChannel(channels[route[1]]["A"]).chan
               p == [src |-> route[1], dst |-> route[2], seq |-> end.nextSeq]
    <3>0. route[1] \in Chains /\ route[2] \in Chains /\ MaxSend \in Nat
      BY Domains
    <3>1. channels[route[1]]["A"] \in Channel
      BY <3>0 DEF TInv, TypeOK
    <3>2. end.nextSeq \in Nat \ {0}
      BY <3>1, ChannelOperations, 1 \in Nat
    <3> HIDE DEF end
    <3>3. /\ Publish(t, "packet_created", p) /\ clock_' = clock_ /\ stamp' = stamp
          /\ pc[t] = "idle" /\ ibc_events' = ibc_events /\ end.nextSeq <= MaxSend
      BY <2>2 DEF MakeAndPublish, clockVars, trailVars, end
    <3>4. p \in Packets
      BY <3>0, <3>2, <3>3 DEF Packets
    <3> QED BY <3>3, <3>4 DEF ChainEvents
  <2> QED BY <1>6, <2>1, <2>2 DEF Traffic
<1>7. ASSUME NEW t \in Threads, Step(t) PROVE Quiet \/ Begin(t) \/ Stamp(t) \/ Write(t)
  <2>1. ASSUME NEW s \in todo[t], CallHandler(t, s) PROVE Quiet
    <3>1. /\ pc' = pc /\ job' = job /\ todo' = [todo EXCEPT ![t] = @ \ {s}]
          /\ UNCHANGED <<clock_, stamp, ibc_events>>
      BY <2>1 DEF CallHandler, clockVars, trailVars
    <3> QED BY <3>1 DEF TInv, TypeOK
  <2>2. ASSUME LogTx(t) \/ SendTx(t) PROVE Quiet
    <3>1. /\ \E label \in {"log", "send", "snapshot", "idle"} : pc' = [pc EXCEPT ![t] = label]
          /\ pc[t] \in {"log", "send"} /\ todo' = todo
          /\ \A u \in Threads \ {t} : job'[u] = job[u]
          /\ UNCHANGED <<clock_, stamp, ibc_events>>
      BY <2>2 DEF LogTx, SendTx, WorkAt, GoTo, clockVars, trailVars, TInv, TypeOK
    <3> QED BY <1>1, <3>1 DEF PacketLabels
  <2>3. ASSUME t \in Relayers, RelayPacket(t) \/ RelayAck(t) \/ NoAck(t) PROVE Quiet
    <3>1. /\ \E label \in {"acks", "idle"} : pc' = [pc EXCEPT ![t] = label]
          /\ pc[t] \in {"acks", "idle"} /\ todo' = todo
          /\ \A u \in Threads \ {t} : job'[u] = job[u]
          /\ UNCHANGED <<clock_, stamp, ibc_events>>
      BY <2>3 DEF RelayPacket, RelayAck, NoAck, GoTo, clockVars, trailVars
    <3> QED BY <1>1, <3>1 DEF PacketLabels
  <2>4. ASSUME t \in Chains, Snapshot(t) PROVE Quiet
    <3>1. /\ pc' = [pc EXCEPT ![t] = "idle"] /\ pc[t] = "snapshot" /\ todo' = todo
          /\ \A u \in Threads \ {t} : job'[u] = job[u]
          /\ UNCHANGED <<clock_, stamp, ibc_events>>
      BY <2>4 DEF Snapshot, GoTo, clockVars, trailVars
    <3> QED BY <1>1, <3>1 DEF PacketLabels
  <2>5. ASSUME t \in Chains, NEW msg \in transit, AcceptAndPublish(t, msg) PROVE Quiet \/ Begin(t)
    <3>1. /\ clock_' = clock_ /\ stamp' = stamp /\ ibc_events' = ibc_events
          /\ pc[t] = "idle" /\ msg.type = "Data"
          /\ \/ Publish(t, "packet_received", msg.pkt)
             \/ pc' = [pc EXCEPT ![t] = "snapshot"] /\ todo' = todo /\ job' = job
      BY <2>5 DEF AcceptAndPublish, GoTo, clockVars, trailVars
    <3>2. msg.pkt \in Packets
      BY <3>1, MessageTypes
    <3>3. CASE Publish(t, "packet_received", msg.pkt)
      BY <3>1, <3>2, <3>3 DEF ChainEvents
    <3>4. CASE pc' = [pc EXCEPT ![t] = "snapshot"] /\ todo' = todo /\ job' = job
      BY <1>1, <3>1, <3>4 DEF PacketLabels
    <3> QED BY <3>1, <3>3, <3>4
  <2>6. ASSUME t \in Chains, NEW msg \in transit, PublishAck(t, msg) PROVE Begin(t)
    <3>1. /\ clock_' = clock_ /\ stamp' = stamp /\ ibc_events' = ibc_events
          /\ pc[t] = "idle" /\ msg.type = "Ack" /\ Publish(t, "ack_received", msg.pkt)
      BY <2>6 DEF PublishAck, clockVars, trailVars
    <3>2. msg.pkt \in Packets
      BY <3>1, MessageTypes
    <3> QED BY <3>1, <3>2 DEF ChainEvents
  <2>7. ASSUME t \in Chains, NEW msg \in transit, ReceiveTx(t, msg) PROVE Quiet
    <3>1. /\ pc' = [pc EXCEPT ![t] = "log"] /\ pc[t] = "idle" /\ todo' = todo
          /\ \A u \in Threads \ {t} : job'[u] = job[u]
          /\ UNCHANGED <<clock_, stamp, ibc_events>>
      BY <2>7 DEF ReceiveTx, WorkAt, GoTo, clockVars, trailVars, TInv, TypeOK
    <3> QED BY <1>1, <3>1 DEF PacketLabels
  <2> QED BY <1>7, <2>1, <2>2, <2>3, <2>4, <2>5, <2>6, <2>7 DEF Step
<1>8. ASSUME Terminated PROVE Quiet
  BY <1>2, <1>8 DEF Terminated
<1> HIDE DEF Begin, Quiet
<1>9. Quiet \/ \E t \in Threads : Begin(t) \/ Stamp(t) \/ Write(t)
  BY <1>0, <1>2, <1>3, <1>4, <1>5, <1>6, <1>7, <1>8 DEF Next
<1> QED BY <1>9, Zenon DEF Quiet, Begin

LEMMA TodoFitsStep == TInv /\ TodoFits /\ [Next]_vars => TodoFits'
<1> SUFFICES ASSUME TInv, TodoFits, [Next]_vars PROVE TodoFits'
  OBVIOUS
<1>1. ASSUME NEW t \in Threads, NEW event, NEW p, Publish(t, event, p) PROVE TodoFits'
  <2>1. /\ todo'[t] = Handlers(bus, Kind[event]) /\ job'[t].event = event
        /\ \A u \in Threads \ {t} : todo'[u] = todo[u] /\ job'[u] = job[u]
    BY <1>1 DEF Publish, WorkAt, On, TInv, TypeOK
  <2> QED BY <2>1 DEF TodoFits, Handlers
<1>2. ASSUME NEW t \in Threads, Stamp(t) PROVE TodoFits'
  BY <1>2 DEF Stamp, TodoFits
<1>3. ASSUME NEW t \in Threads, Write(t) PROVE TodoFits'
  <2>1. CASE Publish(t, "ack_generated", job[t].pkt)
    BY <1>1, <2>1
  <2>2. CASE todo' = todo /\ job' = [job EXCEPT ![t] = NoJob]
    <3>1. todo[t] = {} /\ \A u \in Threads \ {t} : job'[u] = job[u]
      BY <1>3, <2>2 DEF Write, TInv, TypeOK, Working
    <3> QED BY <2>2, <3>1 DEF TodoFits
  <2> QED BY <1>3, <2>1, <2>2 DEF Write, WorkAt
<1>4. CASE /\ \A t \in Threads : todo'[t] \subseteq todo[t]
           /\ \A t \in Threads : pc[t] \in PacketLabels => job'[t] = job[t]
  BY <1>4 DEF TodoFits, TInv, Working, PacketLabels
<1> QED BY <1>1, <1>2, <1>3, <1>4, JobSteps

LEMMA TimedStep == TInv /\ Timed /\ [Next]_vars => Timed'
<1> SUFFICES ASSUME TInv, Timed, [Next]_vars PROVE Timed'
  OBVIOUS
<1>0. /\ pc \in [Threads -> PacketLabels \union TxLabels \union RestLabels]
      /\ clock_ \in Nat /\ stamp \in [Threads -> Nat] /\ ibc_events \in Seq(ChainLines)
      /\ \A k \in DOMAIN ibc_events : ibc_events[k].ts \in Nat
  <2>1. /\ clock_ \in Nat /\ stamp \in [Threads -> Nat] /\ ibc_events \in Seq(ChainLines)
        /\ pc \in [Threads -> PacketLabels \union TxLabels \union RestLabels]
    BY DEF TInv, TypeOK
  <2>2. \A line \in ChainLines : line.ts \in Nat
    BY DEF ChainLines
  <2> QED BY <2>1, <2>2
<1>1. ASSUME NEW t \in Threads, NEW event, NEW p, Publish(t, event, p),
             clock_' = clock_, stamp' = stamp, ibc_events' = ibc_events
      PROVE  Timed'
  <2>1. \A u \in Threads : pc'[u] = "write" => pc[u] = "write"
    BY <1>0, <1>1 DEF Publish, WorkAt, GoTo
  <2> QED BY <1>1, <2>1 DEF Timed
<1>2. ASSUME NEW t \in Threads, Stamp(t) PROVE Timed'
  <2>1. /\ pc[t] = "publish" /\ pc' = [pc EXCEPT ![t] = "write"]
        /\ stamp' = [stamp EXCEPT ![t] = clock_'] /\ clock_' \in {clock_, clock_ + 1}
        /\ ibc_events' = ibc_events
    BY <1>2 DEF Stamp, LookAtClock, GoTo, trailVars
  <2>2. pc[t] \in PacketLabels
    BY <2>1 DEF PacketLabels
  <2>3. \A u \in Threads \ {t} : pc'[u] # "write"
    BY <1>0, <2>1, <2>2, AtWork DEF PacketLabels
  <2>4. stamp'[t] = clock_' /\ clock_' \in Nat /\ clock_' >= clock_
    BY <1>0, <2>1
  <2>5. \A k \in DOMAIN ibc_events : ibc_events[k].ts \in Nat /\ ibc_events[k].ts <= clock_
    BY <1>0 DEF Timed
  <2> QED BY <1>0, <2>1, <2>3, <2>4, <2>5 DEF Timed
<1>3. ASSUME NEW t \in Threads, Write(t) PROVE Timed'
  <2> DEFINE line == [event |-> job[t].event, pkt |-> job[t].pkt, ts |-> stamp[t]]
  <2>1. /\ pc[t] = "write" /\ ibc_events' = Append(ibc_events, line)
        /\ clock_' = clock_
        /\ \E label \in {"publish", "idle", "snapshot"} : pc' = [pc EXCEPT ![t] = label]
    BY <1>3 DEF Write, Publish, WorkAt, GoTo, LogIBCEvent, clockVars
  <2>2. pc[t] \in PacketLabels
    BY <2>1 DEF PacketLabels
  <2>3. \A u \in Threads : pc'[u] # "write"
    BY <1>0, <2>1, <2>2, AtWork DEF PacketLabels
  <2>4. line.ts <= clock_
    BY <2>1 DEF Timed
  <2> HIDE DEF line
  <2>5. \A k \in DOMAIN ibc_events' : ibc_events'[k] = line \/ (k \in DOMAIN ibc_events /\ ibc_events'[k] = ibc_events[k])
    BY <1>0, <2>1
  <2> QED BY <2>1, <2>3, <2>4, <2>5 DEF Timed
<1>4. CASE /\ \A t \in Threads : pc'[t] = "write" => pc[t] = "write"
           /\ UNCHANGED <<clock_, stamp, ibc_events>>
  BY <1>4 DEF Timed
<1> QED BY <1>1, <1>2, <1>3, <1>4, JobSteps

LogInv == TInv /\ TodoFits /\ Timed /\ TrailInv

LEMMA LogInvInit == Init => LogInv
<1>1. Init => TodoFits /\ Timed
  BY DEF Init, TodoFits, Timed, Threads
<1> QED BY <1>1, TypeInit, TrailInit DEF LogInv

LEMMA LogInvStep == LogInv /\ [Next]_vars => LogInv'
BY TypeStep, TodoFitsStep, TimedStep, TrailStep DEF LogInv

-----------------------------------------------------------------------------
(* The trail is as its readers expect it. *)

\* A chain writes the next line of its packet's life.
LEMMA WriteImplements ==
  ASSUME LogInv, NEW t \in Threads, Write(t) PROVE Trail!Next
<1> DEFINE j == job[t]
           line == [event |-> j.event, pkt |-> j.pkt, ts |-> stamp[t]]
<1>1. pc[t] = "write" /\ ibc_events' = Append(ibc_events, line) /\ relayed' = relayed
  BY DEF Write, LogIBCEvent
<1>2. pc[t] \in PacketLabels
  BY <1>1 DEF PacketLabels
<1>3. /\ j \in PacketJobs /\ j.pkt \in Packets /\ j.event \in ChainEvents /\ stamp[t] \in Nat
      /\ Work = {j} /\ ibc_events \in Seq(ChainLines)
  BY <1>2, AtWork, WorkOf DEF LogInv, TInv, TypeOK
<1>4. line \in ChainLines /\ line.event = j.event /\ line.pkt = j.pkt /\ line.ts = stamp[t]
  BY <1>3, PacketTypes
<1>5. Trail!InTime(line)
  BY <1>1, <1>4 DEF LogInv, Timed, Trail!InTime
<1> HIDE DEF j, line
<1>6. Trail!InPlace(line)
  <2>1. j.pkt.src \in Chains /\ j.pkt.dst \in Chains
    BY <1>3, PacketTypes
  <2>2. CASE j.event = "packet_created"
    BY <1>3, <1>4, <2>1, <2>2 DEF LogInv, TrailInv, InOrder, Trail!InPlace
  <2>3. CASE j.event = "packet_received"
    BY <1>3, <1>4, <2>1, <2>3 DEF LogInv, TrailInv, InOrder, Grounded, Trail!InPlace
  <2>4. CASE j.event = "ack_generated"
    BY <1>3, <1>4, <2>4 DEF LogInv, TrailInv, Grounded, Trail!InPlace
  <2>5. CASE j.event = "ack_received"
    BY <1>3, <1>4, <2>5 DEF LogInv, TrailInv, Grounded, Trail!InPlace
  <2> QED BY <1>3, <2>2, <2>3, <2>4, <2>5 DEF ChainEvents
<1>7. /\ ibc_events' \in Seq(ChainLines) /\ ibc_events' # ibc_events
      /\ ibc_events'[Len(ibc_events')] = line
  <2>1. Len(ibc_events') = Len(ibc_events) + 1 /\ Len(ibc_events) \in Nat
    BY <1>1, <1>3, <1>4
  <2>2. ibc_events' \in Seq(ChainLines)
    BY <1>1, <1>3, <1>4, AppendType
  <2> QED BY <1>1, <1>3, <1>4, <2>1, <2>2
<1>8. Trail!LogByChain(line)
  BY <1>1, <1>5, <1>6 DEF Trail!LogByChain
<1> QED BY <1>7, <1>8 DEF Trail!Next, Trail!ChainLines, ChainLines, Trail!ChainEvents, ChainEvents

\* A relayer's line: of an ack, only after its packet was logged as received
LEMMA RelayImplements ==
  ASSUME LogInv, NEW r \in Relayers, RelayPacket(r) \/ RelayAck(r)
  PROVE  Trail!Next \/ UNCHANGED <<ibc_events, relayed>>
<1>1. ASSUME NEW line \in RelayerLines, relayed' = relayed \union {line}, ibc_events' = ibc_events,
             line.event = "ack_relayed" => Trail!Has("packet_received", line.pkt)
      PROVE  Trail!Next \/ UNCHANGED <<ibc_events, relayed>>
  <2>1. CASE line \in relayed
    BY <1>1, <2>1
  <2>2. CASE line \notin relayed
    <3>1. Trail!LogByRelayer(line) /\ line \in relayed' \ relayed
      BY <1>1, <2>2 DEF Trail!LogByRelayer
    <3>2. line \in Trail!RelayerLines
      BY DEF Trail!RelayerLines, RelayerLines, Trail!RelayerEvents, RelayerEvents
    <3> QED BY <3>1, <3>2 DEF Trail!Next
  <2> QED BY <2>1, <2>2
<1>2. pendingPackets \in [Relayers -> Seq(Packets)] /\ pendingAcks \in [Relayers -> Seq(Packets)]
  BY DEF LogInv, TInv, TypeOK
<1>3. CASE RelayPacket(r)
  <2> DEFINE p == Head(pendingPackets[r])
             line == [event |-> "packet_relayed", pkt |-> p, by |-> r]
  <2>1. /\ pendingPackets[r] # <<>> /\ ibc_events' = ibc_events
        /\ relayed' = relayed \union {line} \/ relayed' = relayed
    BY <1>3 DEF RelayPacket, Relay
  <2>2. p \in Packets
    BY <1>2, <2>1, HeadTailType
  <2>3. line \in RelayerLines /\ line.event # "ack_relayed"
    BY <2>2, PacketTypes DEF RelayerEvents
  <2> HIDE DEF line
  <2> QED BY <1>1, <2>1, <2>3
<1>4. CASE RelayAck(r)
  <2> DEFINE p == Head(pendingAcks[r])
             line == [event |-> "ack_relayed", pkt |-> p, by |-> r]
  <2>1. /\ pendingAcks[r] # <<>> /\ ibc_events' = ibc_events
        /\ relayed' = relayed \union {line} \/ relayed' = relayed
    BY <1>4 DEF RelayAck, Relay
  <2>2. p \in Packets
    BY <1>2, <2>1, HeadTailType
  <2>3. line \in RelayerLines /\ line.pkt = p
    BY <2>2, PacketTypes DEF RelayerEvents
  <2>4. Trail!Has("packet_received", p)
    <3>1. In(p, pendingAcks[r])
      BY <1>2, <2>1, <2>2, Copies
    <3> HIDE DEF p
    <3> QED BY <2>2, <3>1 DEF LogInv, TrailInv, CopiesTrue, AckCopy
  <2> HIDE DEF line
  <2> QED BY <1>1, <2>1, <2>3, <2>4
<1> QED BY <1>3, <1>4

\* No other step leaves a line of the trail.
LEMMA OthersLogNothing ==
  ASSUME LogInv, [Next]_vars
  PROVE  \/ \E t \in Threads : Write(t)
         \/ \E r \in Relayers : RelayPacket(r) \/ RelayAck(r)
         \/ UNCHANGED <<ibc_events, relayed>>
<1>1. CASE UNCHANGED vars
  BY <1>1 DEF vars, trailVars
<1>2. ASSUME NEW r \in Relayers, Construct(r) \/ StopRelayer(r) \/ Destroy(r)
      PROVE  UNCHANGED <<ibc_events, relayed>>
  BY <1>2 DEF Construct, StopRelayer, Destroy, trailVars
<1>3. ASSUME Start PROVE UNCHANGED <<ibc_events, relayed>>
  BY <1>3 DEF Start, trailVars
<1>4. ASSUME NEW t \in Threads, End(t) PROVE UNCHANGED <<ibc_events, relayed>>
  BY <1>4 DEF End, trailVars
<1>5. ASSUME NEW t \in Senders, Traffic(t) PROVE UNCHANGED <<ibc_events, relayed>>
  BY <1>5 DEF Traffic, MakeAndPublish, NewTx, trailVars
<1>6. ASSUME NEW t \in Threads, Step(t)
      PROVE  \/ Write(t) \/ (t \in Relayers /\ (RelayPacket(t) \/ RelayAck(t)))
             \/ UNCHANGED <<ibc_events, relayed>>
  <2>1. ASSUME NEW s \in todo[t], CallHandler(t, s) PROVE UNCHANGED <<ibc_events, relayed>>
    BY <2>1 DEF CallHandler, trailVars
  <2>2. ASSUME Stamp(t) \/ LogTx(t) \/ SendTx(t) \/ NoAck(t) \/ Snapshot(t)
        PROVE  UNCHANGED <<ibc_events, relayed>>
    BY <2>2 DEF Stamp, LogTx, SendTx, NoAck, Snapshot, trailVars
  <2>3. ASSUME NEW msg \in transit, AcceptAndPublish(t, msg) \/ PublishAck(t, msg) \/ ReceiveTx(t, msg)
        PROVE  UNCHANGED <<ibc_events, relayed>>
    BY <2>3 DEF AcceptAndPublish, PublishAck, ReceiveTx, trailVars
  <2> QED BY <1>6, <2>1, <2>2, <2>3 DEF Step
<1> QED BY <1>1, <1>2, <1>3, <1>4, <1>5, <1>6 DEF Next, Terminated

\* ibc_events.jsonl, with any number of chains, relayers and packets and whatever the
\* threads' order, is a trail: packets are created and received in the order of their
\* numbers, each received packet once and after its creation, each ack after its packet
\* and once, an ack's line of a relayer after the packet's, and time never runs back.
THEOREM LogImplementsTrail == Spec => ImplementsTrail
<1>1. Init => Trail!Init
  BY DEF Init, Trail!Init
<1>2. LogInv /\ [Next]_vars => [Trail!Next]_<<ibc_events, relayed>>
  BY OthersLogNothing, WriteImplements, RelayImplements
<1> QED BY <1>1, <1>2, LogInvInit, LogInvStep, PTL DEF Spec, ImplementsTrail, Trail!Spec
=============================================================================
