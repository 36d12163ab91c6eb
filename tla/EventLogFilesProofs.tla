------------------------- MODULE EventLogFilesProofs -------------------------
(***************************************************************************)
(* More proofs about EventLog: what the relayers hear, and what the other    *)
(* files and the counters tell.                                             *)
(***************************************************************************)
EXTENDS EventLogProofs, FiniteSetTheorems

-----------------------------------------------------------------------------
(* The bus while the program runs *)

SendKinds == {"IBCPacketSend", "IBCAckSend"}
Idlers == Senders \union Chains   \* those that publish
NotRunning == {"none", "constructed", "destroyed"}

\* While a sender or a chain is there to publish, all relayers are there to hear.
Running ==
  \A t \in Idlers : pc[t] \notin {"none", "ended"} => \A r \in Relayers : pc[r] \notin NotRunning

\* Until the first relayer goes, each has one handler for either kind.
Subscribed ==
  /\ (\A r \in Relayers : pc[r] # "destroyed") =>
       \A r \in Relayers : pc[r] # "none" =>
         \A kind \in SendKinds : \E s \in bus.subs : s.handler = r /\ s.kind = kind
  /\ \A s, q \in bus.subs : s.handler = q.handler /\ s.kind = q.kind => s = q
  /\ \A s \in bus.subs : s.kind \in SendKinds

\* What publish() copied is still subscribed.
CopiedLive == \A t \in Threads : todo[t] \subseteq bus.subs

BusInv == SubscribersLive /\ Running /\ Subscribed /\ CopiedLive

\* The threads' places: construction, start and destruction apart, only a thread
\* that runs moves, and it goes on running or ends.
Moves(t) ==
  \/ pc'[t] = pc[t]
  \/ pc[t] \notin NotRunning \union {"ended"} /\ pc'[t] \notin NotRunning

LEMMA PlaceSteps ==
  ASSUME TInv, [Next]_vars
  PROVE  \/ \E r \in Relayers : Construct(r) \/ Destroy(r)
         \/ Start
         \/ \A t \in Threads : Moves(t)
<1>0. /\ \A t \in Senders : t \in Threads
      /\ \A r \in Relayers : r \in Threads
  BY Domains
<1>1. ASSUME NEW t \in Threads, NEW label, label \notin NotRunning, pc' = [pc EXCEPT ![t] = label],
             pc[t] \notin NotRunning \union {"ended"}
      PROVE  \A u \in Threads : Moves(u)
  BY <1>1 DEF TInv, TypeOK, Moves
<1>2. ASSUME NEW t \in Threads, NEW event, NEW p, Publish(t, event, p), pc[t] \in {"idle", "write"}
      PROVE  \A u \in Threads : Moves(u)
  BY <1>1, <1>2 DEF Publish, WorkAt, GoTo, NotRunning
<1>3. ASSUME UNCHANGED vars \/ \E r \in Relayers : StopRelayer(r)
      PROVE  \A t \in Threads : Moves(t)
  BY <1>3 DEF vars, StopRelayer, Moves
<1>4. ASSUME NEW t \in Threads, End(t) PROVE \A u \in Threads : Moves(u)
  BY <1>1, <1>4 DEF End, GoTo, NotRunning
<1>5. ASSUME NEW t \in Senders, Traffic(t) PROVE \A u \in Threads : Moves(u)
  <2>1. ASSUME NEW route \in Routes, MakeAndPublish(t, route) PROVE \A u \in Threads : Moves(u)
    BY <1>0, <1>2, <2>1 DEF MakeAndPublish
  <2>2. ASSUME NEW c \in Chains, NewTx(t, c) PROVE \A u \in Threads : Moves(u)
    BY <1>0, <1>1, <2>2 DEF NewTx, WorkAt, GoTo, NotRunning
  <2> QED BY <1>5, <2>1, <2>2 DEF Traffic
<1>6. ASSUME NEW t \in Threads, Step(t) PROVE \A u \in Threads : Moves(u)
  <2>1. ASSUME NEW s \in todo[t], CallHandler(t, s) PROVE \A u \in Threads : Moves(u)
    BY <2>1 DEF CallHandler, Moves
  <2>2. ASSUME Stamp(t) PROVE \A u \in Threads : Moves(u)
    BY <1>1, <2>2 DEF Stamp, GoTo, NotRunning
  <2>3. ASSUME Write(t) PROVE \A u \in Threads : Moves(u)
    <3>1. /\ pc[t] = "write"
          /\ \/ Publish(t, "ack_generated", job[t].pkt)
             \/ pc' = [pc EXCEPT ![t] = IF t \in Senders THEN "idle" ELSE "snapshot"]
      BY <2>3 DEF Write, WorkAt, GoTo
    <3> QED BY <1>1, <1>2, <3>1 DEF NotRunning
  <2>4. ASSUME LogTx(t) \/ SendTx(t) PROVE \A u \in Threads : Moves(u)
    <3>1. /\ pc[t] \in {"log", "send"}
          /\ \E label \in {"log", "send", "snapshot", "idle"} : pc' = [pc EXCEPT ![t] = label]
      BY <2>4 DEF LogTx, SendTx, WorkAt, GoTo
    <3> QED BY <1>1, <3>1 DEF NotRunning
  <2>5. ASSUME RelayPacket(t) \/ RelayAck(t) \/ NoAck(t) PROVE \A u \in Threads : Moves(u)
    <3>1. /\ pc[t] \in {"acks", "idle"}
          /\ \E label \in {"acks", "idle"} : pc' = [pc EXCEPT ![t] = label]
      BY <2>5 DEF RelayPacket, RelayAck, NoAck, GoTo
    <3> QED BY <1>1, <3>1 DEF NotRunning
  <2>6. ASSUME Snapshot(t) PROVE \A u \in Threads : Moves(u)
    BY <1>1, <2>6 DEF Snapshot, GoTo, NotRunning
  <2>7. ASSUME NEW msg \in transit, AcceptAndPublish(t, msg) PROVE \A u \in Threads : Moves(u)
    <3>1. /\ pc[t] = "idle"
          /\ Publish(t, "packet_received", msg.pkt) \/ pc' = [pc EXCEPT ![t] = "snapshot"]
      BY <2>7 DEF AcceptAndPublish, GoTo
    <3> QED BY <1>1, <1>2, <3>1 DEF NotRunning
  <2>8. ASSUME NEW msg \in transit, PublishAck(t, msg) PROVE \A u \in Threads : Moves(u)
    BY <1>2, <2>8 DEF PublishAck
  <2>9. ASSUME NEW msg \in transit, ReceiveTx(t, msg) PROVE \A u \in Threads : Moves(u)
    BY <1>1, <2>9 DEF ReceiveTx, WorkAt, GoTo, NotRunning
  <2> QED BY <1>6, <2>1, <2>2, <2>3, <2>4, <2>5, <2>6, <2>7, <2>8, <2>9 DEF Step
<1> QED BY <1>3, <1>4, <1>5, <1>6 DEF Next, Terminated

LEMMA BusInvInit == Init => BusInv
BY SubscribersInit DEF Init, BusInv, Running, Subscribed, CopiedLive, NewBus, Idlers, Threads

\* A relayer subscribes, two handlers, before anybody publishes.
LEMMA BusInvConstruct ==
  ASSUME TInv, BusInv, NEW r \in Relayers, Construct(r)
  PROVE  Running' /\ Subscribed' /\ CopiedLive'
<1> DEFINE packet == Subscribe(bus, "IBCPacketSend", r)
           ack == Subscribe(packet.bus, "IBCAckSend", r)
<1>0. r \in Threads /\ \A q \in Relayers : q \in Threads
  BY Domains
<1>1. /\ pc[r] = "none" /\ pc' = [pc EXCEPT ![r] = "constructed"]
      /\ bus' = ack.bus /\ todo' = todo
  BY DEF Construct, GoTo
<1>2. /\ packet.bus.subs = bus.subs \union
           {[token |-> packet.token, kind |-> "IBCPacketSend", handler |-> r]}
      /\ ack.bus.subs = packet.bus.subs \union
           {[token |-> ack.token, kind |-> "IBCAckSend", handler |-> r]}
  BY DEF Subscribe
<1> HIDE DEF packet, ack
<1> DEFINE one == [token |-> packet.token, kind |-> "IBCPacketSend", handler |-> r]
           two == [token |-> ack.token, kind |-> "IBCAckSend", handler |-> r]
<1>3. /\ bus'.subs = bus.subs \union {one, two}
      /\ one.kind = "IBCPacketSend" /\ one.handler = r /\ two.kind = "IBCAckSend" /\ two.handler = r
  BY <1>1, <1>2
<1> HIDE DEF one, two
<1>4. \A s \in bus.subs : s.handler # r
  BY <1>1 DEF BusInv, SubscribersLive, Gone
<1>5. /\ pc'[r] = "constructed" /\ \A t \in Threads \ {r} : pc'[t] = pc[t]
  BY <1>0, <1>1 DEF TInv, TypeOK
<1>6. Running'
  <2>1. \A t \in Idlers : pc[t] \in {"none", "ended"}
    BY <1>1 DEF BusInv, Running, NotRunning
  <2>2. \A t \in Idlers : t \in Threads \ {r}
    BY Domains DEF Idlers
  <2> QED BY <1>5, <2>1, <2>2 DEF Running
<1>7. Subscribed'
  <2>1. ASSUME \A q \in Relayers : pc'[q] # "destroyed",
               NEW q \in Relayers, pc'[q] # "none", NEW kind \in SendKinds
        PROVE  \E s \in bus'.subs : s.handler = q /\ s.kind = kind
    <3>1. CASE q = r
      BY <1>3, <3>1 DEF SendKinds
    <3>2. CASE q # r
      <4>1. \A w \in Relayers : pc[w] # "destroyed"
        BY <1>0, <1>1, <1>5, <2>1
      <4>2. \E s \in bus.subs : s.handler = q /\ s.kind = kind
        BY <1>0, <1>5, <2>1, <3>2, <4>1 DEF BusInv, Subscribed
      <4> QED BY <1>3, <4>2
    <3> QED BY <3>1, <3>2
  <2>2. \A s, q \in bus'.subs : s.handler = q.handler /\ s.kind = q.kind => s = q
    BY <1>3, <1>4 DEF BusInv, Subscribed
  <2>3. \A s \in bus'.subs : s.kind \in SendKinds
    BY <1>3 DEF BusInv, Subscribed, SendKinds
  <2> QED BY <2>1, <2>2, <2>3 DEF Subscribed
<1>8. CopiedLive'
  BY <1>1, <1>3 DEF BusInv, CopiedLive
<1> QED BY <1>6, <1>7, <1>8

LEMMA BusInvDestroy ==
  ASSUME TInv, BusInv, NEW r \in Relayers, Destroy(r)
  PROVE  Running' /\ Subscribed' /\ CopiedLive'
<1>0. r \in Threads
  BY Domains
<1>1. /\ pc' = [pc EXCEPT ![r] = "destroyed"] /\ todo' = todo
      /\ \A t \in Idlers : pc[t] = "ended"
      /\ bus' = Unsubscribe(Unsubscribe(bus, tokens[r].packet), tokens[r].ack)
  BY DEF Destroy, GoTo, Idlers
<1>2. pc'[r] = "destroyed" /\ \A t \in Idlers : pc'[t] = "ended"
  BY <1>0, <1>1, Domains DEF TInv, TypeOK, Idlers
<1>3. bus'.subs \subseteq bus.subs
  <2>1. bus \in [nextToken : Nat \ {0}, subs : SUBSET Subs]
    BY DEF TInv, TypeOK
  <2> DEFINE half == Unsubscribe(bus, tokens[r].packet)
  <2>2. half.subs \subseteq bus.subs
    BY <2>1 DEF Unsubscribe
  <2>3. half \in [nextToken : Nat \ {0}, subs : SUBSET Subs]
    BY <2>1, BusTypes DEF EventKinds
  <2>4. bus' = Unsubscribe(half, tokens[r].ack)
    BY <1>1
  <2> HIDE DEF half
  <2>5. bus'.subs \subseteq half.subs
    BY <2>3, <2>4 DEF Unsubscribe
  <2> QED BY <2>2, <2>5
<1>4. \A t \in Threads : todo[t] = {}
  <2>1. \A t \in Idlers : pc[t] # "publish"
    BY <1>1
  <2>2. \A q \in Relayers : pc[q] # "publish"
    BY DEF TInv, Working, RelayerLabels
  <2> QED BY <2>1, <2>2 DEF TInv, Working, Threads, Idlers
<1>5. Running'
  BY <1>2 DEF Running
<1>6. Subscribed'
  BY <1>2, <1>3 DEF BusInv, Subscribed
<1>7. CopiedLive'
  BY <1>1, <1>4 DEF CopiedLive
<1> QED BY <1>5, <1>6, <1>7

LEMMA BusInvStep == TInv /\ BusInv /\ [Next]_vars => BusInv'
<1> SUFFICES ASSUME TInv, BusInv, [Next]_vars PROVE BusInv'
  OBVIOUS
<1>0. SubscribersLive'
  BY SubscribersStep DEF BusInv
<1>1. CASE \E r \in Relayers : Construct(r) \/ Destroy(r)
  BY <1>0, <1>1, BusInvConstruct, BusInvDestroy DEF BusInv
<1>2. CASE /\ ~ \E r \in Relayers : Construct(r) \/ Destroy(r)
  <2>0. /\ \A t \in Idlers : t \in Threads
        /\ \A r \in Relayers : r \in Threads
    BY Domains DEF Idlers
  <2>1. /\ bus' = bus
        /\ \A r \in Relayers : pc[r] \notin Gone => pc'[r] \notin Gone
        /\ \A t \in Threads : todo'[t] \subseteq todo[t] \union bus.subs
    BY <1>2, BusSteps
  <2>2. Start \/ \A t \in Threads : Moves(t)
    BY <1>2, PlaceSteps
  <2>3. CopiedLive'
    BY <2>1 DEF BusInv, CopiedLive
  <2>4. CASE Start
    <3>1. /\ \A t \in Threads : pc'[t] = "idle"
          /\ \A r \in Relayers : pc[r] = "constructed"
      BY <2>4 DEF Start
    <3>2. Running' /\ Subscribed'
      BY <2>0, <2>1, <3>1 DEF BusInv, Running, Subscribed, NotRunning
    <3> QED BY <1>0, <2>3, <3>2 DEF BusInv
  <2>5. CASE \A t \in Threads : Moves(t)
    <3>1. Running'
      <4> SUFFICES ASSUME NEW t \in Idlers, pc'[t] \notin {"none", "ended"}, NEW r \in Relayers
                   PROVE  pc'[r] \notin NotRunning
        BY DEF Running
      <4>1. pc[t] \notin {"none", "ended"}
        BY <2>0, <2>5 DEF Moves, NotRunning
      <4>2. pc[r] \notin NotRunning
        BY <4>1 DEF BusInv, Running
      <4> QED BY <2>0, <2>5, <4>2 DEF Moves
    <3>2. Subscribed'
      <4>1. \A r \in Relayers : (pc'[r] # "destroyed" => pc[r] # "destroyed")
                                /\ (pc[r] = "none" => pc'[r] = "none")
        BY <2>0, <2>1, <2>5 DEF Moves, NotRunning, Gone
      <4>2. ASSUME \A q \in Relayers : pc'[q] # "destroyed",
                   NEW r \in Relayers, pc'[r] # "none", NEW kind \in SendKinds
            PROVE  \E s \in bus'.subs : s.handler = r /\ s.kind = kind
        <5>1. \A q \in Relayers : pc[q] # "destroyed"
          BY <4>1, <4>2
        <5>2. pc[r] # "none"
          BY <4>1, <4>2
        <5> QED BY <2>1, <5>1, <5>2 DEF BusInv, Subscribed
      <4> QED BY <2>1, <4>2 DEF BusInv, Subscribed
    <3> QED BY <1>0, <2>3, <3>1, <3>2 DEF BusInv
  <2> QED BY <2>2, <2>4, <2>5
<1> QED BY <1>1, <1>2

-----------------------------------------------------------------------------
(* What the relayers hear *)

\* A publish() has still to call a handler of r.
Pend(r) == \E t \in Threads : \E s \in todo[t] : s.handler = r

\* Those already called are one event, the one at work, ahead of the others.
Together ==
  \A r, q \in Relayers :
    /\ (Pend(r) <=> Pend(q)) => heard[r] = heard[q]
    /\ Pend(q) /\ ~Pend(r) => \E j \in Work : heard[r] = Append(heard[q], j)

\* What a relayer heard is logged, except for what is at work.
HeardLogged ==
  \A r \in Relayers : \A k \in DOMAIN heard[r] :
    LET j == heard[r][k] IN
    /\ j.event \in {"packet_created", "ack_generated"}
    /\ Trail!Has(j.event, j.pkt) \/ (j \in Work /\ ~Pend(r))

HeardOnce == \A r \in Relayers : IsInjective(heard[r])

HeardInv == Together /\ HeardLogged /\ HeardOnce

\* Nothing is counted of an event, and nobody begins or ends one, or comes to write it.
Still ==
  /\ \A name \in Counters \ {"ibc_packets_failed"} : metrics'[name] = metrics[name]
  /\ \A t \in Threads : /\ pc'[t] = "write" <=> pc[t] = "write"
                        /\ pc'[t] \in PacketLabels <=> pc[t] \in PacketLabels
                        /\ pc[t] \in PacketLabels => job'[t] = job[t]

\* The steps that matter to what is heard, and to what is counted
LEMMA HeardSteps ==
  ASSUME TInv, [Next]_vars
  PROVE  \/ \E t \in Threads : \E s \in todo[t] : CallHandler(t, s)
         \/ \E t \in Idlers, p \in Packets,
               event \in {"packet_created", "packet_received", "ack_received"} :
              /\ Publish(t, event, p) /\ chainMutex = Free /\ pc[t] = "idle"
              /\ UNCHANGED <<heard, ibc_events, metrics>>
              /\ event = "packet_created" => t \in Senders
         \/ \E t \in Threads : Write(t)
         \/ /\ Work' = Work /\ UNCHANGED <<heard, todo, ibc_events>>
            /\ Still \/ \E t \in Threads : Stamp(t)
<1> DEFINE Quiet == /\ Work' = Work /\ UNCHANGED <<heard, todo, ibc_events>>
                    /\ Still \/ \E t \in Threads : Stamp(t)
           Begin(t) == \E p \in Packets,
                          event \in {"packet_created", "packet_received", "ack_received"} :
                         /\ Publish(t, event, p) /\ chainMutex = Free /\ pc[t] = "idle"
                         /\ UNCHANGED <<heard, ibc_events, metrics>>
                         /\ event = "packet_created" => t \in Senders
<1>0. /\ \A t \in Senders : t \in Threads /\ t \in Idlers
      /\ \A r \in Relayers : r \in Threads
  BY Domains DEF Idlers
<1>1. ASSUME NEW t \in Threads, NEW label, label \notin PacketLabels, pc[t] \notin PacketLabels,
             pc' = [pc EXCEPT ![t] = label], \A u \in Threads \ {t} : job'[u] = job[u],
             UNCHANGED <<heard, todo, ibc_events>>,
             \A name \in Counters \ {"ibc_packets_failed"} : metrics'[name] = metrics[name]
      PROVE  Quiet
  <2>1. \A u \in Threads : pc'[u] \in PacketLabels <=> pc[u] \in PacketLabels
    BY <1>1 DEF TInv, TypeOK
  <2>2. Still
    BY <1>1 DEF TInv, TypeOK, Still, PacketLabels
  <2> QED BY <1>1, <2>1, <2>2, WorkKept
<1>2. ASSUME UNCHANGED vars \/ \E r \in Relayers : StopRelayer(r) PROVE Quiet
  BY <1>2 DEF vars, StopRelayer, trailVars, Work, Still
<1>3. ASSUME NEW r \in Relayers, Construct(r) \/ Destroy(r) PROVE Quiet
  <2>1. /\ \E label \in {"constructed", "destroyed"} : pc' = [pc EXCEPT ![r] = label]
        /\ pc[r] \in {"none", "ended"} /\ \A u \in Threads \ {r} : job'[u] = job[u]
        /\ UNCHANGED <<heard, todo, ibc_events, metrics>>
    BY <1>3 DEF Construct, Destroy, GoTo, trailVars
  <2> QED BY <1>0, <1>1, <2>1 DEF PacketLabels
<1>4. ASSUME Start PROVE Quiet
  <2>1. \A t \in Threads : pc[t] \notin PacketLabels /\ pc'[t] \notin PacketLabels
    BY <1>4 DEF Start, PacketLabels, Threads
  <2> QED BY <1>4, <2>1 DEF Start, trailVars, Work, Still, PacketLabels
<1>5. ASSUME NEW t \in Threads, End(t) PROVE Quiet
  <2>1. /\ pc' = [pc EXCEPT ![t] = "ended"] /\ pc[t] = "idle"
        /\ \A u \in Threads \ {t} : job'[u] = job[u]
        /\ UNCHANGED <<heard, todo, ibc_events, metrics>>
    BY <1>5 DEF End, GoTo, trailVars
  <2> QED BY <1>1, <2>1 DEF PacketLabels
<1>6. ASSUME NEW t \in Senders, Traffic(t) PROVE Quiet \/ Begin(t)
  <2>1. ASSUME NEW c \in Chains, NewTx(t, c) PROVE Quiet
    <3>1. /\ pc' = [pc EXCEPT ![t] = "log"] /\ pc[t] = "idle"
          /\ \A u \in Threads \ {t} : job'[u] = job[u]
          /\ UNCHANGED <<heard, todo, ibc_events, metrics>>
      BY <2>1 DEF NewTx, WorkAt, GoTo, trailVars, TInv, TypeOK
    <3> QED BY <1>0, <1>1, <3>1 DEF PacketLabels
  <2>2. ASSUME NEW route \in Routes, MakeAndPublish(t, route) PROVE Begin(t)
    <3> DEFINE end == OpenChannel(channels[route[1]]["A"]).chan
               p == [src |-> route[1], dst |-> route[2], seq |-> end.nextSeq]
    <3>0. route[1] \in Chains /\ route[2] \in Chains /\ MaxSend \in Nat
      BY Domains
    <3>1. channels[route[1]]["A"] \in Channel
      BY <3>0 DEF TInv, TypeOK
    <3>2. end.nextSeq \in Nat \ {0}
      BY <3>1, ChannelOperations, 1 \in Nat
    <3> HIDE DEF end
    <3>3. /\ Publish(t, "packet_created", p) /\ chainMutex = Free
          /\ pc[t] = "idle" /\ UNCHANGED <<heard, ibc_events, metrics>> /\ end.nextSeq <= MaxSend
      BY <2>2 DEF MakeAndPublish, trailVars, end
    <3>4. p \in Packets
      BY <3>0, <3>2, <3>3 DEF Packets
    <3> QED BY <1>6, <3>3, <3>4
  <2> QED BY <1>6, <2>1, <2>2 DEF Traffic
<1>7. ASSUME NEW t \in Threads, Step(t)
      PROVE  \/ \E s \in todo[t] : CallHandler(t, s)
             \/ Quiet \/ Write(t) \/ (t \in Idlers /\ Begin(t))
  <2>1. ASSUME Stamp(t) PROVE Quiet
    <3>1. /\ pc[t] = "publish" /\ pc' = [pc EXCEPT ![t] = "write"] /\ job' = job
          /\ UNCHANGED <<heard, todo, ibc_events>>
      BY <2>1 DEF Stamp, GoTo, trailVars
    <3>2. \A u \in Threads : pc'[u] \in PacketLabels <=> pc[u] \in PacketLabels
      BY <3>1 DEF TInv, TypeOK, PacketLabels
    <3> QED BY <2>1, <3>1, <3>2, WorkKept
  <2>2. ASSUME LogTx(t) \/ SendTx(t) PROVE Quiet
    <3>1. /\ \E label \in {"log", "send", "snapshot", "idle"} : pc' = [pc EXCEPT ![t] = label]
          /\ pc[t] \in {"log", "send"} /\ \A u \in Threads \ {t} : job'[u] = job[u]
          /\ UNCHANGED <<heard, todo, ibc_events, metrics>>
      BY <2>2 DEF LogTx, SendTx, WorkAt, GoTo, trailVars, TInv, TypeOK
    <3> QED BY <1>1, <3>1 DEF PacketLabels
  <2>3. ASSUME t \in Relayers, RelayPacket(t) \/ RelayAck(t) \/ NoAck(t) PROVE Quiet
    <3>1. /\ \E label \in {"acks", "idle"} : pc' = [pc EXCEPT ![t] = label]
          /\ pc[t] \in {"acks", "idle"} /\ \A u \in Threads \ {t} : job'[u] = job[u]
          /\ UNCHANGED <<heard, todo, ibc_events, metrics>>
      BY <2>3 DEF RelayPacket, RelayAck, NoAck, GoTo, trailVars
    <3> QED BY <1>1, <3>1 DEF PacketLabels
  <2>4. ASSUME t \in Chains, Snapshot(t) PROVE Quiet
    <3>1. /\ pc' = [pc EXCEPT ![t] = "idle"] /\ pc[t] = "snapshot"
          /\ \A u \in Threads \ {t} : job'[u] = job[u]
          /\ UNCHANGED <<heard, todo, ibc_events, metrics>>
      BY <2>4 DEF Snapshot, GoTo, trailVars
    <3> QED BY <1>1, <3>1 DEF PacketLabels
  <2>5. ASSUME t \in Chains, NEW msg \in transit, AcceptAndPublish(t, msg) PROVE Quiet \/ Begin(t)
    <3>1. /\ UNCHANGED <<heard, ibc_events>> /\ pc[t] = "idle" /\ msg.type = "Data"
          /\ chainMutex = Free
          /\ \/ Publish(t, "packet_received", msg.pkt) /\ UNCHANGED metrics
             \/ /\ pc' = [pc EXCEPT ![t] = "snapshot"] /\ UNCHANGED todo /\ job' = job
                /\ metrics' = [metrics EXCEPT !["ibc_packets_failed"] = @ + 1]
      BY <2>5 DEF AcceptAndPublish, GoTo, trailVars, Count
    <3>2. msg.pkt \in Packets
      BY <3>1, MessageTypes
    <3>3. CASE Publish(t, "packet_received", msg.pkt) /\ UNCHANGED metrics
      BY <3>1, <3>2, <3>3
    <3>4. CASE /\ pc' = [pc EXCEPT ![t] = "snapshot"] /\ UNCHANGED todo /\ job' = job
               /\ metrics' = [metrics EXCEPT !["ibc_packets_failed"] = @ + 1]
      <4>1. \A name \in Counters \ {"ibc_packets_failed"} : metrics'[name] = metrics[name]
        BY <3>4 DEF TInv, TypeOK
      <4> QED BY <1>1, <3>1, <3>4, <4>1 DEF PacketLabels
    <3> QED BY <3>1, <3>3, <3>4
  <2>6. ASSUME t \in Chains, NEW msg \in transit, PublishAck(t, msg) PROVE Begin(t)
    <3>1. /\ UNCHANGED <<heard, ibc_events, metrics>> /\ chainMutex = Free
          /\ pc[t] = "idle" /\ msg.type = "Ack" /\ Publish(t, "ack_received", msg.pkt)
      BY <2>6 DEF PublishAck, trailVars
    <3>2. msg.pkt \in Packets
      BY <3>1, MessageTypes
    <3> QED BY <3>1, <3>2
  <2>7. ASSUME t \in Chains, NEW msg \in transit, ReceiveTx(t, msg) PROVE Quiet
    <3>1. /\ pc' = [pc EXCEPT ![t] = "log"] /\ pc[t] = "idle"
          /\ \A u \in Threads \ {t} : job'[u] = job[u]
          /\ UNCHANGED <<heard, todo, ibc_events, metrics>>
      BY <2>7 DEF ReceiveTx, WorkAt, GoTo, trailVars, TInv, TypeOK
    <3> QED BY <1>1, <3>1 DEF PacketLabels
  <2> HIDE DEF Quiet, Begin
  <2> QED BY <1>7, <2>1, <2>2, <2>3, <2>4, <2>5, <2>6, <2>7 DEF Step, Idlers
<1> HIDE DEF Quiet, Begin
<1>8. \/ \E t \in Threads : \E s \in todo[t] : CallHandler(t, s)
      \/ Quiet \/ (\E t \in Threads : Write(t)) \/ \E t \in Idlers : Begin(t)
  BY <1>0, <1>2, <1>3, <1>4, <1>5, <1>6, <1>7 DEF Next, Terminated
<1> QED BY <1>8, Zenon DEF Quiet, Begin

\* An event at work that relayers hear of is not logged yet.
LEMMA NotYet ==
  ASSUME LogInv, NEW j \in Work, j.event \in {"packet_created", "ack_generated"}
  PROVE  ~Trail!Has(j.event, j.pkt)
<1>1. j \in PacketJobs /\ j.pkt \in Packets /\ j.pkt.src \in Chains /\ j.pkt.seq \in Nat
  BY WorkOf, PacketTypes DEF LogInv
<1>2. CASE j.event = "ack_generated"
  BY <1>2 DEF LogInv, TrailInv, Grounded
<1>3. CASE j.event = "packet_created"
  <2>1. Trail!Numbers("packet_created", "src", j.pkt.src) = 1..(j.pkt.seq - 1)
    BY <1>1, <1>3 DEF LogInv, TrailInv, InOrder
  <2>2. ASSUME Trail!Has("packet_created", j.pkt)
        PROVE  j.pkt.seq \in Trail!Numbers("packet_created", "src", j.pkt.src)
    BY <2>2 DEF Trail!Has, Trail!Numbers
  <2> QED BY <1>1, <1>3, <2>1, <2>2
<1> QED BY <1>2, <1>3

\* Handlers are called by the thread at work only.
LEMMA PendingAtWork ==
  ASSUME TInv
  PROVE  /\ Work = {} => \A t \in Threads : todo[t] = {}
         /\ \A t \in Threads : pc[t] \in PacketLabels => \A u \in Threads \ {t} : todo[u] = {}
<1>1. \A t \in Threads : todo[t] # {} => pc[t] \in PacketLabels
  BY DEF TInv, Working, PacketLabels
<1>2. Work = {} => \A t \in Threads : todo[t] = {}
  BY <1>1 DEF Work
<1>3. \A t \in Threads : pc[t] \in PacketLabels => \A u \in Threads \ {t} : todo[u] = {}
  BY <1>1, AtWork
<1> QED BY <1>2, <1>3

\* publish() is to call a handler of each relayer or of none.
LEMMA AllOrNone ==
  ASSUME TInv, BusInv, NEW t \in Idlers, pc[t] \notin {"none", "ended"},
         NEW event \in ChainEvents, NEW p \in Packets, Publish(t, event, p),
         \A u \in Threads \ {t} : todo[u] = {}
  PROVE  \A r, q \in Relayers : Pend(r)' => Pend(q)'
<1>0. t \in Threads
  BY Domains DEF Idlers
<1>1. /\ todo'[t] = Handlers(bus, Kind[event])
      /\ \A u \in Threads \ {t} : todo'[u] = {}
  BY <1>0 DEF Publish, WorkAt, TInv, TypeOK
<1>2. \A r \in Relayers : Pend(r)' <=> \E s \in bus.subs : s.kind = Kind[event] /\ s.handler = r
  BY <1>0, <1>1 DEF Pend, Handlers
<1>3. CASE Kind[event] \in SendKinds
  <2>1. \A r \in Relayers : pc[r] \notin NotRunning
    BY DEF BusInv, Running
  <2>2. \A r \in Relayers : \E s \in bus.subs : s.handler = r /\ s.kind = Kind[event]
    BY <1>3, <2>1 DEF BusInv, Subscribed, NotRunning
  <2> QED BY <1>2, <2>2
<1>4. CASE Kind[event] \notin SendKinds
  BY <1>2, <1>4 DEF BusInv, Subscribed
<1> QED BY <1>3, <1>4

\* A publish() begins: what was at work is logged, and all have heard the same.
LEMMA HeardBegins ==
  ASSUME LogInv, BusInv, HeardInv, NEW t \in Idlers, pc[t] \notin {"none", "ended"},
         NEW event \in ChainEvents, NEW p \in Packets, Publish(t, event, p), heard' = heard,
         \A u \in Threads : todo[u] = {},
         \A j \in Work : Trail!Has(j.event, j.pkt)',
         \A e, q : Trail!Has(e, q) => Trail!Has(e, q)'
  PROVE  HeardInv'
<1>1. \A r, q \in Relayers : Pend(r)' => Pend(q)'
  BY AllOrNone DEF LogInv
<1>2. \A r, q \in Relayers : heard[r] = heard[q]
  BY DEF HeardInv, Together, Pend
<1>3. Together'
  BY <1>1, <1>2 DEF Together
<1>4. HeardLogged'
  BY DEF HeardInv, HeardLogged
<1>5. HeardOnce'
  BY DEF HeardInv, HeardOnce
<1> QED BY <1>3, <1>4, <1>5 DEF HeardInv

LEMMA HeardWrite ==
  ASSUME LogInv, BusInv, HeardInv, NEW t \in Threads, Write(t) PROVE HeardInv'
<1> DEFINE line == [event |-> job[t].event, pkt |-> job[t].pkt, ts |-> stamp[t]]
<1>1. /\ pc[t] = "write" /\ ibc_events' = Append(ibc_events, line) /\ heard' = heard
      /\ Publish(t, "ack_generated", job[t].pkt) \/ todo' = todo
  BY DEF Write, LogIBCEvent
<1>2. pc[t] \in PacketLabels
  BY <1>1 DEF PacketLabels
<1>3. /\ job[t].pkt \in Packets /\ job[t].event \in ChainEvents /\ stamp[t] \in Nat
      /\ Work = {job[t]} /\ t \notin Relayers
  BY <1>2, AtWork, WorkOf DEF LogInv, TInv, TypeOK
<1>4. \A u \in Threads : todo[u] = {}
  BY <1>1, <1>2, PendingAtWork DEF LogInv, TInv, Working
<1>5. \A e, q : Trail!Has(e, q)' <=> Trail!Has(e, q) \/ (line.event = e /\ line.pkt = q)
  <2>1. line \in ChainLines
    BY <1>3, PacketTypes
  <2> HIDE DEF line
  <2> QED BY <1>1, <2>1, LineAppended DEF LogInv
<1>6. /\ \A j \in Work : Trail!Has(j.event, j.pkt)'
      /\ \A e, q : Trail!Has(e, q) => Trail!Has(e, q)'
  BY <1>3, <1>5
<1>7. CASE Publish(t, "ack_generated", job[t].pkt)
  <2>1. t \in Idlers /\ pc[t] \notin {"none", "ended"}
    BY <1>1, <1>3 DEF Idlers, Threads
  <2> QED BY <1>1, <1>3, <1>4, <1>6, <1>7, <2>1, HeardBegins DEF ChainEvents
<1>8. CASE todo' = todo
  <2>1. \A r \in Relayers : ~Pend(r) /\ ~Pend(r)'
    BY <1>4, <1>8 DEF Pend
  <2>2. Together'
    BY <1>1, <2>1 DEF HeardInv, Together
  <2>3. HeardLogged'
    BY <1>1, <1>6 DEF HeardInv, HeardLogged
  <2>4. HeardOnce'
    BY <1>1 DEF HeardInv, HeardOnce
  <2> QED BY <2>2, <2>3, <2>4 DEF HeardInv
<1> QED BY <1>1, <1>7, <1>8

LEMMA HeardCall ==
  ASSUME LogInv, BusInv, HeardInv, NEW t \in Threads, NEW s \in todo[t], CallHandler(t, s)
  PROVE  HeardInv'
<1> DEFINE r == s.handler
<1>0. /\ pc[t] = "publish" /\ job[t] \in PacketJobs /\ r \in Relayers
      /\ job[t].event \in ChainEvents /\ pc[t] \in PacketLabels
  BY Calling DEF LogInv, PacketLabels
<1>1. /\ todo' = [todo EXCEPT ![t] = @ \ {s}]
      /\ heard' = [heard EXCEPT ![r] = Append(@, job[t])]
      /\ pc' = pc /\ job' = job /\ ibc_events' = ibc_events
  BY DEF CallHandler, trailVars
<1>2. /\ Work = {job[t]} /\ Work' = Work
      /\ \A u \in Threads \ {t} : todo[u] = {}
  BY <1>0, <1>1, WorkOf, WorkKept, PendingAtWork DEF LogInv
<1>3. /\ heard \in [Relayers -> Seq(PacketJobs)]
      /\ todo'[t] = todo[t] \ {s} /\ \A u \in Threads \ {t} : todo'[u] = {}
  BY <1>1, <1>2 DEF LogInv, TInv, TypeOK
<1>4. \A q \in todo[t] : q.handler = r => q = s
  BY DEF BusInv, CopiedLive, Subscribed, LogInv, TodoFits
<1>5. /\ Pend(r) /\ ~Pend(r)'
      /\ \A q \in Relayers \ {r} : Pend(q)' <=> Pend(q)
  BY <1>2, <1>3, <1>4 DEF Pend
<1>6. job[t].event \in {"packet_created", "ack_generated"}
  <2>1. s.kind \in SendKinds /\ s.kind = Kind[job[t].event]
    BY DEF BusInv, CopiedLive, Subscribed, LogInv, TodoFits
  <2> QED BY <1>0, <2>1 DEF SendKinds, Kind, ChainEvents
<1>7. ~Trail!Has(job[t].event, job[t].pkt)
  BY <1>2, <1>6, NotYet
<1> HIDE DEF r
<1>8. /\ heard'[r] = Append(heard[r], job[t]) /\ heard[r] \in Seq(PacketJobs)
      /\ \A q \in Relayers \ {r} : heard'[q] = heard[q]
  BY <1>0, <1>1, <1>3
<1>9. Together'
  <2>1. \A q \in Relayers \ {r} : (Pend(q) => heard'[r] = Append(heard'[q], job[t]))
                                 /\ (~Pend(q) => heard'[r] = heard'[q])
    BY <1>0, <1>2, <1>5, <1>8 DEF HeardInv, Together
  <2>2. ASSUME NEW v \in Relayers, NEW q \in Relayers
        PROVE  /\ (Pend(v)' <=> Pend(q)') => heard'[v] = heard'[q]
               /\ Pend(q)' /\ ~Pend(v)' => \E j \in Work' : heard'[v] = Append(heard'[q], j)
    <3>1. CASE v = r /\ q = r
      BY <3>1
    <3>2. CASE v = r /\ q # r
      BY <1>2, <1>5, <2>1, <3>2
    <3>3. CASE v # r /\ q = r
      BY <1>2, <1>5, <2>1, <3>3
    <3>4. CASE v # r /\ q # r
      BY <1>2, <1>5, <1>8, <3>4 DEF HeardInv, Together
    <3> QED BY <3>1, <3>2, <3>3, <3>4
  <2> QED BY <2>2 DEF Together
<1>10. \A e, q : Trail!Has(e, q)' <=> Trail!Has(e, q)
  BY <1>1, LinesKept
<1>11. /\ DOMAIN heard'[r] = DOMAIN heard[r] \union {Len(heard[r]) + 1}
       /\ heard'[r][Len(heard[r]) + 1] = job[t]
       /\ \A k \in DOMAIN heard[r] : heard'[r][k] = heard[r][k]
  BY <1>8
<1>12. \A k \in DOMAIN heard[r] : Trail!Has(heard[r][k].event, heard[r][k].pkt)
  BY <1>0, <1>5 DEF HeardInv, HeardLogged
<1>13. HeardLogged'
  <2>1. ASSUME NEW q \in Relayers, q # r, NEW k \in DOMAIN heard'[q]
        PROVE  /\ heard'[q][k].event \in {"packet_created", "ack_generated"}
               /\ \/ Trail!Has(heard'[q][k].event, heard'[q][k].pkt)
                  \/ heard'[q][k] \in Work /\ ~Pend(q)
    BY <1>8, <2>1 DEF HeardInv, HeardLogged
  <2>2. ASSUME NEW k \in DOMAIN heard'[r]
        PROVE  /\ heard'[r][k].event \in {"packet_created", "ack_generated"}
               /\ \/ Trail!Has(heard'[r][k].event, heard'[r][k].pkt)
                  \/ heard'[r][k] \in Work
    <3>1. CASE k \in DOMAIN heard[r]
      BY <1>0, <1>11, <1>12, <3>1 DEF HeardInv, HeardLogged
    <3>2. CASE k = Len(heard[r]) + 1
      BY <1>2, <1>6, <1>11, <3>2
    <3> QED BY <1>11, <3>1, <3>2
  <2> QED BY <1>2, <1>5, <1>10, <2>1, <2>2 DEF HeardLogged
<1>14. HeardOnce'
  <2>1. ASSUME NEW i \in DOMAIN heard'[r], NEW k \in DOMAIN heard'[r], heard'[r][i] = heard'[r][k]
        PROVE  i = k
    <3>1. \A n \in DOMAIN heard[r] : heard[r][n] # job[t]
      BY <1>7, <1>12
    <3> QED BY <1>0, <1>11, <2>1, <3>1 DEF HeardInv, HeardOnce, IsInjective
  <2> QED BY <1>8, <2>1 DEF HeardInv, HeardOnce, IsInjective
<1> QED BY <1>9, <1>13, <1>14 DEF HeardInv

LEMMA HeardInit == Init => HeardInv
BY DEF Init, HeardInv, Together, HeardLogged, HeardOnce, Pend, IsInjective

LEMMA HeardStep == LogInv /\ BusInv /\ HeardInv /\ [Next]_vars => HeardInv'
<1> SUFFICES ASSUME LogInv, BusInv, HeardInv, [Next]_vars PROVE HeardInv'
  OBVIOUS
<1>1. ASSUME NEW t \in Idlers, NEW p \in Packets,
             NEW event \in {"packet_created", "packet_received", "ack_received"},
             Publish(t, event, p), chainMutex = Free, pc[t] = "idle",
             UNCHANGED <<heard, ibc_events>>
      PROVE  HeardInv'
  <2>1. Work = {} /\ \A u \in Threads : todo[u] = {}
    BY <1>1, WorkOf, PendingAtWork DEF LogInv
  <2>2. \A e, q : Trail!Has(e, q) => Trail!Has(e, q)'
    BY <1>1, LinesKept
  <2> QED BY <1>1, <2>1, <2>2, HeardBegins DEF ChainEvents
<1>2. CASE Work' = Work /\ UNCHANGED <<heard, todo, ibc_events>>
  <2>1. \A e, q : Trail!Has(e, q)' <=> Trail!Has(e, q)
    BY <1>2, LinesKept
  <2>2. \A r : Pend(r)' <=> Pend(r)
    BY <1>2 DEF Pend
  <2> QED BY <1>2, <2>1, <2>2, Zenon DEF HeardInv, Together, HeardLogged, HeardOnce, IsInjective
<1>3. TInv
  BY DEF LogInv
<1> QED BY <1>1, <1>2, <1>3, HeardSteps, HeardCall, HeardWrite

\* What relayers listen to
HeardEvents == {"packet_created", "ack_generated"}

\* What is at work each relayer heard, unless its handler is still to be called.
HeardAtWork ==
  \A r \in Relayers : \A j \in Work :
    j.event \in HeardEvents /\ ~Pend(r) => \E i \in DOMAIN heard[r] : heard[r][i] = j

\* What a relayer heard before what the k-th line tells, lines before that one tell.
HeardBefore(r, k, j) == \A i \in 1..(j - 1) : \E l \in 1..(k - 1) : Tells(l, heard[r][i])

HeardAsLogged ==
  \A r \in Relayers, k \in DOMAIN ibc_events :
    ibc_events[k].event \in HeardEvents =>
      \E j \in DOMAIN heard[r] : Tells(k, heard[r][j]) /\ HeardBefore(r, k, j)

OrderInv == HeardAtWork /\ HeardAsLogged

\* Hearing more changes nothing about what was heard before.
LEMMA LoggedStays ==
  ASSUME TInv, HeardAsLogged, ibc_events' = ibc_events,
         \A r \in Relayers : \A i \in DOMAIN heard[r] :
           i \in DOMAIN heard'[r] /\ heard'[r][i] = heard[r][i]
  PROVE  HeardAsLogged'
<1> SUFFICES ASSUME NEW r \in Relayers, NEW k \in DOMAIN ibc_events, ibc_events[k].event \in HeardEvents
             PROVE  \E j \in DOMAIN heard'[r] : Tells(k, heard[r][j])' /\ HeardBefore(r, k, j)'
  BY DEF HeardAsLogged
<1>1. PICK j \in DOMAIN heard[r] : Tells(k, heard[r][j]) /\ HeardBefore(r, k, j)
  BY DEF HeardAsLogged
<1>2. heard[r] \in Seq(PacketJobs)
  BY DEF TInv, TypeOK
<1>3. j \in DOMAIN heard[r] /\ \A i \in 1..(j - 1) : i \in DOMAIN heard[r]
  BY <1>1, <1>2
<1>4. HeardBefore(r, k, j)'
  BY <1>1, <1>3 DEF HeardBefore, Tells
<1> QED BY <1>1, <1>3, <1>4 DEF Tells

\* publish() is to call all relayers if the event is of a kind they listen to.
LEMMA AllToCall ==
  ASSUME TInv, BusInv, NEW t \in Idlers, pc[t] \notin {"none", "ended"},
         NEW event \in ChainEvents, NEW p \in Packets, Publish(t, event, p), event \in HeardEvents
  PROVE  \A r \in Relayers : Pend(r)'
<1>0. t \in Threads
  BY Domains DEF Idlers
<1>1. todo'[t] = Handlers(bus, Kind[event]) /\ Kind[event] \in SendKinds
  BY <1>0 DEF Publish, WorkAt, TInv, TypeOK, HeardEvents, Kind, SendKinds
<1>2. \A r \in Relayers : pc[r] \notin NotRunning
  BY DEF BusInv, Running
<1>3. \A r \in Relayers : \E s \in bus.subs : s.handler = r /\ s.kind = Kind[event]
  BY <1>1, <1>2 DEF BusInv, Subscribed, NotRunning
<1>4. \A r \in Relayers : \E s \in todo'[t] : s.handler = r
  BY <1>1, <1>3 DEF Handlers
<1> QED BY <1>0, <1>4 DEF Pend

LEMMA OrderCall ==
  ASSUME LogInv, BusInv, OrderInv, NEW t \in Threads, NEW s \in todo[t], CallHandler(t, s)
  PROVE  OrderInv'
<1> DEFINE r == s.handler
<1>0. /\ pc[t] = "publish" /\ job[t] \in PacketJobs /\ r \in Relayers /\ pc[t] \in PacketLabels
  BY Calling DEF LogInv, PacketLabels
<1>1. /\ todo' = [todo EXCEPT ![t] = @ \ {s}]
      /\ heard' = [heard EXCEPT ![r] = Append(@, job[t])]
      /\ pc' = pc /\ job' = job /\ ibc_events' = ibc_events
  BY DEF CallHandler, trailVars
<1>2. /\ Work = {job[t]} /\ Work' = Work
      /\ \A u \in Threads \ {t} : todo[u] = {}
  BY <1>0, <1>1, WorkOf, WorkKept, PendingAtWork DEF LogInv
<1>3. /\ heard \in [Relayers -> Seq(PacketJobs)]
      /\ todo'[t] = todo[t] \ {s} /\ \A u \in Threads \ {t} : todo'[u] = {}
  BY <1>1, <1>2 DEF LogInv, TInv, TypeOK
<1>4. \A q \in Relayers \ {r} : Pend(q) => Pend(q)'
  <2> SUFFICES ASSUME NEW q \in Relayers \ {r}, NEW u \in Threads, NEW x \in todo[u], x.handler = q
               PROVE  x \in todo'[u]
    BY DEF Pend
  <2> QED BY <1>2, <1>3
<1> HIDE DEF r
<1>5. /\ heard'[r] = Append(heard[r], job[t]) /\ heard[r] \in Seq(PacketJobs)
      /\ \A q \in Relayers \ {r} : heard'[q] = heard[q]
  BY <1>0, <1>1, <1>3
<1>6. /\ Len(heard[r]) + 1 \in DOMAIN heard'[r] /\ heard'[r][Len(heard[r]) + 1] = job[t]
      /\ \A i \in DOMAIN heard[r] : i \in DOMAIN heard'[r] /\ heard'[r][i] = heard[r][i]
  BY <1>0, <1>5
<1>7. HeardAtWork'
  <2> SUFFICES ASSUME NEW q \in Relayers, NEW j \in Work, j.event \in HeardEvents, ~Pend(q)'
               PROVE  \E i \in DOMAIN heard'[q] : heard'[q][i] = j
    BY <1>2 DEF HeardAtWork
  <2>1. CASE q = r
    BY <1>2, <1>6, <2>1
  <2>2. CASE q # r
    BY <1>4, <1>5, <2>2 DEF OrderInv, HeardAtWork
  <2> QED BY <2>1, <2>2
<1>8. HeardAsLogged'
  <2>1. ASSUME NEW q \in Relayers, NEW i \in DOMAIN heard[q]
        PROVE  i \in DOMAIN heard'[q] /\ heard'[q][i] = heard[q][i]
    BY <1>5, <1>6
  <2> QED BY <1>1, <2>1, LoggedStays DEF LogInv, OrderInv
<1> QED BY <1>7, <1>8 DEF OrderInv

\* The line of what is at work is the last, and of the events a relayer heard before it
\* none is at work: each has its line.
LEMMA OrderWrite ==
  ASSUME LogInv, BusInv, HeardInv, OrderInv, NEW t \in Threads, Write(t) PROVE OrderInv'
<1> DEFINE line == [event |-> job[t].event, pkt |-> job[t].pkt, ts |-> stamp[t]]
           last == Len(ibc_events) + 1
           next == IF t \in Senders THEN "idle" ELSE "snapshot"
<1>1. /\ pc[t] = "write" /\ ibc_events' = Append(ibc_events, line) /\ heard' = heard
      /\ Publish(t, "ack_generated", job[t].pkt) \/ pc' = [pc EXCEPT ![t] = next]
  BY DEF Write, LogIBCEvent, WorkAt, GoTo
<1>2. pc[t] \in PacketLabels
  BY <1>1 DEF PacketLabels
<1>3. /\ job[t].pkt \in Packets /\ job[t].event \in ChainEvents /\ job[t] \in PacketJobs
      /\ stamp[t] \in Nat /\ Work = {job[t]} /\ t \notin Relayers
      /\ heard \in [Relayers -> Seq(PacketJobs)] /\ ibc_events \in Seq(ChainLines)
  BY <1>2, AtWork, WorkOf DEF LogInv, TInv, TypeOK
<1>4. /\ DOMAIN ibc_events' = DOMAIN ibc_events \union {last} /\ ibc_events'[last] = line
      /\ \A k \in DOMAIN ibc_events : ibc_events'[k] = ibc_events[k]
      /\ DOMAIN ibc_events = 1..(last - 1) /\ last \in Nat
  <2>1. line \in ChainLines
    BY <1>3, PacketTypes
  <2> HIDE DEF line
  <2> QED BY <1>1, <1>3, <2>1
<1>5. \A r \in Relayers : ~Pend(r)
  <2>1. \A u \in Threads : todo[u] = {}
    BY <1>1, <1>2, PendingAtWork DEF LogInv, TInv, Working
  <2> QED BY <2>1 DEF Pend
<1>6. HeardAtWork'
  <2>1. CASE Publish(t, "ack_generated", job[t].pkt)
    <3>1. t \in Idlers /\ pc[t] \notin {"none", "ended"}
      BY <1>1, <1>3 DEF Idlers, Threads
    <3>2. \A r \in Relayers : Pend(r)'
      BY <1>3, <2>1, <3>1, AllToCall DEF LogInv, HeardEvents, ChainEvents
    <3> QED BY <3>2 DEF HeardAtWork
  <2>2. CASE pc' = [pc EXCEPT ![t] = next]
    <3>1. pc'[t] \notin PacketLabels /\ \A u \in Threads \ {t} : pc'[u] = pc[u]
      BY <2>2 DEF LogInv, TInv, TypeOK, PacketLabels
    <3>2. \A u \in Threads \ {t} : pc[u] \notin PacketLabels
      BY <1>2, AtWork DEF LogInv
    <3>3. Work' = {}
      BY <3>1, <3>2 DEF Work
    <3> QED BY <3>3 DEF HeardAtWork
  <2> QED BY <1>1, <2>1, <2>2
<1>7. HeardAsLogged'
  <2> SUFFICES ASSUME NEW r \in Relayers, NEW k \in DOMAIN ibc_events', ibc_events'[k].event \in HeardEvents
               PROVE  \E j \in DOMAIN heard[r] : Tells(k, heard[r][j])' /\ HeardBefore(r, k, j)'
    BY <1>1 DEF HeardAsLogged
  <2> HIDE DEF last
  <2>1. CASE k \in DOMAIN ibc_events
    <3>1. PICK j \in DOMAIN heard[r] : Tells(k, heard[r][j]) /\ HeardBefore(r, k, j)
      BY <1>4, <2>1 DEF OrderInv, HeardAsLogged
    <3>2. \A l \in 1..(k - 1) : ibc_events'[l] = ibc_events[l]
      BY <1>4, <2>1
    <3>3. HeardBefore(r, k, j)'
      BY <1>1, <3>1, <3>2 DEF HeardBefore, Tells
    <3>4. Tells(k, heard[r][j])'
      BY <1>1, <1>4, <2>1, <3>1 DEF Tells
    <3> QED BY <3>1, <3>3, <3>4
  <2>2. CASE k = last
    <3>1. ibc_events'[k].event = job[t].event /\ ibc_events'[k].pkt = job[t].pkt
      BY <1>4, <2>2
    <3>2. PICK j \in DOMAIN heard[r] : heard[r][j] = job[t]
      BY <1>3, <1>5, <3>1 DEF OrderInv, HeardAtWork
    <3>3. Tells(k, heard[r][j])'
      BY <1>1, <3>1, <3>2 DEF Tells
    <3>4. ASSUME NEW i \in 1..(j - 1) PROVE \E l \in 1..(k - 1) : Tells(l, heard[r][i])'
      <4>1. i \in DOMAIN heard[r] /\ i # j
        BY <1>3, <3>2
      <4>2. heard[r][i] # job[t]
        BY <3>2, <4>1 DEF HeardInv, HeardOnce, IsInjective
      <4>3. Trail!Has(heard[r][i].event, heard[r][i].pkt)
        BY <1>3, <4>1, <4>2 DEF HeardInv, HeardLogged
      <4>4. PICK l \in DOMAIN ibc_events :
              ibc_events[l].event = heard[r][i].event /\ ibc_events[l].pkt = heard[r][i].pkt
        BY <4>3 DEF Trail!Has
      <4>5. l \in 1..(k - 1)
        BY <1>4, <2>2, <4>4
      <4> QED BY <1>1, <1>4, <4>4, <4>5 DEF Tells
    <3>5. HeardBefore(r, k, j)'
      BY <3>4 DEF HeardBefore
    <3> QED BY <3>2, <3>3, <3>5
  <2> QED BY <1>4, <2>1, <2>2
<1> QED BY <1>6, <1>7 DEF OrderInv

LEMMA OrderInit == Init => OrderInv
BY DEF Init, OrderInv, HeardAtWork, HeardAsLogged, Work, PacketLabels

LEMMA OrderStep == LogInv /\ BusInv /\ HeardInv /\ OrderInv /\ [Next]_vars => OrderInv'
<1> SUFFICES ASSUME LogInv, BusInv, HeardInv, OrderInv, [Next]_vars PROVE OrderInv'
  OBVIOUS
<1>0. TInv
  BY DEF LogInv
<1>1. ASSUME UNCHANGED <<heard, ibc_events>> PROVE HeardAsLogged'
  BY <1>0, <1>1, LoggedStays DEF OrderInv
<1>2. ASSUME NEW t \in Idlers, NEW p \in Packets,
             NEW event \in {"packet_created", "packet_received", "ack_received"},
             Publish(t, event, p), chainMutex = Free, pc[t] = "idle",
             UNCHANGED <<heard, ibc_events>>
      PROVE  OrderInv'
  <2>1. Work' = {On(event, p)} /\ pc[t] \notin {"none", "ended"}
    BY <1>0, <1>2, WorkTaken, Domains DEF Idlers
  <2>2. CASE event \in HeardEvents
    <3>1. \A r \in Relayers : Pend(r)'
      BY <1>0, <1>2, <2>1, <2>2, AllToCall DEF ChainEvents
    <3> QED BY <1>1, <1>2, <3>1 DEF OrderInv, HeardAtWork
  <2>3. CASE event \notin HeardEvents
    <3>1. HeardAtWork'
      BY <2>1, <2>3 DEF HeardAtWork, On
    <3> QED BY <1>1, <1>2, <3>1 DEF OrderInv
  <2> QED BY <2>2, <2>3
<1>3. CASE Work' = Work /\ UNCHANGED <<heard, todo, ibc_events>>
  <2>1. \A r : Pend(r)' <=> Pend(r)
    BY <1>3 DEF Pend
  <2>2. HeardAtWork'
    BY <1>3, <2>1 DEF OrderInv, HeardAtWork
  <2> QED BY <1>1, <1>3, <2>2 DEF OrderInv
<1> QED BY <1>0, <1>2, <1>3, HeardSteps, OrderCall, OrderWrite

\* All relayers hear the same events in the same order, one at most is a call ahead of
\* another, and none hears an event twice; and they hear them in the order of their
\* lines: chains do not publish at once, nor between a publish() and its line.
THEOREM HeardInOneOrder == Spec => []SameOrder
<1>1. ASSUME TInv, HeardInv, OrderInv PROVE SameOrder
  <2>0. \A r \in Relayers, k \in DOMAIN ibc_events :
          ibc_events[k].event \in {"packet_created", "ack_generated"} =>
            \E j \in DOMAIN heard[r] :
              Tells(k, heard[r][j]) /\ \A i \in 1..(j - 1) : \E l \in 1..(k - 1) : Tells(l, heard[r][i])
    BY <1>1 DEF OrderInv, HeardAsLogged, HeardBefore, HeardEvents
  <2> SUFFICES ASSUME NEW r \in Relayers, NEW s \in Relayers
               PROVE  /\ IsPrefix(heard[r], heard[s]) \/ IsPrefix(heard[s], heard[r])
                      /\ Len(heard[r]) <= Len(heard[s]) + 1
                      /\ IsInjective(heard[r])
    BY <2>0 DEF SameOrder
  <2>1. heard[r] \in Seq(PacketJobs) /\ heard[s] \in Seq(PacketJobs)
    BY <1>1 DEF TInv, TypeOK
  <2>2. ASSUME NEW u \in Seq(PacketJobs), NEW v \in Seq(PacketJobs), NEW j \in PacketJobs, v = Append(u, j)
        PROVE  IsPrefix(u, v) /\ Len(v) = Len(u) + 1
    BY <2>2 DEF IsPrefix
  <2>3. ASSUME NEW u \in Seq(PacketJobs) PROVE IsPrefix(u, u)
    BY DEF IsPrefix
  <2>4. /\ \/ heard[r] = heard[s]
           \/ \E j \in PacketJobs : heard[r] = Append(heard[s], j)
           \/ \E j \in PacketJobs : heard[s] = Append(heard[r], j)
    BY <1>1, WorkOf DEF HeardInv, Together
  <2>5. IsInjective(heard[r])
    BY <1>1 DEF HeardInv, HeardOnce
  <2> QED BY <2>1, <2>2, <2>3, <2>4, <2>5
<1> DEFINE Inv == LogInv /\ BusInv /\ HeardInv /\ OrderInv
<1>2. Init => Inv
  BY LogInvInit, BusInvInit, HeardInit, OrderInit
<1>3. Inv /\ [Next]_vars => Inv'
  BY LogInvStep, BusInvStep, HeardStep, OrderStep DEF LogInv
<1>4. LogInv => TInv
  BY DEF LogInv
<1> QED BY <1>1, <1>2, <1>3, <1>4, PTL DEF Spec

-----------------------------------------------------------------------------
(* transactions.jsonl *)

TxHas(event, n) == \E k \in DOMAIN transactions : transactions[k].event = event /\ transactions[k].tx = n

\* A transaction is with one thread, or under way, or done with.
OneHolder ==
  /\ \A t, u \in Threads : pc[t] \in TxLabels /\ pc[u] \in TxLabels /\ job[t].tx = job[u].tx => t = u
  /\ \A t \in Threads : \A msg \in transit :
       pc[t] \in TxLabels /\ msg.type = "Tx" => job[t].tx # msg.tx
  /\ \A msg, m \in transit : msg.type = "Tx" /\ m.type = "Tx" /\ msg.tx = m.tx => msg = m

\* Numbers not yet given out are nowhere.
Fresh ==
  /\ \A k \in DOMAIN transactions : transactions[k].tx < nextTx
  /\ \A t \in Threads : pc[t] \in TxLabels => job[t].tx < nextTx
  /\ \A msg \in transit : msg.type = "Tx" => msg.tx < nextTx

\* What is logged of a transaction when it is with somebody
Phases ==
  /\ \A t \in Threads : pc[t] = "log" =>
       /\ \A event \in TxEvents : TxHas(event, job[t].tx) => job[t].event # "created"
       /\ job[t].event = "submitted" =>
            /\ TxHas("created", job[t].tx) /\ ~TxHas("submitted", job[t].tx)
            /\ ~TxHas("received", job[t].tx)
       /\ job[t].event = "received" =>
            TxHas("submitted", job[t].tx) /\ ~TxHas("received", job[t].tx)
  /\ \A t \in Threads : pc[t] = "send" =>
       TxHas("submitted", job[t].tx) /\ ~TxHas("received", job[t].tx)
  /\ \A msg \in transit : msg.type = "Tx" =>
       TxHas("submitted", msg.tx) /\ ~TxHas("received", msg.tx)

TxInv == OneHolder /\ Fresh /\ Phases /\ TxOrdered

\* The steps that matter to transactions
LEMMA TxSteps ==
  ASSUME TInv, [Next]_vars
  PROVE  \/ \E t \in Senders, c \in Chains : NewTx(t, c)
         \/ \E t \in Threads : LogTx(t) \/ SendTx(t)
         \/ \E c \in Chains, msg \in transit : ReceiveTx(c, msg)
         \/ /\ UNCHANGED <<transactions, nextTx>>
            /\ \A t \in Threads : pc'[t] \in TxLabels => pc'[t] = pc[t] /\ job'[t] = job[t]
            /\ \A msg \in transit' : msg.type = "Tx" => msg \in transit
<1> DEFINE Quiet == /\ UNCHANGED <<transactions, nextTx>>
                    /\ \A t \in Threads : pc'[t] \in TxLabels => pc'[t] = pc[t] /\ job'[t] = job[t]
                    /\ \A msg \in transit' : msg.type = "Tx" => msg \in transit
<1>0. /\ \A t \in Senders : t \in Threads
      /\ \A r \in Relayers : r \in Threads
  BY Domains
<1>1. ASSUME NEW t \in Threads, NEW label, label \notin TxLabels, pc' = [pc EXCEPT ![t] = label],
             \A u \in Threads \ {t} : job'[u] = job[u], UNCHANGED <<transactions, nextTx>>,
             \A msg \in transit' : msg.type = "Tx" => msg \in transit
      PROVE  Quiet
  BY <1>1 DEF TInv, TypeOK
<1>2. ASSUME UNCHANGED vars \/ (\E r \in Relayers : StopRelayer(r)) PROVE Quiet
  BY <1>2 DEF vars, StopRelayer
<1>3. ASSUME NEW r \in Relayers, Construct(r) \/ Destroy(r) PROVE Quiet
  <2>1. /\ \E label \in {"constructed", "destroyed"} : pc' = [pc EXCEPT ![r] = label]
        /\ \A u \in Threads \ {r} : job'[u] = job[u]
        /\ UNCHANGED <<transactions, nextTx, transit>>
    BY <1>3 DEF Construct, Destroy, GoTo
  <2> QED BY <1>0, <1>1, <2>1 DEF TxLabels
<1>4. ASSUME Start PROVE Quiet
  BY <1>4 DEF Start, TxLabels
<1>5. ASSUME NEW t \in Threads, End(t) PROVE Quiet
  <2>1. /\ pc' = [pc EXCEPT ![t] = "ended"] /\ \A u \in Threads \ {t} : job'[u] = job[u]
        /\ UNCHANGED <<transactions, nextTx, transit>>
    BY <1>5 DEF End, GoTo
  <2> QED BY <1>1, <2>1 DEF TxLabels
<1>6. ASSUME NEW t \in Threads, NEW event, NEW p, Publish(t, event, p),
             UNCHANGED <<transactions, nextTx>>, transit' \subseteq transit
      PROVE  Quiet
  <2>1. pc' = [pc EXCEPT ![t] = "publish"] /\ \A u \in Threads \ {t} : job'[u] = job[u]
    BY <1>6 DEF Publish, WorkAt, GoTo, TInv, TypeOK
  <2> QED BY <1>1, <1>6, <2>1 DEF TxLabels
<1>7. ASSUME NEW t \in Senders, NEW route \in Routes, MakeAndPublish(t, route) PROVE Quiet
  BY <1>0, <1>6, <1>7 DEF MakeAndPublish
<1>8. ASSUME NEW t \in Threads, Step(t)
      PROVE  Quiet \/ LogTx(t) \/ SendTx(t) \/ \E c \in Chains, msg \in transit : ReceiveTx(c, msg)
  <2>1. ASSUME NEW s \in todo[t], CallHandler(t, s) PROVE Quiet
    BY <2>1 DEF CallHandler
  <2>2. ASSUME Stamp(t) PROVE Quiet
    <3>1. /\ pc' = [pc EXCEPT ![t] = "write"] /\ \A u \in Threads \ {t} : job'[u] = job[u]
          /\ UNCHANGED <<transactions, nextTx, transit>>
      BY <2>2 DEF Stamp, GoTo
    <3> QED BY <1>1, <3>1 DEF TxLabels
  <2>3. ASSUME Write(t) PROVE Quiet
    <3>1. /\ UNCHANGED <<transactions, nextTx, transit>>
          /\ \/ Publish(t, "ack_generated", job[t].pkt)
             \/ /\ \E label \in {"idle", "snapshot"} : pc' = [pc EXCEPT ![t] = label]
                /\ \A u \in Threads \ {t} : job'[u] = job[u]
      BY <2>3 DEF Write, WorkAt, GoTo, TInv, TypeOK
    <3> QED BY <1>1, <1>6, <3>1 DEF TxLabels
  <2>4. ASSUME t \in Relayers, RelayPacket(t) \/ RelayAck(t) \/ NoAck(t) PROVE Quiet
    <3>1. /\ \E label \in {"acks", "idle"} : pc' = [pc EXCEPT ![t] = label]
          /\ \A u \in Threads \ {t} : job'[u] = job[u] /\ UNCHANGED <<transactions, nextTx>>
      BY <2>4 DEF RelayPacket, RelayAck, NoAck, GoTo
    <3>2. \A msg \in transit' : msg.type = "Tx" => msg \in transit
      <4>1. CASE RelayPacket(t)
        <5>1. \/ transit' = transit
              \/ transit' = transit \union {[type |-> "Data", pkt |-> Head(pendingPackets[t]), via |-> t]}
          BY <4>1 DEF RelayPacket, Relay
        <5> QED BY <5>1
      <4>2. CASE RelayAck(t)
        <5>1. \/ transit' = transit
              \/ transit' = transit \union {[type |-> "Ack", pkt |-> Head(pendingAcks[t]), via |-> t]}
          BY <4>2 DEF RelayAck, Relay
        <5> QED BY <5>1
      <4>3. CASE NoAck(t)
        BY <4>3 DEF NoAck
      <4> QED BY <2>4, <4>1, <4>2, <4>3
    <3> QED BY <1>0, <1>1, <2>4, <3>1, <3>2 DEF TxLabels, NoAck, RelayPacket, RelayAck
  <2>5. ASSUME t \in Chains, Snapshot(t) PROVE Quiet
    <3>1. /\ pc' = [pc EXCEPT ![t] = "idle"] /\ \A u \in Threads \ {t} : job'[u] = job[u]
          /\ UNCHANGED <<transactions, nextTx, transit>>
      BY <2>5 DEF Snapshot, GoTo
    <3> QED BY <1>1, <3>1 DEF TxLabels
  <2>6. ASSUME t \in Chains, NEW msg \in transit, AcceptAndPublish(t, msg) PROVE Quiet
    <3>1. /\ UNCHANGED <<transactions, nextTx>> /\ transit' \subseteq transit
          /\ \/ Publish(t, "packet_received", msg.pkt)
             \/ /\ pc' = [pc EXCEPT ![t] = "snapshot"] /\ \A u \in Threads \ {t} : job'[u] = job[u]
      BY <2>6 DEF AcceptAndPublish, GoTo
    <3> QED BY <1>1, <1>6, <3>1 DEF TxLabels
  <2>7. ASSUME t \in Chains, NEW msg \in transit, PublishAck(t, msg) PROVE Quiet
    <3>1. /\ UNCHANGED <<transactions, nextTx>> /\ transit' \subseteq transit
          /\ Publish(t, "ack_received", msg.pkt)
      BY <2>7 DEF PublishAck
    <3> QED BY <1>6, <3>1
  <2> HIDE DEF Quiet
  <2> QED BY <1>8, <2>1, <2>2, <2>3, <2>4, <2>5, <2>6, <2>7 DEF Step
<1> HIDE DEF Quiet
<1>9. \/ \E t \in Senders, c \in Chains : NewTx(t, c)
      \/ \E t \in Threads : LogTx(t) \/ SendTx(t)
      \/ \E c \in Chains, msg \in transit : ReceiveTx(c, msg)
      \/ Quiet
  BY <1>2, <1>3, <1>4, <1>5, <1>7, <1>8 DEF Next, Terminated, Traffic
<1> QED BY <1>9, Zenon DEF Quiet

LEMMA LineLogged ==
  ASSUME TInv, TxOrdered, NEW j \in TxJobs, transactions' = Append(transactions, j),
         ~TxHas(j.event, j.tx),
         j.event = "submitted" => TxHas("created", j.tx),
         j.event = "received" => TxHas("submitted", j.tx)
  PROVE  /\ TxOrdered'
         /\ \A event, n : TxHas(event, n)' <=> TxHas(event, n) \/ (event = j.event /\ n = j.tx)
<1>1. /\ DOMAIN transactions = 1..Len(transactions) /\ Len(transactions) \in Nat
      /\ DOMAIN transactions' = 1..(Len(transactions) + 1)
      /\ \A k \in 1..Len(transactions) : transactions'[k] = transactions[k]
      /\ transactions'[Len(transactions) + 1] = j
  BY DEF TInv, TypeOK
<1>2. ASSUME NEW event, NEW n
      PROVE  TxHas(event, n)' <=> TxHas(event, n) \/ (event = j.event /\ n = j.tx)
  <2>1. TxHas(event, n) => TxHas(event, n)'
    BY <1>1 DEF TxHas
  <2>2. event = j.event /\ n = j.tx => TxHas(event, n)'
    <3>1. Len(transactions) + 1 \in DOMAIN transactions'
      BY <1>1
    <3> QED BY <1>1, <3>1 DEF TxHas
  <2>3. TxHas(event, n)' => TxHas(event, n) \/ (event = j.event /\ n = j.tx)
    BY <1>1 DEF TxHas
  <2> QED BY <2>1, <2>2, <2>3
<1>3. ASSUME NEW k \in DOMAIN transactions'
      PROVE  LET before(event) == {i \in 1..(k - 1) : transactions'[i].event = event
                                                 /\ transactions'[i].tx = transactions'[k].tx}
             IN  /\ before(transactions'[k].event) = {}
                 /\ transactions'[k].event = "submitted" => before("created") # {}
                 /\ transactions'[k].event = "received" => before("submitted") # {}
  <2>1. CASE k \in DOMAIN transactions
    <3>1. /\ transactions'[k] = transactions[k]
          /\ \A i \in 1..(k - 1) : transactions'[i] = transactions[i]
      BY <1>1, <2>1
    <3> QED BY <2>1, <3>1 DEF TxOrdered
  <2>2. CASE k = Len(transactions) + 1
    <3>1. /\ transactions'[k] = j /\ 1..(k - 1) = DOMAIN transactions
          /\ \A i \in 1..(k - 1) : transactions'[i] = transactions[i]
      BY <1>1, <2>2
    <3> QED BY <3>1 DEF TxHas
  <2> QED BY <1>1, <2>1, <2>2
<1> QED BY <1>2, <1>3 DEF TxOrdered

LEMMA TxNumbers ==
  ASSUME TInv
  PROVE  /\ nextTx \in Nat
         /\ \A k \in DOMAIN transactions : transactions[k].tx \in Nat
         /\ \A t \in Threads : pc[t] \in TxLabels => job[t].tx \in Nat
         /\ \A msg \in transit : msg.type = "Tx" => msg \in TxMessages /\ msg.tx \in Nat
<1>1. nextTx \in Nat
  BY Domains DEF TInv, TypeOK
<1>2. ASSUME NEW k \in DOMAIN transactions PROVE transactions[k].tx \in Nat
  <2>1. transactions[k] \in TxJobs
    BY <1>2 DEF TInv, TypeOK
  <2> QED BY <2>1, Domains DEF TxJobs
<1>3. ASSUME NEW t \in Threads, pc[t] \in TxLabels PROVE job[t].tx \in Nat
  BY <1>3, AtTx, Domains
<1>4. ASSUME NEW msg \in transit, msg.type = "Tx" PROVE msg \in TxMessages /\ msg.tx \in Nat
  <2>1. msg \in PacketMessages \union TxMessages
    BY DEF TInv, TypeOK
  <2>2. msg \in TxMessages
    BY <1>4, <2>1 DEF PacketMessages
  <2> QED BY <2>2, Domains DEF TxMessages
<1> QED BY <1>1, <1>2, <1>3, <1>4

\* Nobody has the transaction that comes next, and nothing is logged of it.
LEMMA NobodyHas ==
  ASSUME TInv, TxInv
  PROVE  /\ \A event : ~TxHas(event, nextTx)
         /\ \A t \in Threads : pc[t] \in TxLabels => job[t].tx # nextTx
         /\ \A msg \in transit : msg.type = "Tx" => msg.tx # nextTx
<1>1. nextTx \in Nat /\ \A k \in DOMAIN transactions : transactions[k].tx \in Nat
  BY TxNumbers
<1>2. \A t \in Threads : pc[t] \in TxLabels => job[t].tx \in Nat
  BY AtTx, Domains
<1> QED BY <1>1, <1>2 DEF TxInv, Fresh, TxHas

LEMMA TxNew ==
  ASSUME TInv, TxInv, NEW t \in Senders, NEW c \in Chains, NewTx(t, c) PROVE TxInv'
<1> DEFINE work == [event |-> "created", tx |-> nextTx, to |-> c]
<1>1. /\ t \in Threads /\ pc' = [pc EXCEPT ![t] = "log"] /\ job' = [job EXCEPT ![t] = work]
      /\ pc[t] = "idle" /\ nextTx' = nextTx + 1 /\ UNCHANGED <<transactions, transit>>
  BY Domains DEF NewTx, WorkAt, GoTo
<1>2. /\ pc'[t] = "log" /\ job'[t] = work /\ work.tx = nextTx /\ work.event = "created"
      /\ \A u \in Threads \ {t} : pc'[u] = pc[u] /\ job'[u] = job[u]
  BY <1>1 DEF TInv, TypeOK
<1> HIDE DEF work
<1>3. /\ nextTx \in Nat /\ \A k \in DOMAIN transactions : transactions[k].tx \in Nat
      /\ \A msg \in transit : msg.type = "Tx" => msg.tx \in Nat
  BY TxNumbers
<1>4. \A u \in Threads : pc[u] \in TxLabels => job[u].tx \in Nat
  BY TxNumbers
<1>5. OneHolder'
  BY <1>1, <1>2, NobodyHas DEF TxInv, OneHolder
<1>6. Fresh'
  BY <1>1, <1>2, <1>3, <1>4 DEF TxInv, Fresh
<1>7. \A event, n : TxHas(event, n)' <=> TxHas(event, n)
  BY <1>1 DEF TxHas
<1>8. Phases'
  <2>1. ASSUME NEW u \in Threads, pc'[u] = "log"
        PROVE  /\ \A event \in TxEvents : TxHas(event, job[u].tx)' => job'[u].event # "created"
               /\ job'[u].event = "submitted" =>
                    /\ TxHas("created", job[u].tx)' /\ ~TxHas("submitted", job[u].tx)'
                    /\ ~TxHas("received", job[u].tx)'
               /\ job'[u].event = "received" =>
                    TxHas("submitted", job[u].tx)' /\ ~TxHas("received", job[u].tx)'
    BY <1>2, <1>7, <2>1, NobodyHas DEF TxInv, Phases
  <2>2. ASSUME NEW u \in Threads, pc'[u] = "send"
        PROVE  TxHas("submitted", job[u].tx)' /\ ~TxHas("received", job[u].tx)'
    BY <1>2, <1>7, <2>2 DEF TxInv, Phases
  <2>3. \A msg \in transit' : msg.type = "Tx" =>
          TxHas("submitted", msg.tx)' /\ ~TxHas("received", msg.tx)'
    BY <1>1, <1>7 DEF TxInv, Phases
  <2> QED BY <2>1, <2>2, <2>3 DEF Phases
<1> QED BY <1>1, <1>5, <1>6, <1>8 DEF TxInv, TxOrdered

\* What holds of a transaction that a thread or a message carries
Carried(event, n) ==
  /\ event = "created" => \A e \in TxEvents : ~TxHas(e, n)
  /\ event = "submitted" =>
       TxHas("created", n) /\ ~TxHas("submitted", n) /\ ~TxHas("received", n)
  /\ event = "received" => TxHas("submitted", n) /\ ~TxHas("received", n)

\* Lines of one transaction leave the others as they are.
LEMMA CarriedKept ==
  ASSUME NEW j \in TxJobs, NEW event, NEW n, n # j.tx, Carried(event, n),
         \A e, m : TxHas(e, m)' <=> TxHas(e, m) \/ (e = j.event /\ m = j.tx)
  PROVE  Carried(event, n)'
BY DEF Carried

LEMMA PhasesCarried ==
  ASSUME TInv
  PROVE  Phases <=> /\ \A t \in Threads : pc[t] = "log" => Carried(job[t].event, job[t].tx)
                    /\ \A t \in Threads : pc[t] = "send" => Carried("received", job[t].tx)
                    /\ \A msg \in transit : msg.type = "Tx" => Carried("received", msg.tx)
BY DEF Phases, Carried

LEMMA TxLogged ==
  ASSUME TInv, TxInv, NEW t \in Threads, LogTx(t) PROVE TxInv'
<1> DEFINE j == job[t]
<1>1. /\ pc[t] = "log" /\ transactions' = Append(transactions, j)
      /\ \/ /\ j.event = "created" /\ pc' = [pc EXCEPT ![t] = "log"]
            /\ job' = [job EXCEPT ![t] = [j EXCEPT !.event = "submitted"]]
         \/ j.event = "submitted" /\ job' = job /\ pc' = [pc EXCEPT ![t] = "send"]
         \/ /\ j.event = "received" /\ pc' = [pc EXCEPT ![t] = "snapshot"]
            /\ job' = [job EXCEPT ![t] = NoJob]
      /\ UNCHANGED <<transit, nextTx>>
  BY DEF LogTx, WorkAt, GoTo, LogTransactionEvent
<1>2. j \in TxJobs /\ pc[t] \in TxLabels
  BY <1>1, AtTx DEF TxLabels
<1>3. \A u \in Threads \ {t} : pc'[u] = pc[u] /\ job'[u] = job[u]
  BY <1>1 DEF TInv, TypeOK
<1>4. \/ /\ j.event = "created" /\ pc'[t] = "log"
         /\ job'[t].event = "submitted" /\ job'[t].tx = j.tx
      \/ j.event = "submitted" /\ pc'[t] = "send" /\ job'[t] = j
      \/ j.event = "received" /\ pc'[t] = "snapshot"
  <2>1. CASE pc' = [pc EXCEPT ![t] = "log"]
    <3>1. pc'[t] = "log" /\ j.event = "created" /\ job'[t] = [j EXCEPT !.event = "submitted"]
      BY <1>1, <2>1 DEF TInv, TypeOK
    <3> QED BY <1>2, <3>1 DEF TxJobs
  <2> QED BY <1>1, <2>1 DEF TInv, TypeOK
<1>5. Carried(j.event, j.tx)
  BY <1>1, PhasesCarried DEF TxInv
<1> HIDE DEF j
<1>6. j.event \in TxEvents
  BY <1>2 DEF TxJobs
<1>7. /\ TxOrdered'
      /\ \A event, n : TxHas(event, n)' <=> TxHas(event, n) \/ (event = j.event /\ n = j.tx)
  BY <1>1, <1>2, <1>5, <1>6, LineLogged DEF TxInv, Carried, TxEvents
<1>8. OneHolder'
  BY <1>1, <1>2, <1>3, <1>4 DEF TxInv, OneHolder, TxLabels, j
<1>9. Fresh'
  <2>1. \A k \in DOMAIN transactions' : transactions'[k].tx < nextTx'
    <3>1. j.tx < nextTx
      BY <1>2 DEF TxInv, Fresh, j
    <3> QED BY <1>1, <3>1 DEF TxInv, Fresh, TInv, TypeOK
  <2> QED BY <1>1, <1>2, <1>3, <1>4, <2>1 DEF TxInv, Fresh, TxLabels, j
<1>10. Phases'
  <2>1. \A e, n : n # j.tx /\ Carried(e, n) => Carried(e, n)'
    BY <1>2, <1>7, CarriedKept
  <2>2. ASSUME NEW u \in Threads, u # t, pc'[u] \in TxLabels
        PROVE  pc[u] = pc'[u] /\ job[u] = job'[u] /\ job[u].tx # j.tx
    BY <1>2, <1>3, <2>2 DEF TxInv, OneHolder, j
  <2>3. ASSUME NEW u \in Threads, pc'[u] = "log" PROVE Carried(job[u].event, job[u].tx)'
    <3>1. CASE u = t
      BY <1>4, <1>5, <1>7, <2>3, <3>1 DEF Carried, TxEvents
    <3>2. CASE u # t
      BY <2>1, <2>2, <2>3, <3>2, PhasesCarried DEF TxInv, TxLabels
    <3> QED BY <3>1, <3>2
  <2>4. ASSUME NEW u \in Threads, pc'[u] = "send" PROVE Carried("received", job[u].tx)'
    <3>1. CASE u = t
      BY <1>4, <1>5, <1>7, <2>4, <3>1 DEF Carried, TxEvents
    <3>2. CASE u # t
      BY <2>1, <2>2, <2>4, <3>2, PhasesCarried DEF TxInv, TxLabels
    <3> QED BY <3>1, <3>2
  <2>5. ASSUME NEW msg \in transit, msg.type = "Tx" PROVE Carried("received", msg.tx)'
    BY <1>2, <2>1, <2>5, PhasesCarried DEF TxInv, OneHolder, j
  <2> QED BY <1>1, <2>3, <2>4, <2>5 DEF Phases, Carried
<1> QED BY <1>7, <1>8, <1>9, <1>10 DEF TxInv

\* A transaction changes hands and nothing is logged.
LEMMA Handed ==
  ASSUME TInv, TxInv, UNCHANGED <<transactions, nextTx>>,
         OneHolder',
         \A t \in Threads : pc'[t] \in TxLabels =>
           \/ pc'[t] = pc[t] /\ job'[t] = job[t]
           \/ /\ pc'[t] = "log" /\ job'[t].event = "received"
              /\ \E msg \in transit : msg.type = "Tx" /\ msg.tx = job'[t].tx,
         \A msg \in transit' : msg.type = "Tx" =>
           msg \in transit \/ \E t \in Threads : pc[t] = "send" /\ job[t].tx = msg.tx
  PROVE  TxInv'
<1>1. \A event, n : TxHas(event, n)' <=> TxHas(event, n)
  BY DEF TxHas
<1>2. \A event, n : Carried(event, n) => Carried(event, n)'
  BY <1>1 DEF Carried
<1>3. Fresh'
  <2>1. \A t \in Threads : pc'[t] \in TxLabels => job'[t].tx < nextTx
    BY DEF TxInv, Fresh
  <2>2. \A msg \in transit' : msg.type = "Tx" => msg.tx < nextTx
    BY DEF TxInv, Fresh, TxLabels
  <2> QED BY <2>1, <2>2 DEF TxInv, Fresh
<1>4. ASSUME NEW t \in Threads, pc'[t] = "log" PROVE Carried(job[t].event, job[t].tx)'
  <2>1. CASE pc'[t] = pc[t] /\ job'[t] = job[t]
    BY <1>2, <1>4, <2>1, PhasesCarried DEF TxInv
  <2>2. CASE /\ job'[t].event = "received"
             /\ \E msg \in transit : msg.type = "Tx" /\ msg.tx = job'[t].tx
    <3>1. Carried("received", job[t].tx)'
      BY <1>2, <2>2, PhasesCarried DEF TxInv
    <3> QED BY <2>2, <3>1 DEF Carried
  <2> QED BY <1>4, <2>1, <2>2 DEF TxLabels
<1>5. ASSUME NEW t \in Threads, pc'[t] = "send" PROVE Carried("received", job[t].tx)'
  BY <1>2, <1>5, PhasesCarried DEF TxInv, TxLabels
<1>6. ASSUME NEW msg \in transit', msg.type = "Tx" PROVE Carried("received", msg.tx)'
  BY <1>2, <1>6, PhasesCarried DEF TxInv
<1>7. Phases'
  BY <1>4, <1>5, <1>6 DEF Phases, Carried
<1> QED BY <1>3, <1>7 DEF TxInv, TxOrdered

LEMMA TxSent ==
  ASSUME TInv, TxInv, NEW t \in Threads, SendTx(t) PROVE TxInv'
<1> DEFINE msg == [type |-> "Tx", tx |-> job[t].tx, to |-> job[t].to]
<1>1. /\ pc[t] = "send" /\ transit' = transit \union {msg}
      /\ pc'[t] = "idle" /\ \A u \in Threads \ {t} : pc'[u] = pc[u] /\ job'[u] = job[u]
      /\ UNCHANGED <<transactions, nextTx>>
  BY DEF SendTx, WorkAt, GoTo, TInv, TypeOK
<1>2. msg.type = "Tx" /\ msg.tx = job[t].tx
  OBVIOUS
<1> HIDE DEF msg
<1>3. \A u \in Threads : pc'[u] \in TxLabels => u # t /\ pc'[u] = pc[u] /\ job'[u] = job[u]
  BY <1>1 DEF TxLabels
<1>4. OneHolder'
  <2>1. \A u, v \in Threads :
          pc'[u] \in TxLabels /\ pc'[v] \in TxLabels /\ job'[u].tx = job'[v].tx => u = v
    BY <1>3 DEF TxInv, OneHolder
  <2>2. \A u \in Threads : \A m \in transit' :
          pc'[u] \in TxLabels /\ m.type = "Tx" => job'[u].tx # m.tx
    BY <1>1, <1>2, <1>3 DEF TxInv, OneHolder, TxLabels
  <2>3. \A m \in transit : m.type = "Tx" => m.tx # msg.tx
    BY <1>1, <1>2 DEF TxInv, OneHolder, TxLabels
  <2>4. \A m, n \in transit' : m.type = "Tx" /\ n.type = "Tx" /\ m.tx = n.tx => m = n
    BY <1>1, <2>3 DEF TxInv, OneHolder
  <2> QED BY <2>1, <2>2, <2>4 DEF OneHolder
<1> QED BY <1>1, <1>2, <1>3, <1>4, Handed

LEMMA TxReceived ==
  ASSUME TInv, TxInv, NEW c \in Chains, NEW msg \in transit, ReceiveTx(c, msg) PROVE TxInv'
<1>1. /\ c \in Threads /\ msg.type = "Tx" /\ transit' = transit \ {msg}
      /\ pc'[c] = "log" /\ job'[c] = [event |-> "received", tx |-> msg.tx, to |-> c]
      /\ \A u \in Threads \ {c} : pc'[u] = pc[u] /\ job'[u] = job[u]
      /\ UNCHANGED <<transactions, nextTx>>
  BY Domains DEF ReceiveTx, WorkAt, GoTo, TInv, TypeOK
<1>2. job'[c].event = "received" /\ job'[c].tx = msg.tx
  BY <1>1
<1>3. OneHolder'
  BY <1>1, <1>2 DEF TxInv, OneHolder
<1>4. \A t \in Threads : pc'[t] \in TxLabels =>
        \/ pc'[t] = pc[t] /\ job'[t] = job[t]
        \/ /\ pc'[t] = "log" /\ job'[t].event = "received"
           /\ \E m \in transit : m.type = "Tx" /\ m.tx = job'[t].tx
  BY <1>1, <1>2
<1>5. \A m \in transit' : m \in transit
  BY <1>1
<1> QED BY <1>1, <1>3, <1>4, <1>5, Handed

\* transactions.jsonl: a transaction is logged as created, submitted and received, in
\* that order and once each, for its number is given out once, the sender logs before it
\* sends, and the message is handed to one node once.
THEOREM TransactionsInOrder == Spec => []TxOrdered
<1>1. Init => TxInv
  <2>1. ASSUME Init PROVE \A t \in Threads : pc[t] \notin TxLabels
    BY <2>1 DEF Init, TxLabels
  <2>2. ASSUME Init PROVE TxOrdered /\ transit = {} /\ DOMAIN transactions = {}
    BY <2>2 DEF Init, TxOrdered
  <2> QED BY <2>1, <2>2 DEF TxInv, OneHolder, Fresh, Phases, TxLabels
<1>2. TInv /\ TxInv /\ [Next]_vars => TxInv'
  <2> SUFFICES ASSUME TInv, TxInv, [Next]_vars PROVE TxInv'
    OBVIOUS
  <2>1. CASE /\ UNCHANGED <<transactions, nextTx>>
             /\ \A t \in Threads : pc'[t] \in TxLabels => pc'[t] = pc[t] /\ job'[t] = job[t]
             /\ \A msg \in transit' : msg.type = "Tx" => msg \in transit
    <3>1. OneHolder'
      BY <2>1 DEF TxInv, OneHolder
    <3> QED BY <2>1, <3>1, Handed
  <2> QED BY <2>1, TxSteps, TxNew, TxLogged, TxSent, TxReceived
<1>3. TxInv => TxOrdered
  BY DEF TxInv
<1> QED BY <1>1, <1>2, <1>3, TypeInit, TypeStep, PTL DEF Spec

-----------------------------------------------------------------------------
(* relayer_state_*.jsonl *)

RelayLine(event, p, r) == [event |-> event, pkt |-> p, by |-> r]

\* r's handlers were called with that event of p.
Told(r, event, p) == \E k \in DOMAIN heard[r] : heard[r][k].event = event /\ heard[r][k].pkt = p

\* What waits in one of the queues of r waits there once, was told and is not relayed;
\* what is relayed was told.
OnceIn(r, queue, cause, event) ==
  /\ IsInjective(queue)
  /\ \A p \in Packets :
       /\ In(p, queue) => Told(r, cause, p) /\ RelayLine(event, p, r) \notin relayed
       /\ RelayLine(event, p, r) \in relayed => Told(r, cause, p)

OnceEach ==
  \A r \in Relayers :
    /\ OnceIn(r, pendingPackets[r], "packet_created", "packet_relayed")
    /\ OnceIn(r, pendingAcks[r], "ack_generated", "ack_relayed")

Attempts(s) == s.packets + s.acks + s.failures

StatesInv ==
  /\ IsFiniteSet(relayed)
  /\ \A r \in Relayers :
       /\ Len(relayer_state[r]) = Attempts(statistics[r])
       /\ \A k \in DOMAIN relayer_state[r] : Attempts(relayer_state[r][k]) = k
       /\ statistics[r].packets = WrittenBy(r, "packet_relayed")
       /\ statistics[r].acks = WrittenBy(r, "ack_relayed")

\* The steps that matter to the relayers' files
LEMMA FileSteps ==
  ASSUME TInv, [Next]_vars
  PROVE  \/ \E r \in Relayers : RelayPacket(r) \/ RelayAck(r)
         \/ \E t \in Threads : \E s \in todo[t] : CallHandler(t, s)
         \/ UNCHANGED <<queueVars, relayed, relayer_state, statistics, heard>>
<1> DEFINE Quiet == UNCHANGED <<queueVars, relayed, relayer_state, statistics, heard>>
<1>1. ASSUME UNCHANGED vars PROVE Quiet
  BY <1>1 DEF vars, trailVars
<1>2. ASSUME NEW r \in Relayers, Construct(r) \/ StopRelayer(r) \/ Destroy(r) PROVE Quiet
  BY <1>2 DEF Construct, StopRelayer, Destroy, trailVars
<1>3. ASSUME Start PROVE Quiet
  BY <1>3 DEF Start, trailVars
<1>4. ASSUME NEW t \in Threads, End(t) PROVE Quiet
  BY <1>4 DEF End, trailVars
<1>5. ASSUME NEW t \in Senders, Traffic(t) PROVE Quiet
  BY <1>5 DEF Traffic, MakeAndPublish, NewTx, trailVars
<1>6. ASSUME NEW t \in Threads, Step(t)
      PROVE  \/ \E s \in todo[t] : CallHandler(t, s)
             \/ t \in Relayers /\ (RelayPacket(t) \/ RelayAck(t))
             \/ Quiet
  <2>1. ASSUME Stamp(t) \/ Write(t) \/ LogTx(t) \/ SendTx(t) \/ NoAck(t) \/ Snapshot(t) PROVE Quiet
    BY <2>1 DEF Stamp, Write, LogTx, SendTx, NoAck, Snapshot, trailVars
  <2>2. ASSUME NEW msg \in transit, AcceptAndPublish(t, msg) \/ PublishAck(t, msg) \/ ReceiveTx(t, msg)
        PROVE  Quiet
    BY <2>2 DEF AcceptAndPublish, PublishAck, ReceiveTx, trailVars
  <2> HIDE DEF Quiet
  <2> QED BY <1>6, <2>1, <2>2 DEF Step
<1> HIDE DEF Quiet
<1>7. \/ \E r \in Relayers : RelayPacket(r) \/ RelayAck(r)
      \/ \E t \in Threads : \E s \in todo[t] : CallHandler(t, s)
      \/ Quiet
  BY <1>1, <1>2, <1>3, <1>4, <1>5, <1>6 DEF Next, Terminated
<1> QED BY <1>7 DEF Quiet

\* Sequences without repetition stay so at both ends.
LEMMA NoRepetition ==
  ASSUME NEW S, NEW s \in Seq(S), IsInjective(s)
  PROVE  /\ \A x \in S : ~In(x, s) => IsInjective(Append(s, x))
         /\ s # <<>> => IsInjective(Tail(s)) /\ ~In(Head(s), Tail(s))
<1>1. ASSUME NEW x \in S, ~In(x, s) PROVE IsInjective(Append(s, x))
  BY <1>1 DEF In, IsInjective
<1>2. ASSUME s # <<>> PROVE IsInjective(Tail(s)) /\ ~In(Head(s), Tail(s))
  <2>1. \A k \in DOMAIN Tail(s) : k + 1 \in DOMAIN s /\ Tail(s)[k] = s[k + 1] /\ k \in Nat
    BY <1>2
  <2>2. 1 \in DOMAIN s /\ Head(s) = s[1]
    BY <1>2
  <2>3. IsInjective(Tail(s))
    BY <2>1 DEF IsInjective
  <2>4. ~In(Head(s), Tail(s))
    <3> SUFFICES ASSUME NEW k \in DOMAIN Tail(s), Tail(s)[k] = Head(s) PROVE FALSE
      BY DEF In
    <3>1. k + 1 = 1
      BY <2>1, <2>2 DEF IsInjective
    <3>2. k \in 1..(Len(s) - 1)
      BY <1>2
    <3> QED BY <3>1, <3>2
  <2> QED BY <2>3, <2>4
<1> QED BY <1>1, <1>2

\* One attempt to relay: the counts and the file of the relayer move on together.
LEMMA AttemptCounted ==
  ASSUME TInv, StatesInv, NEW r \in Relayers, NEW p \in Packets, NEW event, NEW type,
         \/ event = "packet_relayed" /\ type = "Data"
         \/ event = "ack_relayed" /\ type = "Ack",
         Relay(r, event, type, p), RelayLine(event, p, r) \notin relayed
  PROVE  StatesInv'
<1> DEFINE line == RelayLine(event, p, r)
           old == statistics[r]
           new == statistics'[r]
<1>1. /\ \/ /\ relayed' = relayed \union {line}
            /\ statistics' = IF type = "Data" THEN [statistics EXCEPT ![r].packets = @ + 1]
                             ELSE [statistics EXCEPT ![r].acks = @ + 1]
         \/ statistics' = [statistics EXCEPT ![r].failures = @ + 1] /\ relayed' = relayed
      /\ relayer_state' = [relayer_state EXCEPT ![r] = Append(@, statistics'[r])]
  BY DEF Relay, LogRelayerState, RelayLine
<1>2. /\ relayer_state \in [Relayers -> Seq([packets : Nat, acks : Nat, failures : Nat])]
      /\ statistics \in [Relayers -> [packets : Nat, acks : Nat, failures : Nat]]
      /\ line \notin relayed /\ line.event = event /\ line.by = r
  BY DEF TInv, TypeOK, RelayLine
<1>3. /\ old \in [packets : Nat, acks : Nat, failures : Nat]
      /\ \A q \in Relayers \ {r} : statistics'[q] = statistics[q]
  BY <1>1, <1>2
<1>4. \/ /\ relayed' = relayed \union {line} /\ event = "packet_relayed"
         /\ new.packets = old.packets + 1 /\ new.acks = old.acks /\ new.failures = old.failures
      \/ /\ relayed' = relayed \union {line} /\ event = "ack_relayed"
         /\ new.packets = old.packets /\ new.acks = old.acks + 1 /\ new.failures = old.failures
      \/ /\ relayed' = relayed
         /\ new.packets = old.packets /\ new.acks = old.acks /\ new.failures = old.failures + 1
  <2>0. statistics \in [Relayers -> [packets : Nat, acks : Nat, failures : Nat]]
    BY <1>2
  <2>1. ASSUME statistics' = [statistics EXCEPT ![r].failures = @ + 1]
        PROVE  new.packets = old.packets /\ new.acks = old.acks /\ new.failures = old.failures + 1
    BY ONLY <2>0, <2>1, r \in Relayers
  <2>2. ASSUME statistics' = [statistics EXCEPT ![r].packets = @ + 1]
        PROVE  new.packets = old.packets + 1 /\ new.acks = old.acks /\ new.failures = old.failures
    BY ONLY <2>0, <2>2, r \in Relayers
  <2>3. ASSUME statistics' = [statistics EXCEPT ![r].acks = @ + 1]
        PROVE  new.packets = old.packets /\ new.acks = old.acks + 1 /\ new.failures = old.failures
    BY ONLY <2>0, <2>3, r \in Relayers
  <2> QED BY <1>1, <2>1, <2>2, <2>3
<1> HIDE DEF line
<1>5. IsFiniteSet(relayed')
  BY <1>4, FS_AddElement DEF StatesInv
<1>6. ASSUME NEW q \in Relayers, NEW e
      PROVE  /\ q = r /\ e = event /\ relayed' = relayed \union {line} =>
                  WrittenBy(q, e)' = WrittenBy(q, e) + 1
             /\ ~(q = r /\ e = event) \/ relayed' = relayed => WrittenBy(q, e)' = WrittenBy(q, e)
  <2> DEFINE before == {l \in relayed : l.event = e /\ l.by = q}
             after == {l \in relayed' : l.event = e /\ l.by = q}
  <2>1. /\ q = r /\ e = event /\ relayed' = relayed \union {line} => after = before \union {line}
        /\ ~(q = r /\ e = event) /\ relayed' = relayed \union {line} => after = before
        /\ relayed' = relayed => after = before
        /\ line \notin before
    BY <1>2
  <2>2. IsFiniteSet(before)
    BY FS_Subset DEF StatesInv
  <2>3. WrittenBy(q, e) = Cardinality(before) /\ WrittenBy(q, e)' = Cardinality(after)
    BY DEF WrittenBy
  <2> HIDE DEF before, after
  <2> QED BY <1>4, <2>1, <2>2, <2>3, FS_AddElement
<1>7. ASSUME NEW q \in Relayers
      PROVE  /\ statistics'[q].packets = WrittenBy(q, "packet_relayed")'
             /\ statistics'[q].acks = WrittenBy(q, "ack_relayed")'
  <2>1. CASE q # r
    BY <1>3, <1>6, <2>1, <1>4 DEF StatesInv
  <2>2. CASE q = r
    BY <1>4, <1>6, <2>2 DEF StatesInv
  <2> QED BY <2>1, <2>2
<1>8. /\ relayer_state[r] \in Seq([packets : Nat, acks : Nat, failures : Nat])
      /\ relayer_state'[r] = Append(relayer_state[r], new)
      /\ \A q \in Relayers \ {r} : relayer_state'[q] = relayer_state[q]
  BY <1>1, <1>2
<1>9. Attempts(new) = Attempts(old) + 1 /\ Attempts(old) \in Nat
  BY <1>3, <1>4 DEF Attempts
<1>10. ASSUME NEW q \in Relayers
       PROVE  /\ Len(relayer_state'[q]) = Attempts(statistics'[q])
              /\ \A k \in DOMAIN relayer_state'[q] : Attempts(relayer_state'[q][k]) = k
  <2>1. CASE q # r
    BY <1>3, <1>8, <2>1 DEF StatesInv
  <2>2. CASE q = r
    <3>1. Len(relayer_state[r]) = Attempts(old)
      BY DEF StatesInv
    <3>2. /\ Len(relayer_state'[r]) = Len(relayer_state[r]) + 1
          /\ relayer_state'[r][Len(relayer_state[r]) + 1] = new
          /\ \A k \in DOMAIN relayer_state'[r] :
               \/ k = Len(relayer_state[r]) + 1
               \/ k \in DOMAIN relayer_state[r] /\ relayer_state'[r][k] = relayer_state[r][k]
      BY <1>8
    <3> QED BY <1>9, <2>2, <3>1, <3>2 DEF StatesInv
  <2> QED BY <2>1, <2>2
<1> QED BY <1>5, <1>7, <1>10 DEF StatesInv, Attempts

\* r takes p from a queue and relays it or drops it.
LEMMA TakenOnce ==
  ASSUME TInv, NEW r \in Relayers, NEW queue \in Seq(Packets), queue # <<>>,
         NEW cause, NEW event, OnceIn(r, queue, cause, event), heard' = heard,
         relayed' \in {relayed, relayed \union {RelayLine(event, Head(queue), r)}}
  PROVE  OnceIn(r, Tail(queue), cause, event)'
<1>1. IsInjective(Tail(queue)) /\ ~In(Head(queue), Tail(queue))
  BY NoRepetition DEF OnceIn
<1>2. In(Head(queue), queue) /\ \A p : In(p, Tail(queue)) => In(p, queue)
  BY Copies, HeadTailType
<1>3. Head(queue) \in Packets
  BY HeadTailType
<1>4. ASSUME NEW p \in Packets, RelayLine(event, p, r) \in relayed'
      PROVE  RelayLine(event, p, r) \in relayed \/ p = Head(queue)
  BY <1>4 DEF RelayLine
<1>5. \A p : Told(r, cause, p)' <=> Told(r, cause, p)
  BY DEF Told
<1>6. ASSUME NEW p \in Packets
      PROVE  /\ In(p, Tail(queue)) => Told(r, cause, p) /\ RelayLine(event, p, r) \notin relayed'
             /\ RelayLine(event, p, r) \in relayed' => Told(r, cause, p)
  BY <1>1, <1>2, <1>3, <1>4 DEF OnceIn
<1> QED BY <1>1, <1>5, <1>6 DEF OnceIn

\* Queues that stay as they are, while more is heard, and lines of other queues are written
LEMMA KeptOnce ==
  ASSUME NEW r \in Relayers, NEW queue, NEW cause, NEW event, OnceIn(r, queue, cause, event),
         \A p : Told(r, cause, p) => Told(r, cause, p)',
         \A p : RelayLine(event, p, r) \in relayed' <=> RelayLine(event, p, r) \in relayed
  PROVE  OnceIn(r, queue, cause, event)'
BY DEF OnceIn

LEMMA OnceRelay ==
  ASSUME TInv, OnceEach, StatesInv, NEW r \in Relayers, RelayPacket(r) \/ RelayAck(r)
  PROVE  (OnceEach /\ StatesInv)'
<1>0. /\ pendingPackets \in [Relayers -> Seq(Packets)] /\ pendingAcks \in [Relayers -> Seq(Packets)]
      /\ heard' = heard
  BY DEF TInv, TypeOK, RelayPacket, RelayAck
<1>1. \A q, cause, p : Told(q, cause, p)' <=> Told(q, cause, p)
  BY <1>0 DEF Told
<1>2. ASSUME NEW line, NEW q \in Relayers, NEW event, relayed' \in {relayed, relayed \union {line}},
             line.by # q \/ line.event # event
      PROVE  \A p : RelayLine(event, p, q) \in relayed' <=> RelayLine(event, p, q) \in relayed
  BY <1>2 DEF RelayLine
<1>3. CASE RelayPacket(r)
  <2> DEFINE p == Head(pendingPackets[r])
             line == RelayLine("packet_relayed", p, r)
  <2>1. /\ pendingPackets[r] # <<>> /\ pendingPackets' = [pendingPackets EXCEPT ![r] = Tail(@)]
        /\ pendingAcks' = pendingAcks /\ Relay(r, "packet_relayed", "Data", p)
        /\ relayed' \in {relayed, relayed \union {line}}
    BY <1>3 DEF RelayPacket, Relay, RelayLine
  <2>2. p \in Packets /\ In(p, pendingPackets[r])
    <3>1. pendingPackets[r] \in Seq(Packets)
      BY <1>0
    <3>2. p \in Packets
      BY <2>1, <3>1, HeadTailType
    <3> QED BY <2>1, <3>1, <3>2, Copies
  <2>3. line \notin relayed /\ line.by = r /\ line.event = "packet_relayed"
    BY <2>2 DEF OnceEach, OnceIn, RelayLine
  <2>4. StatesInv'
    BY <2>1, <2>2, <2>3, AttemptCounted
  <2>5. ASSUME NEW q \in Relayers
        PROVE  OnceIn(q, pendingPackets[q], "packet_created", "packet_relayed")'
    <3>1. CASE q = r
      <4>1. ASSUME NEW queue, queue = pendingPackets[r] PROVE OnceIn(r, Tail(queue), "packet_created", "packet_relayed")'
        <5>1. queue \in Seq(Packets) /\ queue # <<>> /\ OnceIn(r, queue, "packet_created", "packet_relayed")
          BY <1>0, <2>1, <4>1 DEF OnceEach
        <5>2. relayed' \in {relayed, relayed \union {RelayLine("packet_relayed", Head(queue), r)}}
          BY <2>1, <4>1
        <5> QED BY <1>0, <5>1, <5>2, TakenOnce
      <4>2. pendingPackets'[r] = Tail(pendingPackets[r])
        BY <1>0, <2>1
      <4> QED BY <3>1, <4>1, <4>2
    <3>2. CASE q # r
      <4>1. \A x : RelayLine("packet_relayed", x, q) \in relayed' <=> RelayLine("packet_relayed", x, q) \in relayed
        BY <1>2, <2>1, <2>3, <3>2
      <4>2. pendingPackets'[q] = pendingPackets[q]
        BY <1>0, <2>1, <3>2
      <4> QED BY <1>1, <4>1, <4>2, KeptOnce DEF OnceEach
    <3> QED BY <3>1, <3>2
  <2>6. ASSUME NEW q \in Relayers PROVE OnceIn(q, pendingAcks[q], "ack_generated", "ack_relayed")'
    <3>1. \A x : RelayLine("ack_relayed", x, q) \in relayed' <=> RelayLine("ack_relayed", x, q) \in relayed
      BY <1>2, <2>1, <2>3
    <3> QED BY <1>1, <2>1, <3>1, KeptOnce DEF OnceEach
  <2> QED BY <2>4, <2>5, <2>6 DEF OnceEach
<1>4. CASE RelayAck(r)
  <2> DEFINE p == Head(pendingAcks[r])
             line == RelayLine("ack_relayed", p, r)
  <2>1. /\ pendingAcks[r] # <<>> /\ pendingAcks' = [pendingAcks EXCEPT ![r] = Tail(@)]
        /\ pendingPackets' = pendingPackets /\ Relay(r, "ack_relayed", "Ack", p)
        /\ relayed' \in {relayed, relayed \union {line}}
    BY <1>4 DEF RelayAck, Relay, RelayLine
  <2>2. p \in Packets /\ In(p, pendingAcks[r])
    <3>1. pendingAcks[r] \in Seq(Packets)
      BY <1>0
    <3>2. p \in Packets
      BY <2>1, <3>1, HeadTailType
    <3> QED BY <2>1, <3>1, <3>2, Copies
  <2>3. line \notin relayed /\ line.by = r /\ line.event = "ack_relayed"
    BY <2>2 DEF OnceEach, OnceIn, RelayLine
  <2>4. StatesInv'
    BY <2>1, <2>2, <2>3, AttemptCounted
  <2>5. ASSUME NEW q \in Relayers PROVE OnceIn(q, pendingAcks[q], "ack_generated", "ack_relayed")'
    <3>1. CASE q = r
      <4>1. ASSUME NEW queue, queue = pendingAcks[r] PROVE OnceIn(r, Tail(queue), "ack_generated", "ack_relayed")'
        <5>1. queue \in Seq(Packets) /\ queue # <<>> /\ OnceIn(r, queue, "ack_generated", "ack_relayed")
          BY <1>0, <2>1, <4>1 DEF OnceEach
        <5>2. relayed' \in {relayed, relayed \union {RelayLine("ack_relayed", Head(queue), r)}}
          BY <2>1, <4>1
        <5> QED BY <1>0, <5>1, <5>2, TakenOnce
      <4>2. pendingAcks'[r] = Tail(pendingAcks[r])
        BY <1>0, <2>1
      <4> QED BY <3>1, <4>1, <4>2
    <3>2. CASE q # r
      <4>1. \A x : RelayLine("ack_relayed", x, q) \in relayed' <=> RelayLine("ack_relayed", x, q) \in relayed
        BY <1>2, <2>1, <2>3, <3>2
      <4>2. pendingAcks'[q] = pendingAcks[q]
        BY <1>0, <2>1, <3>2
      <4> QED BY <1>1, <4>1, <4>2, KeptOnce DEF OnceEach
    <3> QED BY <3>1, <3>2
  <2>6. ASSUME NEW q \in Relayers
        PROVE  OnceIn(q, pendingPackets[q], "packet_created", "packet_relayed")'
    <3>1. \A x : RelayLine("packet_relayed", x, q) \in relayed' <=> RelayLine("packet_relayed", x, q) \in relayed
      BY <1>2, <2>1, <2>3
    <3> QED BY <1>1, <2>1, <3>1, KeptOnce DEF OnceEach
  <2> QED BY <2>4, <2>5, <2>6 DEF OnceEach
<1> QED BY <1>3, <1>4

\* What is heard for the first time neither waits nor is relayed.
LEMMA PutOnce ==
  ASSUME NEW r \in Relayers, NEW queue \in Seq(Packets), NEW p \in Packets,
         NEW cause, NEW event, OnceIn(r, queue, cause, event), relayed' = relayed,
         ~Told(r, cause, p), \A x : Told(r, cause, x)' <=> Told(r, cause, x) \/ x = p
  PROVE  OnceIn(r, Append(queue, p), cause, event)'
<1>1. ~In(p, queue) /\ RelayLine(event, p, r) \notin relayed
  BY DEF OnceIn
<1>2. IsInjective(Append(queue, p))
  BY <1>1, NoRepetition DEF OnceIn
<1>3. \A x \in Packets : In(x, Append(queue, p)) => x = p \/ In(x, queue)
  BY Copies
<1>4. ASSUME NEW x \in Packets
      PROVE  /\ In(x, Append(queue, p)) => Told(r, cause, x)' /\ RelayLine(event, x, r) \notin relayed'
             /\ RelayLine(event, x, r) \in relayed' => Told(r, cause, x)'
  BY <1>1, <1>3 DEF OnceIn
<1> QED BY <1>2, <1>4 DEF OnceIn

LEMMA OnceCall ==
  ASSUME LogInv, BusInv, OnceEach, SameOrder', NEW t \in Threads, NEW s \in todo[t],
         CallHandler(t, s)
  PROVE  OnceEach'
<1> DEFINE r == s.handler
           p == job[t].pkt
           event == job[t].event
<1>0. /\ p \in Packets /\ r \in Relayers /\ job[t] \in PacketJobs /\ event \in ChainEvents /\ TInv
      /\ pendingPackets \in [Relayers -> Seq(Packets)] /\ pendingAcks \in [Relayers -> Seq(Packets)]
      /\ heard \in [Relayers -> Seq(PacketJobs)]
  BY Calling DEF LogInv, TInv, TypeOK
<1>1. /\ heard' = [heard EXCEPT ![r] = Append(@, job[t])] /\ relayed' = relayed
      /\ \/ /\ s.kind = "IBCPacketSend" /\ pendingAcks' = pendingAcks
            /\ pendingPackets' = [pendingPackets EXCEPT ![r] = Append(@, p)]
         \/ /\ s.kind = "IBCAckSend" /\ pendingPackets' = pendingPackets
            /\ pendingAcks' = [pendingAcks EXCEPT ![r] = Append(@, p)]
         \/ UNCHANGED <<pendingPackets, pendingAcks>>
  BY DEF CallHandler, trailVars, queueVars
<1>2. /\ s.kind = "IBCPacketSend" => event = "packet_created"
      /\ s.kind = "IBCAckSend" => event = "ack_generated"
  <2>1. s.kind = Kind[event]
    BY DEF LogInv, TodoFits
  <2> QED BY <1>0, <2>1 DEF Kind, ChainEvents
<1> HIDE DEF r, p, event
<1>3. /\ heard'[r] = Append(heard[r], job[t]) /\ heard[r] \in Seq(PacketJobs)
      /\ \A q \in Relayers \ {r} : heard'[q] = heard[q]
  BY <1>0, <1>1
<1>4. \A q \in Relayers \ {r} : \A cause, x : Told(q, cause, x)' <=> Told(q, cause, x)
  BY <1>3 DEF Told
<1>5. \A cause, x : Told(r, cause, x)' <=> Told(r, cause, x) \/ (cause = event /\ x = p)
  <2>1. /\ DOMAIN heard'[r] = DOMAIN heard[r] \union {Len(heard[r]) + 1}
        /\ heard'[r][Len(heard[r]) + 1] = job[t]
        /\ \A k \in DOMAIN heard[r] : heard'[r][k] = heard[r][k]
    BY <1>0, <1>3
  <2> QED BY <2>1 DEF Told, event, p
<1>6. ~Told(r, event, p)
  <2> SUFFICES ASSUME NEW k \in DOMAIN heard[r], heard[r][k].event = event, heard[r][k].pkt = p
               PROVE  FALSE
    BY DEF Told
  <2>1. heard[r][k] \in PacketJobs
    BY <1>3
  <2>2. heard[r][k] = job[t]
    <3>1. \A i, j \in PacketJobs : i.event = j.event /\ i.pkt = j.pkt => i = j
      BY DEF PacketJobs
    <3> QED BY <1>0, <2>1, <3>1 DEF event, p
  <2>3. IsInjective(heard'[r])
    BY <1>0 DEF SameOrder
  <2>4. /\ k \in DOMAIN heard'[r] /\ heard'[r][k] = job[t] /\ k # Len(heard[r]) + 1
        /\ Len(heard[r]) + 1 \in DOMAIN heard'[r] /\ heard'[r][Len(heard[r]) + 1] = job[t]
    BY <1>0, <1>3, <2>2
  <2> QED BY <2>3, <2>4 DEF IsInjective
<1>7. \A q \in Relayers : \A cause, x : Told(q, cause, x) => Told(q, cause, x)'
  BY <1>4, <1>5
<1>8. ASSUME NEW q \in Relayers
      PROVE  OnceIn(q, pendingPackets[q], "packet_created", "packet_relayed")'
  <2>1. CASE pendingPackets'[q] = pendingPackets[q]
    BY <1>1, <1>7, <2>1, KeptOnce DEF OnceEach
  <2>2. CASE q = r /\ s.kind = "IBCPacketSend" /\ pendingPackets'[q] = Append(pendingPackets[r], p)
    <3>1. ASSUME NEW queue, queue = pendingPackets[r], NEW x, x = p
          PROVE  OnceIn(r, Append(queue, x), "packet_created", "packet_relayed")'
      <4>1. queue \in Seq(Packets) /\ OnceIn(r, queue, "packet_created", "packet_relayed")
        BY <1>0, <3>1 DEF OnceEach
      <4>2. /\ x \in Packets /\ ~Told(r, "packet_created", x)
            /\ \A y : Told(r, "packet_created", y)' <=> Told(r, "packet_created", y) \/ y = x
        BY <1>0, <1>2, <1>5, <1>6, <2>2, <3>1
      <4> QED BY <1>0, <1>1, <4>1, <4>2, PutOnce
    <3> QED BY <2>2, <3>1
  <2> QED BY <1>0, <1>1, <2>1, <2>2
<1>9. ASSUME NEW q \in Relayers
      PROVE  OnceIn(q, pendingAcks[q], "ack_generated", "ack_relayed")'
  <2>1. CASE pendingAcks'[q] = pendingAcks[q]
    BY <1>1, <1>7, <2>1, KeptOnce DEF OnceEach
  <2>2. CASE q = r /\ s.kind = "IBCAckSend" /\ pendingAcks'[q] = Append(pendingAcks[r], p)
    <3>1. ASSUME NEW queue, queue = pendingAcks[r], NEW x, x = p
          PROVE  OnceIn(r, Append(queue, x), "ack_generated", "ack_relayed")'
      <4>1. queue \in Seq(Packets) /\ OnceIn(r, queue, "ack_generated", "ack_relayed")
        BY <1>0, <3>1 DEF OnceEach
      <4>2. /\ x \in Packets /\ ~Told(r, "ack_generated", x)
            /\ \A y : Told(r, "ack_generated", y)' <=> Told(r, "ack_generated", y) \/ y = x
        BY <1>0, <1>2, <1>5, <1>6, <2>2, <3>1
      <4> QED BY <1>0, <1>1, <4>1, <4>2, PutOnce
    <3> QED BY <2>2, <3>1
  <2> QED BY <1>0, <1>1, <2>1, <2>2
<1> QED BY <1>8, <1>9 DEF OnceEach

LEMMA FilesStep ==
  LogInv /\ BusInv /\ OnceEach /\ StatesInv /\ SameOrder' /\ [Next]_vars => (OnceEach /\ StatesInv)'
<1> SUFFICES ASSUME LogInv, BusInv, OnceEach, StatesInv, SameOrder', [Next]_vars
             PROVE  (OnceEach /\ StatesInv)'
  OBVIOUS
<1>1. TInv
  BY DEF LogInv
<1>2. ASSUME UNCHANGED <<relayed, relayer_state, statistics>> PROVE StatesInv'
  BY <1>2 DEF StatesInv, WrittenBy
<1>3. ASSUME UNCHANGED <<queueVars, relayed, heard>> PROVE OnceEach'
  BY <1>3, KeptOnce DEF OnceEach, queueVars, Told
<1>4. ASSUME NEW t \in Threads, NEW s \in todo[t], CallHandler(t, s)
      PROVE  UNCHANGED <<relayed, relayer_state, statistics>>
  BY <1>4 DEF CallHandler, trailVars
<1> QED BY <1>1, <1>2, <1>3, <1>4, OnceRelay, OnceCall, FileSteps

\* The files of the relayers: each line of relayer_state_*.jsonl sums up the attempts so
\* far, and packetsRelayed_ and acksRelayed_ count the lines of ibc_events.jsonl, because
\* a relayer is told of a packet once and takes it from its queue once.
THEOREM RelayerFilesTrue == Spec => []RelayerStatesTrue
<1> DEFINE Inv == LogInv /\ BusInv /\ HeardInv /\ OnceEach /\ StatesInv
<1>1. Init => Inv
  <2>1. ASSUME Init PROVE OnceEach
    BY <2>1 DEF Init, OnceEach, OnceIn, In, IsInjective, RelayLine
  <2>2. ASSUME Init PROVE StatesInv
    <3>1. relayed = {} /\ \A r \in Relayers : /\ relayer_state[r] = <<>>
                                             /\ statistics[r] = [packets |-> 0, acks |-> 0, failures |-> 0]
      BY <2>2 DEF Init
    <3>2. \A r, event : WrittenBy(r, event) = 0
      <4>1. \A r, event : {line \in relayed : line.event = event /\ line.by = r} = {}
        BY <3>1
      <4> QED BY <4>1, FS_EmptySet DEF WrittenBy
    <3> QED BY <3>1, <3>2, FS_EmptySet DEF StatesInv, Attempts
  <2> QED BY <2>1, <2>2, LogInvInit, BusInvInit, HeardInit
<1>2. Inv /\ SameOrder' /\ [Next]_vars => Inv'
  BY LogInvStep, BusInvStep, HeardStep, FilesStep DEF LogInv
<1>3. Inv => RelayerStatesTrue
  BY DEF StatesInv, RelayerStatesTrue, Attempts
<1> QED BY <1>1, <1>2, <1>3, HeardInOneOrder, PTL DEF Spec

-----------------------------------------------------------------------------
(* metrics.jsonl *)

CountedEvents == ChainEvents \ {"ack_generated"}

\* The relayers that publish() has called with the event at work
CalledFor(event) == {r \in Relayers : ~Pend(r) /\ \E j \in Work : j.event = event}

\* A line to be written is counted already.
Counted ==
  \A event \in CountedEvents :
    metrics[Counter[event]] =
      Written(event) + IF \E t \in Threads : pc[t] = "write" /\ job[t].event = event THEN 1 ELSE 0

Queued ==
  /\ metrics["relayer_packets_queued"] =
       Cardinality(Relayers) * Written("packet_created") + Cardinality(CalledFor("packet_created"))
  /\ metrics["relayer_acks_queued"] + metrics["relayer_deserialization_errors"] =
       Cardinality(Relayers) * Written("ack_generated") + Cardinality(CalledFor("ack_generated"))

\* The senders make the packets, and have ended before the first relayer is stopped.
SendersFirst ==
  /\ closed # {} => \A t \in Senders : pc[t] = "ended"
  /\ \A t \in Threads : pc[t] \in PacketLabels /\ job[t].event = "packet_created" => t \in Senders

CountInv == Counted /\ Queued /\ SendersFirst

LEMMA ManyRelayers ==
  /\ IsFiniteSet(Relayers) /\ Cardinality(Relayers) \in Nat
  /\ \A event : IsFiniteSet(CalledFor(event)) /\ CalledFor(event) \subseteq Relayers
                /\ Cardinality(CalledFor(event)) \in Nat
<1>1. IsFiniteSet(Relayers) /\ Cardinality(Relayers) \in Nat
  BY EventLogAssumption, FS_Interval, FS_CardinalityType DEF Relayers
<1>2. \A event : CalledFor(event) \subseteq Relayers
  BY DEF CalledFor
<1> QED BY <1>1, <1>2, FS_Subset, FS_CardinalityType

LEMMA NumberOfLines ==
  ASSUME TInv
  PROVE  \A event : /\ Written(event) \in Nat
                    /\ IsFiniteSet({k \in DOMAIN ibc_events : ibc_events[k].event = event})
<1>1. IsFiniteSet(1..Len(ibc_events)) /\ DOMAIN ibc_events = 1..Len(ibc_events)
  BY FS_Interval DEF TInv, TypeOK
<1>2. ASSUME NEW event
      PROVE  /\ Written(event) \in Nat
             /\ IsFiniteSet({k \in DOMAIN ibc_events : ibc_events[k].event = event})
  <2> DEFINE numbers == {k \in DOMAIN ibc_events : ibc_events[k].event = event}
  <2>1. numbers \subseteq 1..Len(ibc_events) /\ Written(event) = Cardinality(numbers)
    BY <1>1 DEF Written
  <2> HIDE DEF numbers
  <2>2. IsFiniteSet(numbers) /\ Cardinality(numbers) \in Nat
    BY <1>1, <2>1, FS_Subset, FS_CardinalityType
  <2> QED BY <2>1, <2>2 DEF numbers
<1> QED BY <1>2

\* What a line adds to the number of lines
LEMMA LineCounted ==
  ASSUME TInv, NEW line \in ChainLines, NEW event
  PROVE  /\ Written(event) \in Nat
         /\ ibc_events' = Append(ibc_events, line) =>
              Written(event)' = Written(event) + IF line.event = event THEN 1 ELSE 0
<1> DEFINE last == Len(ibc_events) + 1
           old == {k \in DOMAIN ibc_events : ibc_events[k].event = event}
           new == {k \in DOMAIN ibc_events' : ibc_events'[k].event = event}
<1>1. /\ DOMAIN ibc_events = 1..Len(ibc_events) /\ Len(ibc_events) \in Nat
      /\ Written(event) = Cardinality(old) /\ Written(event)' = Cardinality(new)
  BY DEF TInv, TypeOK, Written
<1>2. IsFiniteSet(old) /\ Cardinality(old) \in Nat
  BY <1>1, NumberOfLines
<1>3. ASSUME ibc_events' = Append(ibc_events, line)
      PROVE  /\ last \notin old
             /\ line.event = event => new = old \union {last}
             /\ line.event # event => new = old
  <2>1. /\ DOMAIN ibc_events' = DOMAIN ibc_events \union {last}
        /\ ibc_events'[last] = line
        /\ \A k \in DOMAIN ibc_events : ibc_events'[k] = ibc_events[k] /\ k # last
    BY <1>3 DEF TInv, TypeOK
  <2> QED BY <2>1
<1> HIDE DEF old, new, last
<1> QED BY <1>1, <1>2, <1>3, FS_AddElement

LEMMA CountInit == Init => CountInv
<1> SUFFICES ASSUME Init PROVE CountInv
  OBVIOUS
<1>1. \A t \in Threads : pc[t] = "none" /\ pc[t] \notin PacketLabels
  BY DEF Init, PacketLabels
<1>2. Work = {}
  BY <1>1 DEF Work
<1>3. \A event : Written(event) = 0 /\ Cardinality(CalledFor(event)) = 0
  <2>1. \A event : {k \in DOMAIN ibc_events : ibc_events[k].event = event} = {}
    BY DEF Init
  <2>2. \A event : CalledFor(event) = {}
    BY <1>2 DEF CalledFor
  <2> QED BY <2>1, <2>2, FS_EmptySet DEF Written
<1>4. \A name \in Counters : metrics[name] = 0
  BY DEF Init
<1>5. Counted
  BY <1>1, <1>3, <1>4 DEF Counted, CountedEvents, ChainEvents, Counter, Counters
<1>6. Queued
  <2>1. Cardinality(Relayers) * 0 = 0
    BY ManyRelayers
  <2> QED BY <1>3, <1>4, <2>1 DEF Queued, Counters
<1>7. SendersFirst
  BY <1>1 DEF SendersFirst, Init
<1> QED BY <1>5, <1>6, <1>7 DEF CountInv

\* Senders end before relayers are stopped, and only they make packets.
LEMMA SendersFirstStep == TInv /\ SendersFirst /\ [Next]_vars => SendersFirst'
<1> SUFFICES ASSUME TInv, SendersFirst, [Next]_vars PROVE SendersFirst'
  OBVIOUS
<1>0. \A t \in Senders : t \in Threads /\ t \notin Relayers
  BY Domains
<1>1. closed' = closed \/ \E r \in Relayers : StopRelayer(r)
  <2>1. \A r \in Relayers : Construct(r) \/ Destroy(r) => closed' = closed
    BY DEF Construct, Destroy
  <2>2. ASSUME NEW t \in Threads, Step(t) PROVE closed' = closed
    <3>1. ASSUME NEW s \in todo[t], CallHandler(t, s) PROVE closed' = closed
      BY <3>1 DEF CallHandler
    <3>2. ASSUME Stamp(t) \/ Write(t) \/ LogTx(t) \/ SendTx(t) \/ NoAck(t) \/ Snapshot(t)
          PROVE  closed' = closed
      BY <3>2 DEF Stamp, Write, LogTx, SendTx, NoAck, Snapshot
    <3>3. ASSUME RelayPacket(t) \/ RelayAck(t) PROVE closed' = closed
      BY <3>3 DEF RelayPacket, RelayAck
    <3>4. ASSUME NEW msg \in transit, AcceptAndPublish(t, msg) \/ PublishAck(t, msg) \/ ReceiveTx(t, msg)
          PROVE  closed' = closed
      BY <3>4 DEF AcceptAndPublish, PublishAck, ReceiveTx
    <3> QED BY <2>2, <3>1, <3>2, <3>3, <3>4 DEF Step
  <2>3. Start \/ (\E t \in Threads : End(t)) => closed' = closed
    BY DEF Start, End
  <2>4. \A t \in Senders : Traffic(t) => closed' = closed
    BY DEF Traffic, MakeAndPublish, NewTx
  <2>5. UNCHANGED vars => closed' = closed
    BY DEF vars
  <2> QED BY <2>1, <2>2, <2>3, <2>4, <2>5 DEF Next, Terminated
<1>2. closed' # {} => \A t \in Senders : pc'[t] = "ended"
  <2>1. CASE \E r \in Relayers : StopRelayer(r)
    BY <2>1 DEF StopRelayer
  <2>2. CASE closed' = closed
    <3>1. CASE \E r \in Relayers : Construct(r) \/ Destroy(r)
      <4>1. \A t \in Senders : pc'[t] = pc[t]
        BY <1>0, <3>1 DEF Construct, Destroy, GoTo, TInv, TypeOK
      <4> QED BY <2>2, <4>1 DEF SendersFirst
    <3>2. CASE Start
      BY <2>2, <3>2 DEF Start, SendersFirst
    <3>3. CASE \A t \in Threads : Moves(t)
      BY <1>0, <2>2, <3>3 DEF Moves, SendersFirst
    <3> QED BY <3>1, <3>2, <3>3, PlaceSteps
  <2> QED BY <1>1, <2>1, <2>2
<1>3. \A t \in Threads : pc'[t] \in PacketLabels /\ job'[t].event = "packet_created" => t \in Senders
  <2>1. ASSUME NEW t \in Threads, NEW event, NEW p, Publish(t, event, p),
               event = "packet_created" => t \in Senders
        PROVE  \A u \in Threads : pc'[u] \in PacketLabels /\ job'[u].event = "packet_created" => u \in Senders
    <3>1. /\ job'[t].event = event
          /\ \A u \in Threads \ {t} : pc'[u] = pc[u] /\ job'[u] = job[u]
      BY <2>1 DEF Publish, WorkAt, GoTo, On, TInv, TypeOK
    <3> QED BY <2>1, <3>1 DEF SendersFirst
  <2>2. CASE \E t \in Threads : \E s \in todo[t] : CallHandler(t, s)
    BY <2>2 DEF CallHandler, SendersFirst
  <2>3. ASSUME NEW t \in Threads, Write(t)
        PROVE  \A u \in Threads : pc'[u] \in PacketLabels /\ job'[u].event = "packet_created" => u \in Senders
    <3>1. CASE Publish(t, "ack_generated", job[t].pkt)
      BY <2>1, <3>1
    <3>2. CASE \E label \in {"idle", "snapshot"} : WorkAt(t, label, NoJob)
      <4>1. /\ pc'[t] \notin PacketLabels
            /\ \A u \in Threads \ {t} : pc'[u] = pc[u] /\ job'[u] = job[u]
        BY <3>2 DEF WorkAt, GoTo, PacketLabels, TInv, TypeOK
      <4> QED BY <4>1 DEF SendersFirst
    <3> QED BY <2>3, <3>1, <3>2 DEF Write
  <2>4. ASSUME NEW t \in Threads, Stamp(t)
        PROVE  \A u \in Threads : pc'[u] \in PacketLabels /\ job'[u].event = "packet_created" => u \in Senders
    BY <2>4 DEF Stamp, GoTo, PacketLabels, SendersFirst, TInv, TypeOK
  <2>5. CASE Still
    BY <2>5 DEF Still, SendersFirst
  <2>6. \A t \in Idlers : t \in Threads
    BY Domains DEF Idlers
  <2> QED BY <2>1, <2>2, <2>3, <2>4, <2>5, <2>6, HeardSteps
<1> QED BY <1>2, <1>3 DEF SendersFirst

\* Nobody is called before publish() calls.
LEMMA NobodyCalled ==
  ASSUME TInv, TInv', BusInv, NEW t \in Idlers, pc[t] \notin {"none", "ended"},
         NEW event \in ChainEvents, NEW p \in Packets, Publish(t, event, p)
  PROVE  \A e \in HeardEvents : CalledFor(e)' = {}
<1>0. t \in Threads /\ pc'[t] = "publish" /\ job'[t] = On(event, p)
  BY Domains DEF Idlers, Publish, WorkAt, GoTo, TInv, TypeOK
<1>1. \A u \in Threads : pc'[u] \in PacketLabels => u = t
  BY <1>0 DEF TInv, Working, PacketLabels
<1>2. \A j \in Work' : j.event = event
  BY <1>0, <1>1 DEF Work, On
<1>3. CASE event \in HeardEvents
  BY <1>3, AllToCall DEF CalledFor
<1>4. CASE event \notin HeardEvents
  BY <1>2, <1>4 DEF CalledFor
<1> QED BY <1>3, <1>4

LEMMA CountBegin ==
  ASSUME TInv, TInv', BusInv, CountInv, NEW t \in Idlers, NEW p \in Packets,
         NEW event \in ChainEvents, Publish(t, event, p), chainMutex = Free, pc[t] = "idle",
         UNCHANGED <<ibc_events, metrics>>
  PROVE  (Counted /\ Queued)'
<1>1. \A e \in HeardEvents : CalledFor(e) = {} /\ CalledFor(e)' = {}
  <2>1. Work = {}
    BY WorkOf
  <2> QED BY <2>1, NobodyCalled DEF CalledFor
<1>2. \A e : Written(e)' = Written(e)
  BY DEF Written
<1>3. \A u \in Threads : pc[u] # "write" /\ pc'[u] # "write"
  <2>1. \A u \in Threads : pc[u] # "write"
    BY Domains DEF TInv, Working, PacketLabels
  <2> QED BY <2>1 DEF Publish, WorkAt, GoTo, TInv, TypeOK
<1>4. Counted'
  BY <1>2, <1>3 DEF CountInv, Counted
<1>5. Queued'
  BY <1>1, <1>2 DEF CountInv, Queued, HeardEvents
<1> QED BY <1>4, <1>5

\* A line is written: it was counted when it was stamped, and its event was heard by all.
LEMMA CountWrite ==
  ASSUME TInv, TInv', BusInv, CountInv, NEW t \in Threads, Write(t)
  PROVE  (Counted /\ Queued)'
<1> DEFINE event == job[t].event
           line == [event |-> job[t].event, pkt |-> job[t].pkt, ts |-> stamp[t]]
<1>1. /\ pc[t] = "write" /\ ibc_events' = Append(ibc_events, line) /\ metrics' = metrics
      /\ pc'[t] # "write" /\ \A u \in Threads \ {t} : pc'[u] = pc[u] /\ job'[u] = job[u]
      /\ \/ Publish(t, "ack_generated", job[t].pkt)
         \/ todo' = todo /\ pc'[t] \notin PacketLabels
  BY DEF Write, LogIBCEvent, Publish, WorkAt, GoTo, PacketLabels, TInv, TypeOK
<1>2. /\ job[t] \in PacketJobs /\ job[t].pkt \in Packets /\ event \in ChainEvents /\ stamp[t] \in Nat
      /\ Work = {job[t]} /\ t \notin Relayers /\ pc[t] \in PacketLabels
  <2>1. pc[t] \in PacketLabels
    BY <1>1 DEF PacketLabels
  <2> QED BY <2>1, AtWork, WorkOf DEF TInv, TypeOK
<1>3. \A u \in Threads \ {t} : pc[u] \notin PacketLabels
  BY <1>2, AtWork
<1>4. line \in ChainLines /\ line.event = event
  BY <1>2, PacketTypes
<1> HIDE DEF line
<1>5. \A e : /\ Written(e) \in Nat
             /\ Written(e)' = Written(e) + IF event = e THEN 1 ELSE 0
  BY <1>1, <1>4, LineCounted
<1>6. \A r \in Relayers : ~Pend(r)
  BY <1>1, <1>2, PendingAtWork DEF Pend, TInv, Working
<1>7. \A e \in HeardEvents : CalledFor(e)' = {}
  <2>1. CASE Publish(t, "ack_generated", job[t].pkt)
    <3>1. t \in Idlers /\ pc[t] \notin {"none", "ended"}
      BY <1>1, <1>2 DEF Idlers, Threads
    <3> QED BY <1>2, <2>1, <3>1, NobodyCalled DEF ChainEvents
  <2>2. CASE pc'[t] \notin PacketLabels
    <3>1. Work' = {}
      BY <1>1, <1>3, <2>2 DEF Work
    <3> QED BY <3>1 DEF CalledFor
  <2> QED BY <1>1, <2>1, <2>2
<1>8. \A e \in HeardEvents : CalledFor(e) = IF e = event THEN Relayers ELSE {}
  BY <1>2, <1>6 DEF CalledFor
<1>9. Counted'
  <2>1. \A u \in Threads : pc'[u] # "write"
    BY <1>1, <1>3 DEF PacketLabels
  <2>2. \A e : (\E u \in Threads : pc[u] = "write" /\ job[u].event = e) <=> e = event
    BY <1>1, <1>3 DEF PacketLabels
  <2> QED BY <1>1, <1>5, <2>1, <2>2 DEF CountInv, Counted
<1>10. Queued'
  <2>1. \A e \in HeardEvents :
          Cardinality(Relayers) * Written(e)' + Cardinality(CalledFor(e)')
            = Cardinality(Relayers) * Written(e) + Cardinality(CalledFor(e))
    <3> SUFFICES ASSUME NEW e \in HeardEvents
                 PROVE  Cardinality(Relayers) * Written(e)' + Cardinality(CalledFor(e)')
                          = Cardinality(Relayers) * Written(e) + Cardinality(CalledFor(e))
      OBVIOUS
    <3>1. Cardinality(CalledFor(e)') = 0
      BY <1>7, FS_EmptySet
    <3>2. CASE e # event
      <4>1. Cardinality(CalledFor(e)) = 0 /\ Written(e)' = Written(e)
        <5>1. CalledFor(e) = {}
          BY <1>8, <3>2
        <5> QED BY <1>5, <3>2, <5>1, FS_EmptySet
      <4> QED BY <3>1, <4>1
    <3>3. CASE e = event
      <4>1. Cardinality(CalledFor(e)) = Cardinality(Relayers) /\ Written(e)' = Written(e) + 1
        BY <1>5, <1>8, <3>3
      <4>2. \A a, b \in Nat : a * (b + 1) + 0 = a * b + a
        OBVIOUS
      <4> QED BY <1>5, <3>1, <4>1, <4>2, ManyRelayers
    <3> QED BY <3>2, <3>3
  <2> QED BY <1>1, <2>1 DEF CountInv, Queued, HeardEvents
<1> QED BY <1>9, <1>10

LEMMA CountStamp ==
  ASSUME TInv, CountInv, NEW t \in Threads, Stamp(t), UNCHANGED <<todo, ibc_events>>, Work' = Work
  PROVE  (Counted /\ Queued)'
<1> DEFINE event == job[t].event
<1>1. /\ pc[t] = "publish" /\ pc'[t] = "write" /\ job' = job
      /\ \A u \in Threads \ {t} : pc'[u] = pc[u]
      /\ metrics' = [metrics EXCEPT ![Counter[event]] = @ + 1]
  BY DEF Stamp, GoTo, Count, TInv, TypeOK
<1>2. event \in ChainEvents
  BY <1>1, AtWork DEF PacketLabels
<1>3. \A u \in Threads \ {t} : pc[u] # "write" /\ pc'[u] # "write"
  BY <1>1, AtWork DEF PacketLabels
<1>4. metrics \in [Counters -> Nat]
  BY DEF TInv, TypeOK
<1>5. \A e : Written(e)' = Written(e) /\ CalledFor(e)' = CalledFor(e) /\ Written(e) \in Nat
  <2>1. \A e : Written(e)' = Written(e) /\ CalledFor(e)' = CalledFor(e)
    BY DEF Written, CalledFor, Pend
  <2>2. \A e : Written(e) \in Nat
    BY NumberOfLines
  <2> QED BY <2>1, <2>2
<1>6. \A e : /\ ~(\E u \in Threads : pc[u] = "write" /\ job[u].event = e)
             /\ (\E u \in Threads : pc'[u] = "write" /\ job'[u].event = e) <=> e = event
  BY <1>1, <1>3
<1>7. \A e \in CountedEvents : metrics'[Counter[e]] = metrics[Counter[e]] + IF e = event THEN 1 ELSE 0
  BY <1>1, <1>2, <1>4 DEF CountedEvents, ChainEvents, Counter, Counters
<1>8. \A name \in {"relayer_packets_queued", "relayer_acks_queued", "relayer_deserialization_errors"} :
        metrics'[name] = metrics[name]
  BY <1>1, <1>2, <1>4 DEF ChainEvents, Counter, Counters
<1> HIDE DEF event
<1>9. Counted'
  <2>1. ASSUME NEW e \in CountedEvents
        PROVE  metrics'[Counter[e]] =
                 Written(e)' + IF \E u \in Threads : pc'[u] = "write" /\ job'[u].event = e THEN 1 ELSE 0
    <3>1. metrics[Counter[e]] = Written(e) + 0
      BY <1>6, <2>1 DEF CountInv, Counted
    <3>2. Written(e)' = Written(e) /\ Written(e) \in Nat
      BY <1>5
    <3>3. CASE e = event
      <4>1. metrics'[Counter[e]] = Written(e) + 1
        BY <1>7, <2>1, <3>1, <3>2, <3>3
      <4> QED BY <1>6, <3>2, <3>3, <4>1
    <3>4. CASE e # event
      <4>1. metrics'[Counter[e]] = Written(e) + 0
        BY <1>7, <2>1, <3>1, <3>2, <3>4
      <4> QED BY <1>6, <3>2, <3>4, <4>1
    <3> QED BY <3>3, <3>4
  <2> QED BY <2>1 DEF Counted
<1>10. Queued'
  BY <1>5, <1>8 DEF CountInv, Queued
<1> QED BY <1>9, <1>10

\* A handler is called, and counts.
LEMMA CountCall ==
  ASSUME LogInv, BusInv, CountInv, NEW t \in Threads, NEW s \in todo[t], CallHandler(t, s)
  PROVE  (Counted /\ Queued)'
<1> DEFINE r == s.handler
           event == job[t].event
<1>0. /\ TInv /\ pc[t] = "publish" /\ pc[t] \in PacketLabels /\ r \in Relayers
      /\ event \in ChainEvents /\ metrics \in [Counters -> Nat]
  BY Calling DEF LogInv, TInv, TypeOK, PacketLabels
<1>1. /\ todo' = [todo EXCEPT ![t] = @ \ {s}] /\ pc' = pc /\ job' = job /\ ibc_events' = ibc_events
      /\ \/ r \notin closed /\ s.kind = "IBCPacketSend" /\ Count("relayer_packets_queued")
         \/ r \notin closed /\ s.kind = "IBCAckSend" /\ Count("relayer_acks_queued")
         \/ r \in closed /\ Count("relayer_deserialization_errors")
  BY DEF CallHandler, trailVars
<1>2. s.kind \in SendKinds /\ s.kind = Kind[event]
  BY DEF BusInv, CopiedLive, Subscribed, LogInv, TodoFits
<1>3. event \in HeardEvents /\ (s.kind = "IBCPacketSend" <=> event = "packet_created")
  BY <1>0, <1>2 DEF SendKinds, Kind, ChainEvents, HeardEvents
<1>4. r \in closed => event # "packet_created"
  BY <1>0 DEF CountInv, SendersFirst
<1>5. \/ event = "packet_created" /\ Count("relayer_packets_queued")
      \/ event = "ack_generated" /\ Count("relayer_acks_queued")
      \/ event = "ack_generated" /\ Count("relayer_deserialization_errors")
  BY <1>1, <1>3, <1>4 DEF HeardEvents
<1>6. /\ Work = {job[t]} /\ Work' = {job[t]} /\ event' = event
      /\ \A u \in Threads \ {t} : todo[u] = {}
  BY <1>0, <1>1, WorkOf, WorkKept, PendingAtWork
<1>7. /\ Pend(r) /\ ~Pend(r)' /\ \A q \in Relayers \ {r} : Pend(q)' <=> Pend(q)
  <2>1. todo'[t] = todo[t] \ {s} /\ \A u \in Threads \ {t} : todo'[u] = {}
    BY <1>0, <1>1, <1>6 DEF TInv, TypeOK
  <2>2. \A q \in todo[t] : q.handler = r => q = s
    BY DEF BusInv, CopiedLive, Subscribed, LogInv, TodoFits
  <2> QED BY <1>6, <2>1, <2>2 DEF Pend
<1> HIDE DEF r, event
<1>8. /\ CalledFor(event)' = CalledFor(event) \union {r} /\ r \notin CalledFor(event)
      /\ \A e : e # event => CalledFor(e)' = CalledFor(e)
  <2>1. \A e : (\E j \in Work : j.event = e) <=> e = event
    BY <1>6 DEF event
  <2>2. \A e : (\E j \in Work' : j.event = e) <=> e = event
    BY <1>6 DEF event
  <2>3. /\ CalledFor(event) = {q \in Relayers : ~Pend(q)}
        /\ CalledFor(event)' = {q \in Relayers : ~Pend(q)'}
        /\ \A e : e # event => CalledFor(e) = {} /\ CalledFor(e)' = {}
    BY <1>6, <2>1, <2>2 DEF CalledFor
  <2>4. {q \in Relayers : ~Pend(q)'} = {q \in Relayers : ~Pend(q)} \union {r}
    BY <1>0, <1>7
  <2> QED BY <1>7, <2>3, <2>4
<1>9. Cardinality(CalledFor(event)') = Cardinality(CalledFor(event)) + 1
  BY <1>8, FS_AddElement, ManyRelayers
<1>10. \A e : Written(e)' = Written(e)
  BY <1>1 DEF Written
<1>11. Counted'
  <2>1. \A e \in CountedEvents : metrics'[Counter[e]] = metrics[Counter[e]]
    BY <1>0, <1>5 DEF Count, CountedEvents, ChainEvents, Counter, Counters
  <2> QED BY <1>1, <1>10, <2>1 DEF CountInv, Counted
<1>12. Queued'
  <2> DEFINE sent == Cardinality(Relayers) * Written("packet_created")
             acked == Cardinality(Relayers) * Written("ack_generated")
  <2>1. /\ metrics["relayer_packets_queued"] \in Nat /\ metrics["relayer_acks_queued"] \in Nat
        /\ metrics["relayer_deserialization_errors"] \in Nat
        /\ Cardinality(CalledFor("packet_created")) \in Nat
        /\ Cardinality(CalledFor("ack_generated")) \in Nat
    BY <1>0, ManyRelayers DEF Counters
  <2>2. /\ metrics["relayer_packets_queued"] = sent + Cardinality(CalledFor("packet_created"))
        /\ metrics["relayer_acks_queued"] + metrics["relayer_deserialization_errors"] =
             acked + Cardinality(CalledFor("ack_generated"))
    BY DEF CountInv, Queued
  <2>3. sent' = sent /\ acked' = acked
    BY <1>10
  <2>4. sent \in Nat /\ acked \in Nat
    <3>1. \A e : Written(e) \in Nat
      BY <1>0, NumberOfLines
    <3>2. \A a, b \in Nat : a * b \in Nat
      OBVIOUS
    <3> QED BY <3>1, <3>2, ManyRelayers
  <2> HIDE DEF sent, acked
  <2>5. /\ metrics'["relayer_packets_queued"] = sent + Cardinality(CalledFor("packet_created")')
        /\ metrics'["relayer_acks_queued"] + metrics'["relayer_deserialization_errors"] =
             acked + Cardinality(CalledFor("ack_generated")')
    <3>1. CASE event = "packet_created"
      <4>1. Count("relayer_packets_queued") /\ CalledFor("ack_generated")' = CalledFor("ack_generated")
        BY <1>5, <1>8, <3>1
      <4>2. /\ metrics'["relayer_packets_queued"] = metrics["relayer_packets_queued"] + 1
            /\ metrics'["relayer_acks_queued"] = metrics["relayer_acks_queued"]
            /\ metrics'["relayer_deserialization_errors"] = metrics["relayer_deserialization_errors"]
        BY <1>0, <4>1 DEF Count, Counters
      <4>3. Cardinality(CalledFor("packet_created")') = Cardinality(CalledFor("packet_created")) + 1
        BY <1>6, <1>9, <3>1
      <4> QED BY <2>1, <2>2, <2>4, <4>1, <4>2, <4>3
    <3>2. CASE event = "ack_generated"
      <4>1. /\ Count("relayer_acks_queued") \/ Count("relayer_deserialization_errors")
            /\ CalledFor("packet_created")' = CalledFor("packet_created")
        BY <1>5, <1>8, <3>2
      <4>2. /\ metrics'["relayer_packets_queued"] = metrics["relayer_packets_queued"]
            /\ \/ /\ metrics'["relayer_acks_queued"] = metrics["relayer_acks_queued"] + 1
                  /\ metrics'["relayer_deserialization_errors"] = metrics["relayer_deserialization_errors"]
               \/ /\ metrics'["relayer_acks_queued"] = metrics["relayer_acks_queued"]
                  /\ metrics'["relayer_deserialization_errors"] = metrics["relayer_deserialization_errors"] + 1
        BY <1>0, <4>1 DEF Count, Counters
      <4>3. Cardinality(CalledFor("ack_generated")') = Cardinality(CalledFor("ack_generated")) + 1
        BY <1>6, <1>9, <3>2
      <4> QED BY <2>1, <2>2, <2>4, <4>1, <4>2, <4>3
    <3> QED BY <1>5, <3>1, <3>2
  <2> QED BY <2>3, <2>5 DEF Queued, sent, acked
<1> QED BY <1>11, <1>12

\* metrics.jsonl agrees with ibc_events.jsonl while no chain is at work: a line is counted
\* just before it is written, and the handler of each relayer counts once for each event.
THEOREM MetricsAgree == Spec => []CountsAgree
<1> DEFINE Inv == LogInv /\ BusInv /\ CountInv
<1>1. Init => Inv
  BY LogInvInit, BusInvInit, CountInit
<1>2. Inv /\ [Next]_vars => Inv'
  <2> SUFFICES ASSUME Inv, [Next]_vars PROVE Inv'
    OBVIOUS
  <2>1. TInv /\ LogInv' /\ TInv' /\ BusInv'
    BY LogInvStep, BusInvStep DEF LogInv
  <2>2. SendersFirst'
    BY <2>1, SendersFirstStep DEF CountInv
  <2>3. CASE Work' = Work /\ UNCHANGED <<todo, ibc_events>> /\ Still
    <3>1. \A e : Written(e)' = Written(e) /\ CalledFor(e)' = CalledFor(e)
      BY <2>3 DEF Written, CalledFor, Pend
    <3>2. \A e : (\E t \in Threads : pc'[t] = "write" /\ job'[t].event = e)
                   <=> \E t \in Threads : pc[t] = "write" /\ job[t].event = e
      BY <2>3 DEF Still, PacketLabels
    <3>3. \A e \in CountedEvents : metrics'[Counter[e]] = metrics[Counter[e]]
      BY <2>3 DEF Still, CountedEvents, ChainEvents, Counter, Counters
    <3>4. Counted'
      BY <3>1, <3>2, <3>3 DEF CountInv, Counted
    <3>5. Queued'
      BY <2>3, <3>1 DEF Still, CountInv, Queued, Counters
    <3> QED BY <3>4, <3>5, <2>1, <2>2 DEF CountInv
  <2>4. (Counted /\ Queued)'
    <3>1. ChainEvents = {"packet_created", "packet_received", "ack_generated", "ack_received"}
      BY DEF ChainEvents
    <3> QED BY <2>1, <2>3, <3>1, HeardSteps, CountBegin, CountWrite, CountStamp, CountCall DEF CountInv
  <2> QED BY <2>1, <2>2, <2>4 DEF CountInv
<1>3. Inv => CountsAgree
  <2> SUFFICES ASSUME Inv, chainMutex = Free
               PROVE  /\ \A event \in CountedEvents : metrics[Counter[event]] = Written(event)
                      /\ metrics["relayer_packets_queued"] = Cardinality(Relayers) * Written("packet_created")
                      /\ metrics["relayer_acks_queued"] + metrics["relayer_deserialization_errors"]
                           = Cardinality(Relayers) * Written("ack_generated")
    BY DEF CountsAgree, CountedEvents
  <2>1. TInv /\ Work = {} /\ \A t \in Threads : pc[t] # "write"
    BY WorkOf, Domains DEF LogInv, TInv, Working, PacketLabels
  <2>2. \A e : Cardinality(CalledFor(e)) = 0
    <3>1. \A e : CalledFor(e) = {}
      BY <2>1 DEF CalledFor
    <3> QED BY <3>1, FS_EmptySet
  <2>3. \A e : Written(e) \in Nat
    BY <2>1, NumberOfLines
  <2>4. ASSUME NEW event \in CountedEvents PROVE metrics[Counter[event]] = Written(event)
    <3>1. metrics[Counter[event]] = Written(event) + 0
      BY <2>1, <2>4 DEF CountInv, Counted
    <3> QED BY <2>3, <3>1
  <2>5. \A e : Cardinality(Relayers) * Written(e) + Cardinality(CalledFor(e)) = Cardinality(Relayers) * Written(e)
    <3>1. \A a, b \in Nat : a * b + 0 = a * b
      OBVIOUS
    <3> QED BY <2>2, <2>3, <3>1, ManyRelayers
  <2> QED BY <2>4, <2>5 DEF CountInv, Queued
<1> QED BY <1>1, <1>2, <1>3, PTL DEF Spec
=============================================================================
