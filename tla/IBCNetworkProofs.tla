-------------------------- MODULE IBCNetworkProofs --------------------------
(***************************************************************************)
(* Proofs about IBCNetwork for any number of chains, ends, relayers, routes, *)
(* packets and delivering threads, and any drop probability.                 *)
(*                                                                          *)
(* Whatever relayers and transport do, they only move copies of what was     *)
(* sent or accepted; and the number an end that only receives expects next   *)
(* is one more than the packets it accepted.  Order and the absence of       *)
(* duplicates follow from these two facts alone.                            *)
(*                                                                          *)
(* EventBus::publish() gives every relayer every packet and ack behind what  *)
(* it has, and a relayer takes its oldest: of two relayers the slower has    *)
(* always something that ends with what the faster has.  An ack is given to  *)
(* each relayer once, when its packet is accepted, and from then on each     *)
(* relayer's copy of it is in one place: the relayer, the transport, the     *)
(* inbox, or counted.  What a reliable relayer was given is never nowhere,   *)
(* so nothing it carries is lost: a packet reaches its decision, an ack its  *)
(* count.                                                                   *)
(***************************************************************************)
EXTENDS IBCNetwork, TLAPS, SequenceTheorems, FiniteSetTheorems

\* The packets their destinations accepted
Arrived == {p \in Packets : Received(p)}

\* The messages that may be under way: copies of what was sent, and acks of what
\* was accepted; and those among them that are meant for chain c
Copies == {m \in Messages : m.pkt \in IF m.type = "Data" THEN sent ELSE Arrived}
CopiesFor(c) == {m \in Copies : Mailbox(m) = c}

\* The queues of the relayers, the transport and the inboxes hold nothing else.
QueuesSound ==
  /\ pendingPackets \in [Relayers -> Seq(sent)]
  /\ pendingAcks \in [Relayers -> Seq(Arrived)]
  /\ network \in Seq(Copies)
  /\ \A c \in Chains : inbox[c] \in Seq(CopiesFor(c))

AcksSound == \A p \in Packets : acksReceived[p] > 0 => Received(p)

\* Each end accepted packets sent to it, numbered by their position.
Numbered ==
  \A c \in Chains, e \in Ends : \A k \in DOMAIN received[c][e] :
    LET p == received[c][e][k]
    IN  p \in sent /\ p.route.dst = c /\ p.route.dstEnd = e /\ p.seq = k

\* An end routes arrive at expects the packet after those it accepted.
Expecting ==
  \A r \in Routes :
    channels[r.dst][r.dstEnd].nextSeq = Len(received[r.dst][r.dstEnd]) + 1

\* An end has given out no number from its counter on.
SentBelow ==
  \A p \in sent : p.seq < channels[p.route.src][p.route.srcEnd].nextSeq

\* No channel is ever closed: nothing calls IBCChannel::close().
NeverClosed == \A c \in Chains, e \in Ends : channels[c][e].state # "Closed"

IInv ==
  /\ TypeOK
  /\ NeverClosed
  /\ QueuesSound
  /\ AcksSound
  /\ Numbered
  /\ Expecting
  /\ SentBelow

-----------------------------------------------------------------------------
(* Sequences *)

\* What Append, Tail, Head and RemoveAt return, and the elements they keep
LEMMA AppendElements ==
  ASSUME NEW S, NEW s \in Seq(S), NEW x \in S
  PROVE  /\ Append(s, x) \in Seq(S)
         /\ Len(Append(s, x)) = Len(s) + 1
         /\ DOMAIN Append(s, x) = 1 .. Len(s) + 1
         /\ DOMAIN s = 1 .. Len(s) /\ Len(s) \in Nat
         /\ \A k \in DOMAIN s : Append(s, x)[k] = s[k]
         /\ Append(s, x)[Len(s) + 1] = x
         /\ \A k \in DOMAIN Append(s, x) : k \in DOMAIN s \/ k = Len(s) + 1
  BY AppendProperties, LenProperties

LEMMA TailElements ==
  ASSUME NEW S, NEW s \in Seq(S), s # <<>>
  PROVE  /\ Head(s) \in S /\ 1 \in DOMAIN s /\ Head(s) = s[1]
         /\ Tail(s) \in Seq(S)
         /\ \A k \in DOMAIN Tail(s) : k + 1 \in DOMAIN s /\ Tail(s)[k] = s[k + 1]
<1>1. /\ Len(s) \in Nat \ {0} /\ DOMAIN s = 1 .. Len(s)
      /\ Tail(s) \in Seq(S) /\ Len(Tail(s)) = Len(s) - 1
      /\ DOMAIN Tail(s) = 1 .. Len(Tail(s))
  BY HeadTailProperties, LenProperties, EmptySeq
<1> QED BY <1>1, HeadTailProperties

LEMMA RemoveElements ==
  ASSUME NEW S, NEW s \in Seq(S), NEW i \in DOMAIN s
  PROVE  /\ RemoveAt(s, i) \in Seq(S)
         /\ Len(RemoveAt(s, i)) = Len(s) - 1
         /\ \A k \in 1 .. Len(s) - 1 :
              /\ (IF k < i THEN k ELSE k + 1) \in DOMAIN s
              /\ RemoveAt(s, i)[k] = s[IF k < i THEN k ELSE k + 1]
<1> DEFINE left == SubSeq(s, 1, i - 1)
           right == SubSeq(s, i + 1, Len(s))
<1>1. /\ Len(s) \in Nat /\ DOMAIN s = 1 .. Len(s) /\ i \in 1 .. Len(s)
      /\ \A k \in 1 .. Len(s) : s[k] \in S
  BY LenProperties
<1>2. /\ left \in Seq(S) /\ Len(left) = i - 1
      /\ \A k \in 1 .. i - 1 : left[k] = s[k]
  <2>1. \A k \in 1 .. i - 1 : s[k] \in S
    BY <1>1
  <2> QED BY <1>1, <2>1, SubSeqProperties
<1>3. /\ right \in Seq(S) /\ Len(right) = Len(s) - i
      /\ \A k \in 1 .. Len(s) - i : right[k] = s[i + k]
  <2>1. \A k \in i + 1 .. Len(s) : s[k] \in S
    BY <1>1
  <2> QED BY <1>1, <2>1, SubSeqProperties
<1> HIDE DEF left, right
<1>4. /\ left \o right \in Seq(S) /\ Len(left \o right) = Len(s) - 1
      /\ \A k \in 1 .. Len(s) - 1 :
           (left \o right)[k] = IF k <= i - 1 THEN left[k] ELSE right[k - (i - 1)]
  <2>1. /\ left \o right \in Seq(S) /\ Len(left \o right) = Len(left) + Len(right)
        /\ \A k \in 1 .. Len(left) + Len(right) :
             (left \o right)[k] = IF k <= Len(left) THEN left[k] ELSE right[k - Len(left)]
    BY <1>2, <1>3, ConcatProperties
  <2>2. Len(left) + Len(right) = Len(s) - 1
    BY <1>1, <1>2, <1>3
  <2> QED BY <1>2, <2>1, <2>2
<1>5. ASSUME NEW k \in 1 .. Len(s) - 1
      PROVE  /\ (IF k < i THEN k ELSE k + 1) \in DOMAIN s
             /\ (left \o right)[k] = s[IF k < i THEN k ELSE k + 1]
  <2>1. CASE k <= i - 1
    <3>1. k \in 1 .. i - 1 /\ k \in DOMAIN s /\ k < i
      BY <1>1, <2>1
    <3>2. (left \o right)[k] = s[k]
      BY <1>2, <1>4, <2>1, <3>1
    <3> QED BY <3>1, <3>2
  <2>2. CASE ~(k <= i - 1)
    <3>1. /\ k - (i - 1) \in 1 .. Len(s) - i /\ k + 1 \in DOMAIN s
          /\ i + (k - (i - 1)) = k + 1 /\ ~(k < i)
      BY <1>1, <2>2
    <3>2. (left \o right)[k] = s[k + 1]
      BY <1>3, <1>4, <2>2, <3>1
    <3> QED BY <3>1, <3>2
  <2> QED BY <2>1, <2>2
<1>6. RemoveAt(s, i) = left \o right
  BY DEF RemoveAt, left, right
<1> QED BY <1>4, <1>5, <1>6, LenProperties

-----------------------------------------------------------------------------
(* Types *)

\* The operations of a channel keep it a channel.
LEMMA ChannelOperations ==
  ASSUME NEW ch \in Channel, NEW n \in Nat
  PROVE  /\ OpenChannel(ch).chan \in Channel
         /\ OpenChannel(ch).chan.nextSeq = ch.nextSeq
         /\ ch.state # "Closed" => OpenChannel(ch).chan.state = "Open"
         /\ MakePacket(ch).chan \in Channel
         /\ MakePacket(ch).chan.state = ch.state
         /\ MakePacket(ch).status = "Ok" => MakePacket(ch).chan.nextSeq = ch.nextSeq + 1
         /\ AcceptPacket(ch, n).chan \in Channel
         /\ AcceptPacket(ch, n).chan.state = ch.state
         /\ AcceptPacket(ch, n).status = "Ok" =>
              n = ch.nextSeq /\ AcceptPacket(ch, n).chan.nextSeq = ch.nextSeq + 1
         /\ AcceptPacket(ch, n).status # "Ok" =>
              /\ AcceptPacket(ch, n).chan = ch
              /\ ch.state = "Open" => n # ch.nextSeq
  BY DEF Channel, ChannelStates, OpenChannel, MakePacket, AcceptPacket, Outcome

LEMMA RouteTypes ==
  /\ \A r \in Routes : r.src \in Chains /\ r.srcEnd \in Ends /\ r.dst \in Chains /\ r.dstEnd \in Ends
  /\ \A p \in Packets : p.route \in Routes /\ p.seq \in Nat \ {0}
  /\ \A p \in Packets : Data(p) \in Messages /\ Ack(p) \in Messages
  /\ \A m \in Messages : m.pkt \in Packets /\ Mailbox(m) \in Chains /\ m.type \in {"Data", "Ack"}
  BY NetworkAssumption, SMTT(30) DEF Packets, Messages, Data, Ack, Mailbox

LEMMA PublishType ==
  ASSUME NEW S, NEW queues \in [Relayers -> Seq(S)], NEW p \in S
  PROVE  /\ Publish(queues, p) \in [Relayers -> Seq(S)]
         /\ \A r \in Relayers : Publish(queues, p)[r] = Append(queues[r], p)
  BY AppendElements DEF Publish

LEMMA TypeInit == Init => TypeOK
<1> SUFFICES ASSUME Init PROVE TypeOK
  OBVIOUS
<1>1. <<>> \in Seq(Packets) /\ <<>> \in Seq(Messages)
  OBVIOUS
<1>2. NewChannel \in Channel
  BY DEF NewChannel, Channel, ChannelStates
<1> QED BY <1>1, <1>2 DEF Init, TypeOK

\* A message a relayer takes from the head of a queue
LEMMA RelayType ==
  ASSUME NEW S, network \in Seq(S), NEW r, NEW msg \in S, Relay(r, msg)
  PROVE  network' \in Seq(S)
  BY AppendElements DEF Relay

LEMMA SeqGrows ==
  ASSUME NEW S, NEW T, S \subseteq T
  PROVE  Seq(S) \subseteq Seq(T)
  OBVIOUS

LEMMA TypeStep == TypeOK /\ [Next]_vars => TypeOK'
<1> SUFFICES ASSUME TypeOK, [Next]_vars PROVE TypeOK'
  OBVIOUS
<1> USE RouteTypes DEF TypeOK
<1>1. ASSUME NEW c \in Chains, NEW e \in Ends, Open(c, e) PROVE TypeOK'
  BY <1>1, ChannelOperations DEF Open, busVars, history
<1>2. ASSUME NEW c \in Chains, NEW e \in Ends, Close(c, e) PROVE TypeOK'
  BY <1>2 DEF Close, busVars, history
<1>3. ASSUME NEW r \in Routes, Send(r) PROVE TypeOK'
  <2> DEFINE opened == OpenChannel(channels[r.src][r.srcEnd])
             p == [route |-> r, seq |-> opened.chan.nextSeq]
  <2>1. channels[r.src][r.srcEnd] \in Channel
    OBVIOUS
  <2>2. opened.chan \in Channel /\ opened.chan.nextSeq \in Nat \ {0}
    BY <2>1, ChannelOperations DEF Channel
  <2>3. MakePacket(opened.chan).chan \in Channel
    BY <2>2, ChannelOperations
  <2>4. opened.chan.nextSeq <= MaxSend
    BY <1>3 DEF Send
  <2>5. p \in Packets
    BY <2>2, <2>4, NetworkAssumption DEF Packets
  <2>6. Publish(pendingPackets, p) \in [Relayers -> Seq(Packets)]
    BY <2>5, PublishType
  <2>7. /\ channels' = [channels EXCEPT ![r.src][r.srcEnd] = MakePacket(opened.chan).chan]
        /\ pendingPackets' = Publish(pendingPackets, p)
        /\ sent' = sent \union {p}
        /\ UNCHANGED <<bindings, pendingAcks, turn, network, inbox, received, rejected, acksReceived>>
    BY <1>3 DEF Send
  <2> HIDE DEF opened, p
  <2> QED BY <2>3, <2>5, <2>6, <2>7
<1>4. ASSUME NEW r \in Relayers, RelayPacket(r) PROVE TypeOK'
  <2>1. CASE pendingPackets[r] = <<>>
    BY <1>4, <2>1 DEF RelayPacket, history
  <2>2. CASE pendingPackets[r] # <<>>
    <3>1. Head(pendingPackets[r]) \in Packets /\ Tail(pendingPackets[r]) \in Seq(Packets)
      BY <2>2, TailElements
    <3>2. network' \in Seq(Messages)
      BY <1>4, <2>2, <3>1, RelayType DEF RelayPacket
    <3> QED BY <1>4, <2>2, <3>1, <3>2 DEF RelayPacket, history
  <2> QED BY <2>1, <2>2
<1>5. ASSUME NEW r \in Relayers, RelayAck(r) PROVE TypeOK'
  <2>1. CASE pendingAcks[r] = <<>>
    BY <1>5, <2>1 DEF RelayAck, history
  <2>2. CASE pendingAcks[r] # <<>>
    <3>1. Head(pendingAcks[r]) \in Packets /\ Tail(pendingAcks[r]) \in Seq(Packets)
      BY <2>2, TailElements
    <3>2. network' \in Seq(Messages)
      BY <1>5, <2>2, <3>1, RelayType DEF RelayAck
    <3> QED BY <1>5, <2>2, <3>1, <3>2 DEF RelayAck, history
  <2> QED BY <2>1, <2>2
<1>6. ASSUME NEW k \in 1..Window, Deliver(k) PROVE TypeOK'
  <2>1. k \in DOMAIN network /\ network[k] \in Messages
    BY <1>6, LenProperties DEF Deliver
  <2>2. RemoveAt(network, k) \in Seq(Messages)
    BY <2>1, RemoveElements
  <2>3. Mailbox(network[k]) \in Chains
        /\ Append(inbox[Mailbox(network[k])], network[k]) \in Seq(Messages)
    BY <2>1, AppendElements
  <2> QED BY <1>6, <2>1, <2>2, <2>3 DEF Deliver, busVars, history
<1>7. ASSUME NEW c \in Chains, Handle(c) PROVE TypeOK'
  <2> DEFINE msg == Head(inbox[c])
  <2>1. msg \in Messages /\ Tail(inbox[c]) \in Seq(Messages)
    BY <1>7, TailElements DEF Handle
  <2>2. inbox' \in [Chains -> Seq(Messages)]
    BY <1>7, <2>1 DEF Handle
  <2>3. CASE msg.type = "Data"
    <3> DEFINE p == msg.pkt
               opened == OpenChannel(channels[c][p.route.dstEnd])
               accepted == AcceptPacket(opened.chan, p.seq)
    <3>1. p \in Packets /\ p.route.dstEnd \in Ends /\ p.seq \in Nat
      BY <2>1
    <3>2. accepted.chan \in Channel
      <4>1. opened.chan \in Channel
        BY <3>1, ChannelOperations
      <4> QED BY <3>1, <4>1, ChannelOperations
    <3>3. Recv(c, p)
      BY <1>7, <2>3 DEF Handle
    <3>4. channels' \in [Chains -> [Ends -> Channel]]
      BY <3>1, <3>2, <3>3 DEF Recv
    <3>5. CASE accepted.status = "Ok"
      <4>1. Append(received[c][p.route.dstEnd], p) \in Seq(Packets)
        BY <3>1, AppendElements
      <4>2. Publish(pendingAcks, p) \in [Relayers -> Seq(Packets)]
        BY <3>1, PublishType
      <4>3. /\ received' = [received EXCEPT ![c][p.route.dstEnd] = Append(@, p)]
            /\ pendingAcks' = Publish(pendingAcks, p)
            /\ UNCHANGED <<rejected, sent, acksReceived>>
        BY <3>3, <3>5 DEF Recv
      <4> HIDE DEF p, opened, accepted, msg
      <4> QED BY <1>7, <2>2, <3>1, <3>4, <4>1, <4>2, <4>3 DEF Handle
    <3>6. CASE accepted.status # "Ok"
      <4>1. /\ rejected' = rejected \/ rejected' = rejected \union {p}
            /\ UNCHANGED <<received, pendingAcks, sent, acksReceived>>
        BY <3>3, <3>6 DEF Recv
      <4> HIDE DEF p, opened, accepted, msg
      <4> QED BY <1>7, <2>2, <3>1, <3>4, <4>1 DEF Handle
    <3> QED BY <3>5, <3>6
  <2>4. CASE msg.type # "Data"
    <3>1. RecvAck(msg.pkt)
      BY <1>7, <2>4 DEF Handle
    <3>2. UNCHANGED <<bindings, pendingPackets, turn, network>>
      BY <1>7 DEF Handle
    <3>3. acksReceived' \in [Packets -> Nat]
      <4>1. acksReceived' = [acksReceived EXCEPT ![msg.pkt] = @ + 1]
        BY <3>1 DEF RecvAck
      <4>2. \A p \in Packets : acksReceived[p] + 1 \in Nat
        OBVIOUS
      <4> HIDE DEF msg
      <4> QED BY <2>1, <4>1, <4>2
    <3> HIDE DEF msg
    <3> QED BY <2>2, <3>1, <3>2, <3>3 DEF RecvAck
  <2> QED BY <2>3, <2>4
<1>8. CASE UNCHANGED vars
  BY <1>8 DEF vars
<1> QED BY <1>1, <1>2, <1>3, <1>4, <1>5, <1>6, <1>7, <1>8 DEF Next

\* Every variable of the composition keeps its type.
THEOREM TypeCorrect == Spec => []TypeOK
  BY TypeInit, TypeStep, PTL DEF Spec

-----------------------------------------------------------------------------
(* The invariant *)

\* What Blockchain::sendIBC() does to the counter of the sending end
LEMMA SendFacts ==
  ASSUME TypeOK, NeverClosed, NEW r \in Routes, Send(r)
  PROVE  \E p \in Packets :
           /\ p.route = r /\ p.seq = channels[r.src][r.srcEnd].nextSeq
           /\ sent' = sent \union {p}
           /\ pendingPackets' = Publish(pendingPackets, p)
           /\ channels'[r.src][r.srcEnd].nextSeq = p.seq + 1
           /\ channels'[r.src][r.srcEnd].state # "Closed"
           /\ \A c \in Chains, e \in Ends :
                c # r.src \/ e # r.srcEnd => channels'[c][e] = channels[c][e]
           /\ UNCHANGED <<pendingAcks, network, inbox, received, rejected, acksReceived>>
<1> DEFINE opened == OpenChannel(channels[r.src][r.srcEnd])
           p == [route |-> r, seq |-> opened.chan.nextSeq]
<1>1. channels[r.src][r.srcEnd] \in Channel
  BY RouteTypes DEF TypeOK
<1>2. /\ opened.chan \in Channel
      /\ opened.chan.nextSeq = channels[r.src][r.srcEnd].nextSeq
      /\ opened.chan.nextSeq \in Nat \ {0}
  BY <1>1, ChannelOperations DEF Channel
<1>3. p \in Packets
  BY <1>2, NetworkAssumption DEF Packets, Send
<1>4. /\ MakePacket(opened.chan).chan.nextSeq = opened.chan.nextSeq + 1
      /\ MakePacket(opened.chan).chan.state # "Closed"
  <2>1. opened.chan.state = "Open"
    BY <1>1, ChannelOperations, RouteTypes DEF NeverClosed
  <2> QED BY <1>2, <2>1, ChannelOperations DEF Send
<1>5. channels' = [channels EXCEPT ![r.src][r.srcEnd] = MakePacket(opened.chan).chan]
  BY DEF Send
<1>6. /\ channels'[r.src][r.srcEnd] = MakePacket(opened.chan).chan
      /\ \A c \in Chains, e \in Ends :
           c # r.src \/ e # r.srcEnd => channels'[c][e] = channels[c][e]
  <2> HIDE DEF opened
  <2> QED BY <1>5, RouteTypes DEF TypeOK
<1>7. /\ sent' = sent \union {p} /\ pendingPackets' = Publish(pendingPackets, p)
      /\ UNCHANGED <<pendingAcks, network, inbox, received, rejected, acksReceived>>
  BY DEF Send
<1>8. p.route = r /\ p.seq = opened.chan.nextSeq
  OBVIOUS
<1> HIDE DEF opened, p
<1> QED BY <1>2, <1>3, <1>4, <1>6, <1>7, <1>8

\* What Blockchain::onIBCPacket() does with the packet p at the head of an inbox
LEMMA RecvFacts ==
  ASSUME TypeOK, NeverClosed, QueuesSound, NEW c \in Chains, Handle(c), Head(inbox[c]).type = "Data"
  PROVE  \E p \in Packets :
           /\ p = Head(inbox[c]).pkt /\ p \in sent /\ p.route.dst = c
           /\ UNCHANGED <<sent, acksReceived, pendingPackets, network>>
           /\ \A d \in Chains, e \in Ends :
                d # c \/ e # p.route.dstEnd => channels'[d][e] = channels[d][e]
           /\ channels'[c][p.route.dstEnd].state # "Closed"
           /\ \/ /\ p.seq = channels[c][p.route.dstEnd].nextSeq
                 /\ channels'[c][p.route.dstEnd].nextSeq = channels[c][p.route.dstEnd].nextSeq + 1
                 /\ received' = [received EXCEPT ![c][p.route.dstEnd] = Append(@, p)]
                 /\ pendingAcks' = Publish(pendingAcks, p)
                 /\ UNCHANGED rejected
              \/ /\ p.seq # channels[c][p.route.dstEnd].nextSeq
                 /\ channels'[c][p.route.dstEnd].nextSeq = channels[c][p.route.dstEnd].nextSeq
                 /\ rejected' = IF Received(p) THEN rejected ELSE rejected \union {p}
                 /\ UNCHANGED <<received, pendingAcks>>
<1> DEFINE p == Head(inbox[c]).pkt
           opened == OpenChannel(channels[c][p.route.dstEnd])
           accepted == AcceptPacket(opened.chan, p.seq)
<1>1. /\ Head(inbox[c]) \in Messages /\ 1 \in DOMAIN inbox[c] /\ Head(inbox[c]) = inbox[c][1]
  BY TailElements DEF TypeOK, Handle
<1>2. p \in Packets /\ p.route.dstEnd \in Ends /\ p.seq \in Nat
  BY <1>1, RouteTypes
<1>3. p \in sent /\ p.route.dst = c
  <2>1. inbox[c] \in Seq(CopiesFor(c)) /\ inbox[c] # <<>>
    BY DEF QueuesSound, Handle
  <2>2. Head(inbox[c]) \in CopiesFor(c)
    BY <2>1, TailElements
  <2> QED BY <2>2 DEF CopiesFor, Copies, Mailbox
<1>4. Recv(c, p) /\ UNCHANGED <<pendingPackets, network>>
  BY DEF Handle
<1>5. /\ opened.chan \in Channel /\ opened.chan.state = "Open"
      /\ opened.chan.nextSeq = channels[c][p.route.dstEnd].nextSeq
  <2>1. channels[c][p.route.dstEnd] \in Channel /\ channels[c][p.route.dstEnd].state # "Closed"
    BY <1>2 DEF TypeOK, NeverClosed
  <2> QED BY <1>2, <2>1, ChannelOperations
<1>6. channels' = [channels EXCEPT ![c][p.route.dstEnd] = accepted.chan]
  BY <1>4 DEF Recv
<1>7. /\ channels'[c][p.route.dstEnd] = accepted.chan
      /\ \A d \in Chains, e \in Ends :
           d # c \/ e # p.route.dstEnd => channels'[d][e] = channels[d][e]
  <2> HIDE DEF accepted, p
  <2> QED BY <1>2, <1>6 DEF TypeOK
<1>8. accepted.chan.state # "Closed"
  BY <1>2, <1>5, ChannelOperations
<1>9. UNCHANGED <<sent, acksReceived>>
  BY <1>4 DEF Recv
<1>10. CASE accepted.status = "Ok"
  <2>1. p.seq = opened.chan.nextSeq /\ accepted.chan.nextSeq = opened.chan.nextSeq + 1
    BY <1>2, <1>5, <1>10, ChannelOperations
  <2>2. /\ received' = [received EXCEPT ![c][p.route.dstEnd] = Append(@, p)]
        /\ pendingAcks' = Publish(pendingAcks, p)
        /\ UNCHANGED rejected
    BY <1>4, <1>10 DEF Recv
  <2> HIDE DEF p, opened, accepted
  <2> QED BY <1>2, <1>3, <1>4, <1>5, <1>7, <1>8, <1>9, <2>1, <2>2 DEF p
<1>11. CASE accepted.status # "Ok"
  <2>1. p.seq # opened.chan.nextSeq /\ accepted.chan = opened.chan
    BY <1>2, <1>5, <1>11, ChannelOperations
  <2>2. /\ rejected' = IF Received(p) THEN rejected ELSE rejected \union {p}
        /\ UNCHANGED <<received, pendingAcks>>
    BY <1>3, <1>4, <1>11 DEF Recv, Received
  <2> HIDE DEF p, opened, accepted
  <2> QED BY <1>2, <1>3, <1>4, <1>5, <1>7, <1>8, <1>9, <2>1, <2>2 DEF p
<1> QED BY <1>10, <1>11

LEMMA InvariantInit == Init => IInv
<1> SUFFICES ASSUME Init PROVE IInv
  OBVIOUS
<1>1. TypeOK
  BY TypeInit
<1>2. NeverClosed
  BY DEF Init, NeverClosed, NewChannel
<1>3. QueuesSound
  <2>1. \A S : <<>> \in Seq(S)
    OBVIOUS
  <2> QED BY <2>1 DEF Init, QueuesSound
<1>4. AcksSound /\ Numbered /\ SentBelow
  BY DEF Init, AcksSound, Numbered, SentBelow
<1>5. Expecting
  BY RouteTypes DEF Init, Expecting, NewChannel
<1> QED BY <1>1, <1>2, <1>3, <1>4, <1>5 DEF IInv

\* What was sent stays sent and what was received stays received.
LEMMA Growth ==
  ASSUME IInv, Next
  PROVE  sent \subseteq sent' /\ Arrived \subseteq Arrived'
<1> USE DEF IInv
<1>1. ASSUME NEW c \in Chains, NEW e \in Ends, Open(c, e) \/ Close(c, e)
      PROVE  sent' = sent /\ received' = received
  BY <1>1 DEF Open, Close, history
<1>2. ASSUME NEW r \in Routes, Send(r) PROVE sent \subseteq sent' /\ received' = received
  BY <1>2, SendFacts
<1>3. ASSUME NEW r \in Relayers, RelayPacket(r) \/ RelayAck(r)
      PROVE  sent' = sent /\ received' = received
  BY <1>3 DEF RelayPacket, RelayAck, history
<1>4. ASSUME NEW k \in 1..Window, Deliver(k) PROVE sent' = sent /\ received' = received
  BY <1>4 DEF Deliver, history
<1>5. ASSUME NEW c \in Chains, Handle(c), Head(inbox[c]).type = "Data"
      PROVE  sent' = sent /\ \A q \in Packets : Received(q) => Received(q)'
  <2>1. PICK p \in Packets :
          /\ sent' = sent
          /\ \/ received' = [received EXCEPT ![c][p.route.dstEnd] = Append(@, p)]
             \/ received' = received
    BY <1>5, RecvFacts
  <2>2. CASE received' = [received EXCEPT ![c][p.route.dstEnd] = Append(@, p)]
    <3> SUFFICES ASSUME NEW q \in Packets, Received(q) PROVE Received(q)'
      BY <2>1
    <3>1. PICK k \in DOMAIN received[q.route.dst][q.route.dstEnd] :
            received[q.route.dst][q.route.dstEnd][k] = q
      BY DEF Received
    <3>2. /\ received[q.route.dst][q.route.dstEnd] \in Seq(Packets)
          /\ p.route.dstEnd \in Ends
      BY RouteTypes DEF TypeOK
    <3>3. CASE q.route.dst = c /\ q.route.dstEnd = p.route.dstEnd
      <4>1. received'[q.route.dst][q.route.dstEnd] = Append(received[q.route.dst][q.route.dstEnd], p)
        BY <2>2, <3>2, <3>3 DEF TypeOK
      <4> QED BY <3>1, <3>2, <4>1, AppendElements DEF Received
    <3>4. CASE ~(q.route.dst = c /\ q.route.dstEnd = p.route.dstEnd)
      <4>1. received'[q.route.dst][q.route.dstEnd] = received[q.route.dst][q.route.dstEnd]
        BY <2>2, <3>2, <3>4, RouteTypes DEF TypeOK
      <4> QED BY <3>1, <4>1 DEF Received
    <3> QED BY <3>3, <3>4
  <2>3. CASE received' = received
    BY <2>1, <2>3 DEF Received
  <2> QED BY <2>1, <2>2, <2>3
<1>6. ASSUME NEW c \in Chains, Handle(c), Head(inbox[c]).type # "Data"
      PROVE  sent' = sent /\ received' = received
  BY <1>6 DEF Handle, RecvAck
<1> QED BY <1>1, <1>2, <1>3, <1>4, <1>5, <1>6 DEF Next, Received, Arrived

\* What may be under way stays so.
LEMMA CopiesGrow ==
  ASSUME IInv, Next
  PROVE  /\ Copies \subseteq Copies' /\ \A c \in Chains : CopiesFor(c) \subseteq CopiesFor(c)'
         /\ pendingPackets \in [Relayers -> Seq(sent')]
         /\ pendingAcks \in [Relayers -> Seq(Arrived')]
         /\ network \in Seq(Copies')
         /\ \A c \in Chains : inbox[c] \in Seq(CopiesFor(c)')
<1>1. sent \subseteq sent' /\ Arrived \subseteq Arrived'
  BY Growth
<1>2. Copies \subseteq Copies'
  BY <1>1 DEF Copies
<1>3. \A c \in Chains : CopiesFor(c) \subseteq CopiesFor(c)'
  BY <1>2 DEF CopiesFor
<1>4. /\ Seq(sent) \subseteq Seq(sent') /\ Seq(Arrived) \subseteq Seq(Arrived')
      /\ Seq(Copies) \subseteq Seq(Copies')
  BY <1>1, <1>2, SeqGrows
<1>5. \A c \in Chains : Seq(CopiesFor(c)) \subseteq Seq(CopiesFor(c)')
  BY <1>3, SeqGrows
<1> QED BY <1>2, <1>3, <1>4, <1>5 DEF IInv, QueuesSound

LEMMA QueuesStep == IInv /\ Next => QueuesSound'
<1> SUFFICES ASSUME IInv, Next PROVE QueuesSound'
  OBVIOUS
<1> USE CopiesGrow DEF IInv
<1>1. ASSUME NEW c \in Chains, NEW e \in Ends, Open(c, e) \/ Close(c, e) PROVE QueuesSound'
  BY <1>1 DEF Open, Close, busVars, QueuesSound
<1>2. ASSUME NEW r \in Routes, Send(r) PROVE QueuesSound'
  <2>1. PICK p \in Packets :
          /\ sent' = sent \union {p} /\ pendingPackets' = Publish(pendingPackets, p)
          /\ UNCHANGED <<pendingAcks, network, inbox>>
    BY <1>2, SendFacts
  <2>2. pendingPackets' \in [Relayers -> Seq(sent')]
    <3>1. p \in sent'
      BY <2>1
    <3> QED BY <2>1, <3>1, PublishType
  <2> QED BY <2>1, <2>2 DEF QueuesSound
<1>3. ASSUME NEW r \in Relayers, RelayPacket(r) PROVE QueuesSound'
  <2>1. UNCHANGED <<pendingAcks, inbox>>
    BY <1>3 DEF RelayPacket
  <2>2. CASE pendingPackets[r] = <<>>
    BY <1>3, <2>1, <2>2 DEF RelayPacket, QueuesSound
  <2>3. CASE pendingPackets[r] # <<>>
    <3> DEFINE p == Head(pendingPackets[r])
    <3>1. p \in sent' /\ Tail(pendingPackets[r]) \in Seq(sent')
      BY <2>3, TailElements
    <3>2. pendingPackets' = [pendingPackets EXCEPT ![r] = Tail(@)] /\ Relay(r, Data(p))
      BY <1>3, <2>3 DEF RelayPacket
    <3>3. Data(p) \in Copies'
      <4>1. p \in Packets
        BY <2>3, TailElements DEF TypeOK
      <4> QED BY <3>1, <4>1, RouteTypes DEF Copies, Data
    <3>4. network' \in Seq(Copies')
      BY <3>2, <3>3, RelayType
    <3>5. pendingPackets' \in [Relayers -> Seq(sent')]
      BY <3>1, <3>2
    <3> QED BY <2>1, <3>4, <3>5 DEF QueuesSound
  <2> QED BY <2>2, <2>3
<1>4. ASSUME NEW r \in Relayers, RelayAck(r) PROVE QueuesSound'
  <2>1. UNCHANGED <<pendingPackets, inbox>>
    BY <1>4 DEF RelayAck
  <2>2. CASE pendingAcks[r] = <<>>
    BY <1>4, <2>1, <2>2 DEF RelayAck, QueuesSound
  <2>3. CASE pendingAcks[r] # <<>>
    <3> DEFINE p == Head(pendingAcks[r])
    <3>1. p \in Arrived' /\ Tail(pendingAcks[r]) \in Seq(Arrived')
      BY <2>3, TailElements
    <3>2. pendingAcks' = [pendingAcks EXCEPT ![r] = Tail(@)] /\ Relay(r, Ack(p))
      BY <1>4, <2>3 DEF RelayAck
    <3>3. Ack(p) \in Copies'
      <4>1. p \in Packets
        BY <2>3, TailElements DEF TypeOK
      <4> QED BY <3>1, <4>1, RouteTypes DEF Copies, Ack
    <3>4. network' \in Seq(Copies')
      BY <3>2, <3>3, RelayType
    <3>5. pendingAcks' \in [Relayers -> Seq(Arrived')]
      BY <3>1, <3>2
    <3> QED BY <2>1, <3>4, <3>5 DEF QueuesSound
  <2> QED BY <2>2, <2>3
<1>5. ASSUME NEW k \in 1..Window, Deliver(k) PROVE QueuesSound'
  <2>1. k \in DOMAIN network /\ network' = RemoveAt(network, k)
        /\ UNCHANGED <<pendingPackets, pendingAcks>>
    BY <1>5 DEF Deliver, busVars
  <2>2. network[k] \in Copies' /\ network[k] \in Messages /\ Mailbox(network[k]) \in Chains
    BY <2>1, LenProperties, RouteTypes DEF TypeOK
  <2>3. network' \in Seq(Copies')
    BY <2>1, RemoveElements
  <2>4. PICK box \in Chains : box = Mailbox(network[k])
    BY <2>2
  <2>5. \A c \in Chains : inbox'[c] = IF c = box THEN Append(inbox[c], network[k]) ELSE inbox[c]
    BY <1>5, <2>4 DEF Deliver, TypeOK
  <2>6. Append(inbox[box], network[k]) \in Seq(CopiesFor(box)')
    <3>1. network[k] \in CopiesFor(box)'
      BY <2>2, <2>4 DEF CopiesFor
    <3> QED BY <3>1, AppendElements
  <2>7. \A c \in Chains : inbox'[c] \in Seq(CopiesFor(c)')
    BY <2>5, <2>6
  <2> QED BY <2>1, <2>3, <2>7 DEF QueuesSound
<1>6. ASSUME NEW c \in Chains, Handle(c) PROVE QueuesSound'
  <2>1. /\ inbox[c] # <<>> /\ inbox' = [inbox EXCEPT ![c] = Tail(@)]
        /\ UNCHANGED <<pendingPackets, network>>
    BY <1>6 DEF Handle
  <2>2. \A d \in Chains : inbox'[d] \in Seq(CopiesFor(d)')
    <3>1. Tail(inbox[c]) \in Seq(CopiesFor(c)')
      BY <2>1, TailElements
    <3> QED BY <2>1, <3>1 DEF TypeOK
  <2>3. pendingAcks' \in [Relayers -> Seq(Arrived')]
    <3>1. CASE Head(inbox[c]).type = "Data"
      <4>1. PICK p \in Packets :
              /\ p.route.dst = c
              /\ \/ /\ received' = [received EXCEPT ![c][p.route.dstEnd] = Append(@, p)]
                    /\ pendingAcks' = Publish(pendingAcks, p)
                 \/ UNCHANGED pendingAcks
        <5>1. \E p \in Packets :
                /\ p.route.dst = c
                /\ \/ /\ received' = [received EXCEPT ![c][p.route.dstEnd] = Append(@, p)]
                      /\ pendingAcks' = Publish(pendingAcks, p)
                   \/ UNCHANGED <<received, pendingAcks>>
          <6> HIDE DEF IInv
          <6>1. TypeOK /\ NeverClosed /\ QueuesSound
            BY DEF IInv
          <6> QED BY <1>6, <3>1, <6>1, RecvFacts
        <5> QED BY <5>1
      <4>2. CASE UNCHANGED pendingAcks
        BY <4>2
      <4>3. CASE /\ received' = [received EXCEPT ![c][p.route.dstEnd] = Append(@, p)]
                 /\ pendingAcks' = Publish(pendingAcks, p)
        <5>1. received[c][p.route.dstEnd] \in Seq(Packets)
          BY RouteTypes DEF TypeOK
        <5>2. received'[c][p.route.dstEnd] = Append(received[c][p.route.dstEnd], p)
          BY <4>3, RouteTypes DEF TypeOK
        <5>3. p \in Arrived'
          <6>1. /\ Len(received[c][p.route.dstEnd]) + 1 \in DOMAIN received'[c][p.route.dstEnd]
                /\ received'[c][p.route.dstEnd][Len(received[c][p.route.dstEnd]) + 1] = p
            <7> DEFINE old == received[c][p.route.dstEnd]
            <7>1. old \in Seq(Packets)
              BY <5>1
            <7> HIDE DEF old
            <7>2. Len(old) + 1 \in DOMAIN Append(old, p) /\ Append(old, p)[Len(old) + 1] = p
              BY <7>1, AppendElements
            <7> QED BY <5>2, <7>2 DEF old
          <6>2. Received(p)'
            BY <4>1, <6>1 DEF Received
          <6> QED BY <6>2 DEF Arrived
        <5> QED BY <4>3, <5>3, PublishType
      <4> QED BY <4>1, <4>2, <4>3
    <3>2. CASE Head(inbox[c]).type # "Data"
      BY <1>6, <3>2 DEF Handle, RecvAck
    <3> QED BY <3>1, <3>2
  <2> QED BY <2>1, <2>2, <2>3 DEF QueuesSound
<1> QED BY <1>1, <1>2, <1>3, <1>4, <1>5, <1>6 DEF Next

\* The packets of the ends, their counters and the acks that came back
LEMMA ReceivedStep ==
  ASSUME IInv, Next
  PROVE  /\ NeverClosed' /\ AcksSound' /\ Numbered' /\ Expecting' /\ SentBelow'
<1> USE DEF IInv
<1>1. ASSUME sent' = sent, received' = received, acksReceived' = acksReceived,
             \A c \in Chains, e \in Ends :
               /\ channels'[c][e].nextSeq = channels[c][e].nextSeq
               /\ channels'[c][e].state # "Closed"
      PROVE  NeverClosed' /\ AcksSound' /\ Numbered' /\ Expecting' /\ SentBelow'
  <2>1. NeverClosed'
    BY <1>1 DEF NeverClosed
  <2>2. AcksSound' /\ Numbered'
    BY <1>1 DEF AcksSound, Numbered, Received
  <2>3. Expecting'
    BY <1>1, RouteTypes DEF Expecting
  <2>4. SentBelow'
    BY <1>1, RouteTypes DEF SentBelow, TypeOK
  <2> QED BY <2>1, <2>2, <2>3, <2>4
<1>2. ASSUME NEW c \in Chains, NEW e \in Ends, Open(c, e) \/ Close(c, e)
      PROVE  NeverClosed' /\ AcksSound' /\ Numbered' /\ Expecting' /\ SentBelow'
  <2>1. channels[c][e] \in Channel /\ channels[c][e].state # "Closed"
    BY DEF TypeOK, NeverClosed
  <2>2. /\ OpenChannel(channels[c][e]).chan.nextSeq = channels[c][e].nextSeq
        /\ OpenChannel(channels[c][e]).chan.state # "Closed"
    BY <2>1, ChannelOperations
  <2>3. channels' = channels \/ channels' = [channels EXCEPT ![c][e] = OpenChannel(@).chan]
    BY <1>2 DEF Open, Close
  <2>4. \A d \in Chains, f \in Ends :
          /\ channels'[d][f].nextSeq = channels[d][f].nextSeq
          /\ channels'[d][f].state # "Closed"
    <3>1. CASE channels' = channels
      BY <3>1 DEF NeverClosed
    <3>2. CASE channels' = [channels EXCEPT ![c][e] = OpenChannel(@).chan]
      <4>1. /\ channels'[c][e] = OpenChannel(channels[c][e]).chan
            /\ \A d \in Chains, f \in Ends : d # c \/ f # e => channels'[d][f] = channels[d][f]
        BY <3>2 DEF TypeOK
      <4> QED BY <2>2, <4>1 DEF NeverClosed
    <3> QED BY <2>3, <3>1, <3>2
  <2> QED BY <1>1, <1>2, <2>4 DEF Open, Close, history
<1>3. ASSUME NEW r \in Relayers, RelayPacket(r) \/ RelayAck(r)
      PROVE  NeverClosed' /\ AcksSound' /\ Numbered' /\ Expecting' /\ SentBelow'
  BY <1>1, <1>3 DEF RelayPacket, RelayAck, history, NeverClosed
<1>4. ASSUME NEW k \in 1..Window, Deliver(k)
      PROVE  NeverClosed' /\ AcksSound' /\ Numbered' /\ Expecting' /\ SentBelow'
  BY <1>1, <1>4 DEF Deliver, history, NeverClosed
<1>5. ASSUME NEW r \in Routes, Send(r)
      PROVE  NeverClosed' /\ AcksSound' /\ Numbered' /\ Expecting' /\ SentBelow'
  <2>1. PICK p \in Packets :
          /\ p.route = r /\ p.seq = channels[r.src][r.srcEnd].nextSeq
          /\ sent' = sent \union {p}
          /\ channels'[r.src][r.srcEnd].nextSeq = p.seq + 1
          /\ channels'[r.src][r.srcEnd].state # "Closed"
          /\ \A c \in Chains, e \in Ends :
               c # r.src \/ e # r.srcEnd => channels'[c][e] = channels[c][e]
          /\ UNCHANGED <<received, acksReceived>>
    BY <1>5, SendFacts
  <2>2. NeverClosed'
    BY <2>1 DEF NeverClosed
  <2>3. AcksSound' /\ Numbered'
    BY <2>1 DEF AcksSound, Numbered, Received
  <2>4. Expecting'
    <3>1. \A s \in Routes : s.dst # r.src \/ s.dstEnd # r.srcEnd
      BY NetworkAssumption
    <3> QED BY <2>1, <3>1, RouteTypes DEF Expecting
  <2>5. SentBelow'
    <3>1. ASSUME NEW q \in sent
          PROVE  q.seq < channels'[q.route.src][q.route.srcEnd].nextSeq
      <4>1. q \in Packets /\ q.route.src \in Chains /\ q.route.srcEnd \in Ends /\ q.seq \in Nat
        BY RouteTypes DEF TypeOK
      <4>2. q.seq < channels[q.route.src][q.route.srcEnd].nextSeq
        BY DEF SentBelow
      <4> QED BY <2>1, <4>1, <4>2, RouteTypes
    <3>2. p.seq < channels'[p.route.src][p.route.srcEnd].nextSeq
      BY <2>1, RouteTypes
    <3> QED BY <2>1, <3>1, <3>2 DEF SentBelow
  <2> QED BY <2>2, <2>3, <2>4, <2>5
<1>6. ASSUME NEW c \in Chains, Handle(c), Head(inbox[c]).type # "Data"
      PROVE  NeverClosed' /\ AcksSound' /\ Numbered' /\ Expecting' /\ SentBelow'
  <2> DEFINE p == Head(inbox[c]).pkt
  <2>1. RecvAck(p)
    BY <1>6 DEF Handle
  <2>2. p \in Packets /\ Received(p)
    <3>1. inbox[c] \in Seq(CopiesFor(c)) /\ inbox[c] # <<>>
      BY <1>6 DEF Handle, QueuesSound
    <3>2. Head(inbox[c]) \in CopiesFor(c)
      BY <3>1, TailElements
    <3> QED BY <1>6, <3>2 DEF CopiesFor, Copies, Arrived
  <2> HIDE DEF p
  <2>3. UNCHANGED <<channels, sent, received>>
    BY <2>1 DEF RecvAck
  <2>4. NeverClosed' /\ Numbered' /\ Expecting' /\ SentBelow'
    BY <2>3 DEF NeverClosed, Numbered, Expecting, SentBelow
  <2>5. AcksSound'
    BY <2>1, <2>2, <2>3 DEF AcksSound, RecvAck, Received, TypeOK
  <2> QED BY <2>4, <2>5
<1>7. ASSUME NEW c \in Chains, Handle(c), Head(inbox[c]).type = "Data"
      PROVE  NeverClosed' /\ AcksSound' /\ Numbered' /\ Expecting' /\ SentBelow'
  <2>1. PICK p \in Packets :
          /\ p \in sent /\ p.route.dst = c
          /\ UNCHANGED <<sent, acksReceived>>
          /\ \A d \in Chains, e \in Ends :
               d # c \/ e # p.route.dstEnd => channels'[d][e] = channels[d][e]
          /\ channels'[c][p.route.dstEnd].state # "Closed"
          /\ \/ /\ p.seq = channels[c][p.route.dstEnd].nextSeq
                /\ channels'[c][p.route.dstEnd].nextSeq = channels[c][p.route.dstEnd].nextSeq + 1
                /\ received' = [received EXCEPT ![c][p.route.dstEnd] = Append(@, p)]
             \/ /\ channels'[c][p.route.dstEnd].nextSeq = channels[c][p.route.dstEnd].nextSeq
                /\ UNCHANGED received
    BY <1>7, RecvFacts
  <2> DEFINE e == p.route.dstEnd
  <2>2. e \in Ends /\ p.route \in Routes /\ p.seq \in Nat
    BY RouteTypes
  <2>3. CASE UNCHANGED received /\ channels'[c][e].nextSeq = channels[c][e].nextSeq
    <3>1. \A d \in Chains, f \in Ends :
            /\ channels'[d][f].nextSeq = channels[d][f].nextSeq
            /\ channels'[d][f].state # "Closed"
      BY <2>1, <2>2, <2>3 DEF NeverClosed
    <3> QED BY <1>1, <2>1, <2>3, <3>1
  <2>4. CASE /\ p.seq = channels[c][e].nextSeq
             /\ channels'[c][e].nextSeq = channels[c][e].nextSeq + 1
             /\ received' = [received EXCEPT ![c][e] = Append(@, p)]
    <3>1. /\ received[c][e] \in Seq(Packets)
          /\ received'[c][e] = Append(received[c][e], p)
          /\ \A d \in Chains, f \in Ends : d # c \/ f # e => received'[d][f] = received[d][f]
      BY <2>2, <2>4 DEF TypeOK
    <3>2. p.seq = Len(received[c][e]) + 1
      BY <2>1, <2>2, <2>4 DEF Expecting
    <3>3. NeverClosed'
      BY <2>1, <2>2 DEF NeverClosed
    <3>4. AcksSound'
      BY <2>1, Growth DEF AcksSound, Arrived
    <3>5. Numbered'
      <4> SUFFICES ASSUME NEW d \in Chains, NEW f \in Ends, NEW k \in DOMAIN received'[d][f]
                   PROVE  /\ received'[d][f][k] \in sent'
                          /\ received'[d][f][k].route.dst = d /\ received'[d][f][k].route.dstEnd = f
                          /\ received'[d][f][k].seq = k
        BY DEF Numbered
      <4>1. CASE d = c /\ f = e
        <5>1. \/ k \in DOMAIN received[c][e] /\ received'[d][f][k] = received[c][e][k]
              \/ k = Len(received[c][e]) + 1 /\ received'[d][f][k] = p
          <6> DEFINE old == received[c][e]
          <6>1. old \in Seq(Packets) /\ received'[d][f] = Append(old, p)
            BY <3>1, <4>1
          <6> HIDE DEF old
          <6>2. \A j \in DOMAIN Append(old, p) :
                  \/ j \in DOMAIN old /\ Append(old, p)[j] = old[j]
                  \/ j = Len(old) + 1 /\ Append(old, p)[j] = p
            BY <6>1, AppendElements
          <6> QED BY <6>1, <6>2 DEF old
        <5> QED BY <2>1, <2>2, <3>2, <4>1, <5>1 DEF Numbered
      <4>2. CASE d # c \/ f # e
        BY <2>1, <3>1, <4>2 DEF Numbered
      <4> QED BY <4>1, <4>2
    <3>6. Expecting'
      <4> SUFFICES ASSUME NEW s \in Routes
                   PROVE  channels'[s.dst][s.dstEnd].nextSeq = Len(received'[s.dst][s.dstEnd]) + 1
        BY DEF Expecting
      <4>1. CASE s.dst = c /\ s.dstEnd = e
        <5>1. Len(received'[c][e]) = Len(received[c][e]) + 1
          BY <3>1, AppendElements
        <5>2. channels[c][e].nextSeq = Len(received[c][e]) + 1
          BY <4>1 DEF Expecting
        <5> QED BY <2>4, <4>1, <5>1, <5>2
      <4>2. CASE s.dst # c \/ s.dstEnd # e
        BY <2>1, <3>1, <4>2, RouteTypes DEF Expecting
      <4> QED BY <4>1, <4>2
    <3>7. SentBelow'
      <4> SUFFICES ASSUME NEW q \in sent
                   PROVE  q.seq < channels'[q.route.src][q.route.srcEnd].nextSeq
        BY <2>1 DEF SentBelow
      <4>1. q \in Packets /\ q.route \in Routes /\ q.route.src \in Chains /\ q.route.srcEnd \in Ends
        BY RouteTypes DEF TypeOK
      <4>2. q.route.src # c \/ q.route.srcEnd # e
        BY <2>1, <2>2, <4>1, NetworkAssumption
      <4> QED BY <2>1, <4>1, <4>2 DEF SentBelow
    <3> QED BY <3>3, <3>4, <3>5, <3>6, <3>7
  <2> HIDE DEF e
  <2> QED BY <2>1, <2>3, <2>4 DEF e
<1> QED BY <1>2, <1>3, <1>4, <1>5, <1>6, <1>7 DEF Next

THEOREM Invariant == Spec => []IInv
<1>1. Init => IInv
  BY InvariantInit
<1>2. IInv /\ [Next]_vars => IInv'
  <2> SUFFICES ASSUME IInv, [Next]_vars PROVE IInv'
    OBVIOUS
  <2>1. CASE Next
    <3>1. TypeOK'
      BY TypeStep DEF IInv
    <3> QED BY <2>1, <3>1, QueuesStep, ReceivedStep DEF IInv
  <2>2. CASE UNCHANGED vars
    <3>1. TypeOK' /\ NeverClosed' /\ AcksSound' /\ Numbered' /\ Expecting' /\ SentBelow'
      <4>1. TypeOK'
        BY TypeStep DEF IInv
      <4>2. NeverClosed' /\ Expecting' /\ SentBelow'
        BY <2>2 DEF vars, IInv, NeverClosed, Expecting, SentBelow
      <4>3. AcksSound' /\ Numbered'
        BY <2>2 DEF vars, IInv, AcksSound, Numbered, Received
      <4> QED BY <4>1, <4>2, <4>3
    <3>2. QueuesSound'
      <4>1. sent' = sent /\ Arrived' = Arrived
        BY <2>2 DEF vars, Arrived, Received
      <4>2. Copies' = Copies
        BY <4>1 DEF Copies
      <4>3. \A c \in Chains : CopiesFor(c)' = CopiesFor(c)
        BY <4>2 DEF CopiesFor
      <4> QED BY <2>2, <4>1, <4>2, <4>3 DEF vars, IInv, QueuesSound
    <3> QED BY <3>1, <3>2 DEF IInv
  <2> QED BY <2>1, <2>2
<1> QED BY <1>1, <1>2, PTL DEF Spec

\* Over any number of relayers, any loss and any reordering, each end accepts
\* packets that were sent to it, each once, numbered 1, 2, 3, ...
THEOREM OrderIsKept == Spec => []AcceptedInOrder
<1>1. IInv => AcceptedInOrder
  <2> SUFFICES ASSUME IInv, NEW c \in Chains, NEW e \in Ends, NEW k \in DOMAIN received[c][e]
               PROVE  LET p == received[c][e][k]
                      IN  /\ p \in sent /\ p.route.dst = c /\ p.route.dstEnd = e
                          /\ p.seq = k
                          /\ channels[c][e].nextSeq = Len(received[c][e]) + 1
    BY DEF AcceptedInOrder
  <2>1. /\ received[c][e][k] \in sent /\ received[c][e][k].seq = k
        /\ received[c][e][k].route.dst = c /\ received[c][e][k].route.dstEnd = e
    BY DEF IInv, Numbered
  <2>2. received[c][e][k].route \in Routes
    BY <2>1, RouteTypes DEF IInv, TypeOK
  <2> QED BY <2>1, <2>2 DEF IInv, Expecting
<1> QED BY <1>1, Invariant, PTL

-----------------------------------------------------------------------------
(* The composition implements the packet service. *)

LEMMA ServiceStep == IInv /\ [Next]_vars => [Service!Next]_(Service!vars)
<1> SUFFICES ASSUME IInv, [Next]_vars PROVE Service!Next \/ UNCHANGED Service!vars
  OBVIOUS
<1> USE DEF IInv
<1>1. ASSUME NEW c \in Chains, NEW e \in Ends, Open(c, e) \/ Close(c, e)
      PROVE  UNCHANGED Service!vars
  BY <1>1 DEF Open, Close, history, Service!vars
<1>2. ASSUME NEW r \in Routes, Send(r) PROVE Service!Next
  <2>1. PICK p \in Packets :
          /\ p.route = r /\ p.seq = channels[r.src][r.srcEnd].nextSeq
          /\ sent' = sent \union {p} /\ UNCHANGED <<received, acksReceived>>
    BY <1>2, SendFacts
  <2>2. \A q \in sent : <<q.route.src, q.route.srcEnd>> = <<p.route.src, p.route.srcEnd>>
                          => q.seq < p.seq
    BY <2>1 DEF SentBelow
  <2>3. Service!Send(p)
    BY <2>1, <2>2 DEF Service!Send
  <2> QED BY <2>3 DEF Service!Next
<1>3. ASSUME NEW r \in Relayers, RelayPacket(r) \/ RelayAck(r) PROVE UNCHANGED Service!vars
  BY <1>3 DEF RelayPacket, RelayAck, history, Service!vars
<1>4. ASSUME NEW k \in 1..Window, Deliver(k) PROVE UNCHANGED Service!vars
  BY <1>4 DEF Deliver, history, Service!vars
<1>5. ASSUME NEW c \in Chains, Handle(c), Head(inbox[c]).type = "Data"
      PROVE  Service!Next \/ UNCHANGED Service!vars
  <2>1. PICK p \in Packets :
          /\ p \in sent /\ p.route.dst = c
          /\ UNCHANGED <<sent, acksReceived>>
          /\ \/ /\ p.seq = channels[c][p.route.dstEnd].nextSeq
                /\ received' = [received EXCEPT ![c][p.route.dstEnd] = Append(@, p)]
             \/ UNCHANGED received
    BY <1>5, RecvFacts
  <2>2. CASE UNCHANGED received
    BY <2>1, <2>2 DEF Service!vars
  <2>3. CASE /\ p.seq = channels[c][p.route.dstEnd].nextSeq
             /\ received' = [received EXCEPT ![c][p.route.dstEnd] = Append(@, p)]
    <3>1. p.seq = Len(received[p.route.dst][p.route.dstEnd]) + 1
      BY <2>1, <2>3, RouteTypes DEF Expecting
    <3>2. Service!Receive(p)
      BY <2>1, <2>3, <3>1 DEF Service!Receive
    <3> QED BY <3>2 DEF Service!Next
  <2> QED BY <2>1, <2>2, <2>3
<1>6. ASSUME NEW c \in Chains, Handle(c), Head(inbox[c]).type # "Data" PROVE Service!Next
  <2> DEFINE p == Head(inbox[c]).pkt
  <2>1. p \in Arrived /\ RecvAck(p)
    <3>1. inbox[c] \in Seq(CopiesFor(c)) /\ inbox[c] # <<>>
      BY <1>6 DEF Handle, QueuesSound
    <3>2. Head(inbox[c]) \in CopiesFor(c)
      BY <3>1, TailElements
    <3> QED BY <1>6, <3>2 DEF CopiesFor, Copies, Handle
  <2> HIDE DEF p
  <2>2. p \in Packets /\ Service!Acknowledge(p)
    BY <2>1 DEF Arrived, Received, RecvAck, Service!Acknowledge, Service!Accepted
  <2> QED BY <2>2 DEF Service!Next
<1>7. CASE UNCHANGED vars
  BY <1>7 DEF vars, Service!vars
<1> QED BY <1>1, <1>2, <1>3, <1>4, <1>5, <1>6, <1>7 DEF Next

\* Chains, relayers, transport and inboxes together are an ordered, exactly-once
\* packet service whose acks follow acceptance.
THEOREM Refinement == Spec => ImplementsService
<1>1. Init => Service!Init
  BY DEF Init, Service!Init
<1> QED BY <1>1, Invariant, ServiceStep, PTL DEF Spec, ImplementsService, Service!Spec

-----------------------------------------------------------------------------
(* What a receiving end refuses *)

\* Every number below the counter of a sending end was sent from that end, on one
\* route or another.
AllSent ==
  \A r \in Routes, n \in 1..MaxSend :
    n < channels[r.src][r.srcEnd].nextSeq =>
      \E q \in sent : q.route.src = r.src /\ q.route.srcEnd = r.srcEnd /\ q.seq = n

LEMMA AllSentStep ==
  ASSUME IInv, AllSent, [Next]_vars
  PROVE  AllSent'
<1> USE DEF IInv
<1>0. ASSUME sent' = sent,
             \A s \in Routes : channels'[s.src][s.srcEnd].nextSeq = channels[s.src][s.srcEnd].nextSeq
      PROVE  AllSent'
  BY <1>0 DEF AllSent
<1>1. ASSUME NEW c \in Chains, NEW e \in Ends, Open(c, e) \/ Close(c, e) PROVE AllSent'
  <2>1. channels[c][e] \in Channel
    BY DEF TypeOK
  <2>2. OpenChannel(channels[c][e]).chan.nextSeq = channels[c][e].nextSeq
    BY <2>1, ChannelOperations
  <2>3. channels' = channels \/ channels' = [channels EXCEPT ![c][e] = OpenChannel(@).chan]
    BY <1>1 DEF Open, Close
  <2>4. \A d \in Chains, f \in Ends : channels'[d][f].nextSeq = channels[d][f].nextSeq
    <3>1. CASE channels' = [channels EXCEPT ![c][e] = OpenChannel(@).chan]
      <4>1. /\ channels'[c][e] = OpenChannel(channels[c][e]).chan
            /\ \A d \in Chains, f \in Ends : d # c \/ f # e => channels'[d][f] = channels[d][f]
        BY <3>1 DEF TypeOK
      <4> QED BY <2>2, <4>1
    <3> QED BY <2>3, <3>1
  <2>5. sent' = sent
    BY <1>1 DEF Open, Close, history
  <2> QED BY <1>0, <2>4, <2>5, RouteTypes
<1>2. ASSUME NEW r \in Relayers, RelayPacket(r) \/ RelayAck(r) PROVE AllSent'
  BY <1>0, <1>2 DEF RelayPacket, RelayAck, history
<1>3. ASSUME NEW k \in 1..Window, Deliver(k) PROVE AllSent'
  BY <1>0, <1>3 DEF Deliver, history
<1>4. ASSUME NEW c \in Chains, Handle(c), Head(inbox[c]).type # "Data" PROVE AllSent'
  BY <1>0, <1>4 DEF Handle, RecvAck
<1>5. ASSUME NEW c \in Chains, Handle(c), Head(inbox[c]).type = "Data" PROVE AllSent'
  <2>1. PICK p \in Packets :
          /\ p.route.dst = c /\ sent' = sent
          /\ \A d \in Chains, e \in Ends :
               d # c \/ e # p.route.dstEnd => channels'[d][e] = channels[d][e]
    BY <1>5, RecvFacts
  <2>2. \A s \in Routes : s.src # c \/ s.srcEnd # p.route.dstEnd
    BY <2>1, RouteTypes, NetworkAssumption
  <2> QED BY <1>0, <2>1, <2>2, RouteTypes
<1>6. ASSUME NEW r \in Routes, Send(r) PROVE AllSent'
  <2>1. PICK p \in Packets :
          /\ p.route = r /\ p.seq = channels[r.src][r.srcEnd].nextSeq
          /\ sent' = sent \union {p}
          /\ channels'[r.src][r.srcEnd].nextSeq = p.seq + 1
          /\ \A c \in Chains, e \in Ends :
               c # r.src \/ e # r.srcEnd => channels'[c][e] = channels[c][e]
    BY <1>6, SendFacts
  <2>2. p = [route |-> r, seq |-> p.seq] /\ p.seq \in Nat
    BY <2>1 DEF Packets
  <2> SUFFICES ASSUME NEW s \in Routes, NEW n \in 1..MaxSend,
                      n < channels'[s.src][s.srcEnd].nextSeq
               PROVE  \E q \in sent' : q.route.src = s.src /\ q.route.srcEnd = s.srcEnd /\ q.seq = n
    BY DEF AllSent
  <2>3. CASE s.src = r.src /\ s.srcEnd = r.srcEnd
    <3>1. n < p.seq \/ n = p.seq
      BY <2>1, <2>2, <2>3
    <3> QED BY <2>1, <2>3, <3>1 DEF AllSent
  <2>4. CASE s.src # r.src \/ s.srcEnd # r.srcEnd
    BY <2>1, <2>4, RouteTypes DEF AllSent
  <2> QED BY <2>3, <2>4
<1>7. CASE UNCHANGED vars
  BY <1>0, <1>7 DEF vars
<1> QED BY <1>1, <1>2, <1>3, <1>4, <1>5, <1>6, <1>7 DEF Next

LEMMA RefusalStep ==
  ASSUME IInv, AllSent, [Next]_vars, NEW p \in rejected' \ rejected
  PROVE  \E q \in sent :
           LET sameSource == q.route.src = p.route.src /\ q.route.srcEnd = p.route.srcEnd
               accepted == AcceptedAt(p.route.dst, p.route.dstEnd, q)
           IN  \/ sameSource /\ q.seq < p.seq /\ ~accepted
               \/ ~sameSource /\ q.seq = p.seq /\ accepted
<1> USE DEF IInv
<1>1. PICK c \in Chains : Handle(c) /\ Head(inbox[c]).type = "Data"
  <2>1. CASE UNCHANGED vars
    BY <2>1 DEF vars
  <2>2. ASSUME NEW r \in Routes, Send(r) PROVE rejected' = rejected
    BY <2>2 DEF Send
  <2>3. ASSUME NEW d \in Chains, Handle(d), Head(inbox[d]).type # "Data"
        PROVE  rejected' = rejected
    BY <2>3 DEF Handle, RecvAck
  <2> QED BY <2>1, <2>2, <2>3 DEF Next, Open, Close, RelayPacket, RelayAck, Deliver, history
<1>2. /\ p \in Packets /\ p \in sent /\ p.route.dst = c
      /\ p.seq # channels[c][p.route.dstEnd].nextSeq
      /\ ~Received(p)
  BY <1>1, RecvFacts
<1> DEFINE got == received[c][p.route.dstEnd]
           next == Len(got) + 1
<1>3. /\ got \in Seq(Packets) /\ Len(got) \in Nat /\ DOMAIN got = 1 .. Len(got)
      /\ p.route \in Routes /\ p.seq \in 1..MaxSend
  <2>1. got \in Seq(Packets)
    BY <1>2, RouteTypes DEF TypeOK
  <2> QED BY <1>2, <2>1, LenProperties DEF Packets
<1>4. p.seq # next
  BY <1>2, <1>3 DEF Expecting
<1>5. CASE p.seq < next
  <2>1. p.seq \in DOMAIN got
    BY <1>3, <1>5
  <2> DEFINE q == got[p.seq]
  <2>2. q \in sent /\ q.route.dst = c /\ q.route.dstEnd = p.route.dstEnd /\ q.seq = p.seq
    BY <1>2, <1>3, <2>1, RouteTypes DEF Numbered
  <2>3. q # p
    BY <1>2, <2>1 DEF Received
  <2>4. q \in Packets /\ q.route \in Routes
    BY <2>2 DEF TypeOK, Packets
  <2>5. ~(q.route.src = p.route.src /\ q.route.srcEnd = p.route.srcEnd)
    <3> SUFFICES ASSUME q.route.src = p.route.src, q.route.srcEnd = p.route.srcEnd PROVE FALSE
      OBVIOUS
    <3>0. \A r, t \in [src : Chains, srcEnd : Ends, dst : Chains, dstEnd : Ends] :
            r.src = t.src /\ r.srcEnd = t.srcEnd /\ r.dst = t.dst /\ r.dstEnd = t.dstEnd => r = t
      OBVIOUS
    <3>1. q.route = p.route
      BY <1>2, <1>3, <2>2, <2>4, <3>0, NetworkAssumption
    <3> QED BY <1>2, <2>2, <2>3, <2>4, <3>1 DEF Packets
  <2>6. AcceptedAt(p.route.dst, p.route.dstEnd, q)
    BY <1>2, <2>1 DEF AcceptedAt
  <2> HIDE DEF q
  <2> QED BY <2>2, <2>5, <2>6
<1>6. CASE next < p.seq
  <2>1. next \in 1..MaxSend
    BY <1>3, <1>6, NetworkAssumption
  <2>2. p.seq < channels[p.route.src][p.route.srcEnd].nextSeq
    BY <1>2 DEF SentBelow
  <2>3. channels[p.route.src][p.route.srcEnd].nextSeq \in Nat
    BY <1>3, RouteTypes DEF TypeOK, Channel
  <2>4. next \in Nat /\ p.seq \in Nat
    BY <1>3
  <2>5. ASSUME NEW q \in sent, q.seq = next PROVE ~AcceptedAt(p.route.dst, p.route.dstEnd, q)
    <3> SUFFICES ASSUME NEW k \in DOMAIN got, got[k] = q PROVE FALSE
      BY <1>2 DEF AcceptedAt
    <3>1. got[k].seq = k
      BY <1>2, <1>3, RouteTypes DEF Numbered
    <3> QED BY <1>3, <2>5, <3>1
  <2> HIDE DEF next
  <2>6. next < channels[p.route.src][p.route.srcEnd].nextSeq
    BY <1>6, <2>2, <2>3, <2>4
  <2>7. PICK q \in sent :
          q.route.src = p.route.src /\ q.route.srcEnd = p.route.srcEnd /\ q.seq = next
    BY <1>3, <2>1, <2>6 DEF AllSent
  <2> QED BY <1>6, <2>5, <2>7
<1>7. next \in Nat /\ p.seq \in Nat
  BY <1>3
<1> HIDE DEF next
<1> QED BY <1>4, <1>5, <1>6, <1>7

\* An end refuses for the first time only packets that come early, or whose number
\* another source's packet took: no counter moves but by an accepted packet.
THEOREM RefusalsHaveCause == Spec => RefusedForCause
<1>1. Init => AllSent
  BY RouteTypes DEF Init, AllSent, NewChannel
<1>2. IInv /\ AllSent /\ [Next]_vars => AllSent'
  BY AllSentStep
<1>3. IInv /\ AllSent /\ [Next]_vars =>
        [\A p \in rejected' \ rejected : \E q \in sent :
           LET sameSource == q.route.src = p.route.src /\ q.route.srcEnd = p.route.srcEnd
               accepted == AcceptedAt(p.route.dst, p.route.dstEnd, q)
           IN  \/ sameSource /\ q.seq < p.seq /\ ~accepted
               \/ ~sameSource /\ q.seq = p.seq /\ accepted]_vars
  BY RefusalStep
<1> QED BY <1>1, <1>2, <1>3, Invariant, PTL DEF Spec, RefusedForCause

-----------------------------------------------------------------------------
(* One sequence at the end of another *)

\* t ends with s
EndsWith(t, s) ==
  /\ Len(s) <= Len(t)
  /\ \A i \in 1 .. Len(s) : s[i] = t[Len(t) - Len(s) + i]

Alike(s, t) == EndsWith(t, s) \/ EndsWith(s, t)

LEMMA SuffixAtEnd ==
  ASSUME NEW S, NEW s \in Seq(S), NEW t \in Seq(S), EndsWith(t, s)
  PROVE  IsSuffix(s, t)
<1>1. /\ Len(s) \in Nat /\ Len(t) \in Nat /\ Len(s) <= Len(t)
      /\ \A i \in 1 .. Len(s) : s[i] \in S
      /\ \A i \in 1 .. Len(t) : t[i] \in S
  BY LenProperties DEF EndsWith
<1>2. /\ Reverse(s) \in Seq(S) /\ Len(Reverse(s)) = Len(s)
      /\ \A i \in 1 .. Len(s) : Reverse(s)[i] = s[Len(s) - i + 1]
  BY <1>1 DEF Reverse
<1>3. /\ Reverse(t) \in Seq(S) /\ Len(Reverse(t)) = Len(t)
      /\ \A i \in 1 .. Len(t) : Reverse(t)[i] = t[Len(t) - i + 1]
  BY <1>1 DEF Reverse
<1> DEFINE a == SubSeq(Reverse(s), 1, Len(s))
           b == SubSeq(Reverse(t), 1, Len(s))
<1>4. /\ \A i \in 1 .. Len(s) : Reverse(s)[i] \in S
      /\ \A i \in 1 .. Len(t) : Reverse(t)[i] \in S
  BY <1>2, <1>3, LenProperties
<1>5. /\ a \in Seq(S) /\ Len(a) = Len(s)
      /\ \A i \in 1 .. Len(s) : a[i] = Reverse(s)[i]
  BY <1>1, <1>2, <1>4, SubSeqProperties
<1>6. /\ b \in Seq(S) /\ Len(b) = Len(s)
      /\ \A i \in 1 .. Len(s) : b[i] = Reverse(t)[i]
  BY <1>1, <1>3, <1>4, SubSeqProperties
<1>7. ASSUME NEW i \in 1 .. Len(s) PROVE a[i] = b[i]
  <2>1. /\ Len(s) - i + 1 \in 1 .. Len(s) /\ i \in 1 .. Len(t)
        /\ Len(t) - Len(s) + (Len(s) - i + 1) = Len(t) - i + 1
    BY <1>1
  <2>2. s[Len(s) - i + 1] = t[Len(t) - i + 1]
    BY <2>1 DEF EndsWith
  <2> QED BY <1>2, <1>3, <1>5, <1>6, <2>1, <2>2
<1> HIDE DEF a, b
<1>8. a = b
  BY <1>5, <1>6, <1>7, SeqEqual
<1> QED BY <1>1, <1>2, <1>3, <1>8 DEF IsSuffix, IsPrefix, a, b

LEMMA EndsWithItself ==
  ASSUME NEW S, NEW s \in Seq(S)
  PROVE  EndsWith(s, s)
<1>1. Len(s) \in Nat
  BY LenProperties
<1> QED BY <1>1 DEF EndsWith

LEMMA AlikeAppended ==
  ASSUME NEW S, NEW s \in Seq(S), NEW t \in Seq(S), NEW x \in S, Alike(s, t)
  PROVE  Alike(Append(s, x), Append(t, x))
<1>1. ASSUME NEW u \in Seq(S), NEW v \in Seq(S), EndsWith(v, u)
      PROVE  EndsWith(Append(v, x), Append(u, x))
  <2>1. /\ Len(u) \in Nat /\ Len(v) \in Nat /\ Len(u) <= Len(v)
        /\ DOMAIN u = 1 .. Len(u) /\ DOMAIN v = 1 .. Len(v)
        /\ Len(Append(u, x)) = Len(u) + 1 /\ Len(Append(v, x)) = Len(v) + 1
    BY <1>1, AppendElements DEF EndsWith
  <2>2. ASSUME NEW i \in 1 .. Len(u) + 1
        PROVE  Append(u, x)[i] = Append(v, x)[Len(v) - Len(u) + i]
    <3>1. CASE i = Len(u) + 1
      <4>1. Len(v) - Len(u) + i = Len(v) + 1
        BY <2>1, <3>1
      <4> QED BY <3>1, <4>1, AppendElements
    <3>2. CASE i # Len(u) + 1
      <4>1. i \in 1 .. Len(u) /\ Len(v) - Len(u) + i \in 1 .. Len(v)
        BY <2>1, <3>2
      <4>2. u[i] = v[Len(v) - Len(u) + i]
        BY <1>1, <4>1 DEF EndsWith
      <4> QED BY <2>1, <4>1, <4>2, AppendElements
    <3> QED BY <3>1, <3>2
  <2>3. /\ Len(Append(v, x)) - Len(Append(u, x)) = Len(v) - Len(u)
        /\ Len(Append(u, x)) <= Len(Append(v, x))
    BY <2>1
  <2>4. \A i \in 1 .. Len(Append(u, x)) :
          Append(u, x)[i] = Append(v, x)[Len(Append(v, x)) - Len(Append(u, x)) + i]
    BY <2>1, <2>2, <2>3
  <2> QED BY <2>3, <2>4, Zenon DEF EndsWith
<1> QED BY <1>1 DEF Alike

LEMMA AlikeTail ==
  ASSUME NEW S, NEW s \in Seq(S), NEW t \in Seq(S), s # <<>>, Alike(s, t)
  PROVE  Alike(Tail(s), t) /\ Alike(t, Tail(s))
<1>1. /\ Len(s) \in Nat \ {0} /\ Len(t) \in Nat
      /\ Tail(s) \in Seq(S) /\ Len(Tail(s)) = Len(s) - 1
      /\ \A i \in 1 .. Len(s) - 1 : Tail(s)[i] = s[i + 1]
  BY HeadTailProperties, LenProperties, EmptySeq, TailElements
<1>2. CASE EndsWith(t, s)
  <2>1. Len(s) - 1 <= Len(t)
    BY <1>1, <1>2 DEF EndsWith
  <2>2. ASSUME NEW i \in 1 .. Len(s) - 1
        PROVE  Tail(s)[i] = t[Len(t) - (Len(s) - 1) + i]
    <3>1. i + 1 \in 1 .. Len(s) /\ Len(t) - Len(s) + (i + 1) = Len(t) - (Len(s) - 1) + i
      BY <1>1
    <3>2. s[i + 1] = t[Len(t) - Len(s) + (i + 1)]
      BY <1>2, <3>1 DEF EndsWith
    <3> QED BY <1>1, <3>1, <3>2
  <2> QED BY <1>1, <2>1, <2>2 DEF EndsWith, Alike
<1>3. CASE EndsWith(s, t) /\ Len(t) # Len(s)
  <2>1. Len(t) <= Len(s) - 1
    BY <1>1, <1>3 DEF EndsWith
  <2>2. ASSUME NEW i \in 1 .. Len(t)
        PROVE  t[i] = Tail(s)[(Len(s) - 1) - Len(t) + i]
    <3>1. /\ (Len(s) - 1) - Len(t) + i \in 1 .. Len(s) - 1
          /\ ((Len(s) - 1) - Len(t) + i) + 1 = Len(s) - Len(t) + i
      BY <1>1, <2>1
    <3>2. t[i] = s[Len(s) - Len(t) + i]
      BY <1>3 DEF EndsWith
    <3> QED BY <1>1, <3>1, <3>2
  <2> QED BY <1>1, <2>1, <2>2 DEF EndsWith, Alike
<1>4. CASE EndsWith(s, t) /\ Len(t) = Len(s)
  <2>1. \A i \in 1 .. Len(s) : t[i] = s[i]
    BY <1>1, <1>4 DEF EndsWith
  <2>2. EndsWith(t, s)
    BY <1>1, <1>4, <2>1 DEF EndsWith
  <2> QED BY <1>2, <2>2
<1> QED BY <1>2, <1>3, <1>4 DEF Alike

-----------------------------------------------------------------------------
(* All relayers are given the same *)

AllAlike(queues) == \A r, s \in Relayers : Alike(queues[r], queues[s])

QueuesAlike == AllAlike(pendingPackets) /\ AllAlike(pendingAcks)

LEMMA PublishedAlike ==
  ASSUME NEW S, NEW queues \in [Relayers -> Seq(S)], NEW p \in S, AllAlike(queues)
  PROVE  AllAlike(Publish(queues, p))
<1> SUFFICES ASSUME NEW r \in Relayers, NEW s \in Relayers
             PROVE  Alike(Publish(queues, p)[r], Publish(queues, p)[s])
  BY DEF AllAlike
<1>1. queues[r] \in Seq(S) /\ queues[s] \in Seq(S) /\ Alike(queues[r], queues[s])
  BY DEF AllAlike
<1>2. Alike(Append(queues[r], p), Append(queues[s], p))
  BY <1>1, AlikeAppended
<1>3. Publish(queues, p)[r] = Append(queues[r], p) /\ Publish(queues, p)[s] = Append(queues[s], p)
  BY DEF Publish
<1> QED BY <1>2, <1>3, Zenon

LEMMA TakenAlike ==
  ASSUME NEW S, NEW queues \in [Relayers -> Seq(S)], AllAlike(queues),
         NEW t \in Relayers, queues[t] # <<>>
  PROVE  AllAlike([queues EXCEPT ![t] = Tail(@)])
<1> DEFINE taken == [queues EXCEPT ![t] = Tail(@)]
<1>1. taken[t] = Tail(queues[t]) /\ \A r \in Relayers \ {t} : taken[r] = queues[r]
  OBVIOUS
<1>2. taken[t] \in Seq(S)
  BY <1>1, TailElements
<1> HIDE DEF taken
<1> SUFFICES ASSUME NEW r \in Relayers, NEW s \in Relayers PROVE Alike(taken[r], taken[s])
  BY DEF AllAlike, taken
<1>3. CASE r = t /\ s = t
  BY <1>2, <1>3, EndsWithItself DEF Alike
<1>4. CASE r = t /\ s # t
  <2>1. queues[s] \in Seq(S) /\ queues[t] \in Seq(S) /\ Alike(queues[t], queues[s])
    BY DEF AllAlike
  <2> QED BY <1>1, <1>4, <2>1, AlikeTail
<1>5. CASE r # t /\ s = t
  <2>1. queues[r] \in Seq(S) /\ queues[t] \in Seq(S) /\ Alike(queues[t], queues[r])
    BY DEF AllAlike
  <2> QED BY <1>1, <1>5, <2>1, AlikeTail
<1>6. CASE r # t /\ s # t
  BY <1>1, <1>6 DEF AllAlike
<1> QED BY <1>3, <1>4, <1>5, <1>6

LEMMA AlikeStep ==
  ASSUME IInv, QueuesAlike, [Next]_vars
  PROVE  QueuesAlike'
<1> USE DEF IInv
<1>0. ASSUME UNCHANGED busVars PROVE QueuesAlike'
  BY <1>0 DEF busVars, QueuesAlike, AllAlike
<1>1. ASSUME NEW c \in Chains, NEW e \in Ends, Open(c, e) \/ Close(c, e) PROVE QueuesAlike'
  BY <1>0, <1>1 DEF Open, Close
<1>2. ASSUME NEW route \in Routes, Send(route) PROVE QueuesAlike'
  <2>1. PICK p \in Packets :
          pendingPackets' = Publish(pendingPackets, p) /\ UNCHANGED pendingAcks
    BY <1>2, SendFacts
  <2>2. AllAlike(Publish(pendingPackets, p))
    BY PublishedAlike DEF TypeOK, QueuesAlike
  <2> QED BY <2>1, <2>2 DEF QueuesAlike
<1>3. ASSUME NEW r \in Relayers, RelayPacket(r) PROVE QueuesAlike'
  <2>1. CASE pendingPackets[r] = <<>>
    BY <1>0, <1>3, <2>1 DEF RelayPacket, busVars
  <2>2. CASE pendingPackets[r] # <<>>
    <3>1. pendingPackets' = [pendingPackets EXCEPT ![r] = Tail(@)] /\ UNCHANGED pendingAcks
      BY <1>3, <2>2 DEF RelayPacket
    <3>2. AllAlike([pendingPackets EXCEPT ![r] = Tail(@)])
      BY <2>2, TakenAlike DEF TypeOK, QueuesAlike
    <3> QED BY <3>1, <3>2 DEF QueuesAlike
  <2> QED BY <2>1, <2>2
<1>4. ASSUME NEW r \in Relayers, RelayAck(r) PROVE QueuesAlike'
  <2>1. CASE pendingAcks[r] = <<>>
    BY <1>0, <1>4, <2>1 DEF RelayAck, busVars
  <2>2. CASE pendingAcks[r] # <<>>
    <3>1. pendingAcks' = [pendingAcks EXCEPT ![r] = Tail(@)] /\ UNCHANGED pendingPackets
      BY <1>4, <2>2 DEF RelayAck
    <3>2. AllAlike([pendingAcks EXCEPT ![r] = Tail(@)])
      BY <2>2, TakenAlike DEF TypeOK, QueuesAlike
    <3> QED BY <3>1, <3>2 DEF QueuesAlike
  <2> QED BY <2>1, <2>2
<1>5. ASSUME NEW k \in 1..Window, Deliver(k) PROVE QueuesAlike'
  BY <1>0, <1>5 DEF Deliver
<1>6. ASSUME NEW c \in Chains, Handle(c), Head(inbox[c]).type = "Data" PROVE QueuesAlike'
  <2>1. PICK p \in Packets :
          /\ UNCHANGED pendingPackets
          /\ pendingAcks' = Publish(pendingAcks, p) \/ UNCHANGED pendingAcks
    BY <1>6, RecvFacts
  <2>2. AllAlike(Publish(pendingAcks, p))
    BY PublishedAlike DEF TypeOK, QueuesAlike
  <2> QED BY <2>1, <2>2 DEF QueuesAlike
<1>7. ASSUME NEW c \in Chains, Handle(c), Head(inbox[c]).type # "Data" PROVE QueuesAlike'
  BY <1>0, <1>7 DEF Handle, RecvAck, busVars
<1>8. CASE UNCHANGED vars
  BY <1>0, <1>8 DEF vars, busVars
<1> QED BY <1>1, <1>2, <1>3, <1>4, <1>5, <1>6, <1>7, <1>8 DEF Next

\* What one relayer has still to relay ends with what another has: they are
\* given all packets and all acks in one order, however far behind they are.
THEOREM SameForAll == Spec => []RelayersAgree
<1>1. Init => QueuesAlike
  <2>1. \A s : s = <<>> => EndsWith(s, s)
    BY DEF EndsWith
  <2> QED BY <2>1 DEF Init, QueuesAlike, AllAlike, Alike
<1>2. IInv /\ QueuesAlike /\ [Next]_vars => QueuesAlike'
  BY AlikeStep
<1>3. IInv /\ QueuesAlike => RelayersAgree
  <2> SUFFICES ASSUME TypeOK, QueuesAlike, NEW r \in Relayers, NEW s \in Relayers
               PROVE  /\ \/ IsSuffix(pendingPackets[r], pendingPackets[s])
                         \/ IsSuffix(pendingPackets[s], pendingPackets[r])
                      /\ \/ IsSuffix(pendingAcks[r], pendingAcks[s])
                         \/ IsSuffix(pendingAcks[s], pendingAcks[r])
    BY DEF IInv, RelayersAgree
  <2>1. /\ pendingPackets[r] \in Seq(Packets) /\ pendingPackets[s] \in Seq(Packets)
        /\ pendingAcks[r] \in Seq(Packets) /\ pendingAcks[s] \in Seq(Packets)
    BY DEF TypeOK
  <2>2. Alike(pendingPackets[r], pendingPackets[s]) /\ Alike(pendingAcks[r], pendingAcks[s])
    BY DEF QueuesAlike, AllAlike
  <2> QED BY <2>1, <2>2, SuffixAtEnd, Zenon DEF Alike
<1> QED BY <1>1, <1>2, <1>3, Invariant, PTL DEF Spec

-----------------------------------------------------------------------------
(* How often a sequence holds an element *)

LEMMA OccurrencesType ==
  ASSUME NEW S, NEW s \in Seq(S), NEW m
  PROVE  IsFiniteSet(Positions(s, m)) /\ Occurrences(s, m) \in Nat
<1>1. Len(s) \in Nat
  BY LenProperties
<1>2. IsFiniteSet(1 .. Len(s))
  BY <1>1, FS_Interval
<1>3. Positions(s, m) \in SUBSET (1 .. Len(s))
  BY DEF Positions
<1> QED BY <1>2, <1>3, FS_Subset, FS_CardinalityType DEF Occurrences

LEMMA OccursNever ==
  ASSUME NEW S, NEW s \in Seq(S), NEW m, m \notin S
  PROVE  Occurrences(s, m) = 0
<1>1. \A k \in 1 .. Len(s) : s[k] \in S
  BY LenProperties
<1>2. Positions(s, m) = {}
  BY <1>1 DEF Positions
<1> QED BY <1>2, FS_EmptySet DEF Occurrences

LEMMA OccursAppended ==
  ASSUME NEW S, NEW s \in Seq(S), NEW x \in S, NEW m
  PROVE  Occurrences(Append(s, x), m) = Occurrences(s, m) + (IF x = m THEN 1 ELSE 0)
<1>1. /\ Len(s) \in Nat /\ DOMAIN s = 1 .. Len(s)
      /\ Len(Append(s, x)) = Len(s) + 1
      /\ Append(s, x)[Len(s) + 1] = x
      /\ \A k \in 1 .. Len(s) : Append(s, x)[k] = s[k]
  BY AppendElements
<1>2. /\ IsFiniteSet(Positions(s, m)) /\ Occurrences(s, m) \in Nat
      /\ Len(s) + 1 \notin Positions(s, m)
  <2>1. Len(s) + 1 \notin Positions(s, m)
    BY <1>1 DEF Positions
  <2> QED BY <2>1, OccurrencesType
<1>3. CASE x = m
  <2>1. Positions(Append(s, x), m) = Positions(s, m) \cup {Len(s) + 1}
    BY <1>1, <1>3 DEF Positions
  <2> QED BY <1>2, <1>3, <2>1, FS_AddElement DEF Occurrences
<1>4. CASE x # m
  <2>1. Positions(Append(s, x), m) = Positions(s, m)
    BY <1>1, <1>4 DEF Positions
  <2> QED BY <1>2, <1>4, <2>1 DEF Occurrences
<1> QED BY <1>3, <1>4

\* t is s without its element at i.
Without(t, s, i) ==
  /\ Len(t) = Len(s) - 1
  /\ \A k \in 1 .. Len(s) - 1 : t[k] = s[IF k < i THEN k ELSE k + 1]

LEMMA OccursWithout ==
  ASSUME NEW S, NEW s \in Seq(S), NEW t \in Seq(S), NEW i \in 1 .. Len(s), Without(t, s, i), NEW m
  PROVE  Occurrences(s, m) = Occurrences(t, m) + (IF s[i] = m THEN 1 ELSE 0)
<1> DEFINE moved == [k \in Positions(t, m) |-> IF k < i THEN k ELSE k + 1]
           left == Positions(s, m) \ {i}
<1>1. Len(s) \in Nat /\ Len(t) = Len(s) - 1 /\ Len(t) \in Nat /\ i \in Nat
  BY LenProperties DEF Without
<1>2. ASSUME NEW k \in Positions(t, m) PROVE moved[k] \in left
  <2>1. k \in 1 .. Len(s) - 1 /\ t[k] = m /\ t[k] = s[IF k < i THEN k ELSE k + 1]
    BY <1>1 DEF Positions, Without
  <2>2. (IF k < i THEN k ELSE k + 1) \in 1 .. Len(s) /\ (IF k < i THEN k ELSE k + 1) # i
    BY <1>1, <2>1
  <2> QED BY <2>1, <2>2 DEF Positions
<1>3. ASSUME NEW j \in Positions(t, m), NEW k \in Positions(t, m), moved[j] = moved[k]
      PROVE  j = k
  BY <1>1, <1>3 DEF Positions
<1>4. ASSUME NEW j \in left PROVE \E k \in Positions(t, m) : moved[k] = j
  <2>1. j \in 1 .. Len(s) /\ s[j] = m /\ j # i
    BY DEF Positions
  <2> DEFINE k == IF j < i THEN j ELSE j - 1
  <2>2. k \in 1 .. Len(s) - 1 /\ (IF k < i THEN k ELSE k + 1) = j
    BY <1>1, <2>1
  <2>3. k \in Positions(t, m)
    BY <1>1, <2>1, <2>2 DEF Positions, Without
  <2> QED BY <2>2, <2>3
<1>5. moved \in Bijection(Positions(t, m), left)
  <2>1. moved \in [Positions(t, m) -> left]
    BY <1>2
  <2>2. DOMAIN moved = Positions(t, m)
    OBVIOUS
  <2> HIDE DEF moved, left
  <2> QED BY <1>3, <1>4, <2>1, <2>2 DEF Bijection, Injection, Surjection, IsInjective
<1>6. Cardinality(left) = Occurrences(t, m)
  BY <1>5, OccurrencesType, FS_Bijection DEF ExistsBijection, Occurrences
<1>7. i \in Positions(s, m) <=> s[i] = m
  BY DEF Positions
<1>8. /\ IsFiniteSet(Positions(s, m)) /\ Occurrences(s, m) \in Nat
  BY OccurrencesType
<1>9. Cardinality(left) = IF s[i] = m THEN Occurrences(s, m) - 1 ELSE Occurrences(s, m)
  BY <1>7, <1>8, FS_RemoveElement DEF Occurrences
<1> HIDE DEF left
<1> QED BY <1>6, <1>8, <1>9

LEMMA OccursInTail ==
  ASSUME NEW S, NEW s \in Seq(S), s # <<>>, NEW m
  PROVE  Occurrences(s, m) = Occurrences(Tail(s), m) + (IF Head(s) = m THEN 1 ELSE 0)
<1>1. /\ Len(s) \in Nat \ {0} /\ Tail(s) \in Seq(S) /\ Len(Tail(s)) = Len(s) - 1
      /\ \A k \in 1 .. Len(s) - 1 : Tail(s)[k] = s[k + 1]
      /\ Head(s) = s[1]
  BY HeadTailProperties, LenProperties, EmptySeq, TailElements
<1>2. 1 \in 1 .. Len(s) /\ Without(Tail(s), s, 1)
  BY <1>1 DEF Without
<1> DEFINE t == Tail(s)
           i == 1
<1>3. t \in Seq(S) /\ i \in 1 .. Len(s) /\ Without(t, s, i) /\ Head(s) = s[i]
  BY <1>1, <1>2
<1> HIDE DEF t, i
<1>4. Occurrences(s, m) = Occurrences(t, m) + (IF s[i] = m THEN 1 ELSE 0)
  BY <1>3, OccursWithout
<1> QED BY <1>3, <1>4 DEF t

LEMMA OccursInRest ==
  ASSUME NEW S, NEW s \in Seq(S), NEW i \in 1 .. Len(s), NEW m
  PROVE  Occurrences(s, m) = Occurrences(RemoveAt(s, i), m) + (IF s[i] = m THEN 1 ELSE 0)
<1> DEFINE t == RemoveAt(s, i)
<1>1. i \in DOMAIN s
  BY LenProperties
<1>2. t \in Seq(S) /\ Without(t, s, i)
  BY <1>1, RemoveElements DEF Without
<1> HIDE DEF t
<1>3. Occurrences(s, m) = Occurrences(t, m) + (IF s[i] = m THEN 1 ELSE 0)
  BY <1>2, OccursWithout
<1> QED BY <1>3 DEF t

-----------------------------------------------------------------------------
(* The copies of an ack *)

HeldOnce ==
  \A r \in Relayers : \A j, k \in DOMAIN pendingAcks[r] :
    pendingAcks[r][j] = pendingAcks[r][k] => j = k

OneCopyEach == \A p \in Packets : CopiesOfAck(p) <= Cardinality(Relayers)

\* A relayer that still holds the ack counts for one that may pass it on, whether it
\* drops or not.
KeptEach ==
  \A p \in Packets : Received(p) /\ p.route.src \notin Unconnected =>
    Cardinality(Reliable \union Holders(p)) <= CopiesOfAck(p)

CopyInv == HeldOnce /\ OneCopyEach /\ KeptEach

LEMMA AckNames ==
  /\ \A p, q : Ack(p) = Ack(q) => p = q
  /\ \A p, q : Data(p) # Ack(q)
  /\ \A m \in Messages : m.type # "Data" => m = Ack(m.pkt)
  /\ \A p : Ack(p).type # "Data" /\ Ack(p).pkt = p /\ Mailbox(Ack(p)) = p.route.src
  /\ \A p : Data(p).type = "Data"
<1>1. \A p, q : Ack(p) = Ack(q) => p = q
  <2> TAKE p, q
  <2>1. Ack(p).pkt = p /\ Ack(q).pkt = q
    BY DEF Ack
  <2> QED BY <2>1, Zenon
<1>2. \A p : Ack(p).type = "Ack" /\ Ack(p).pkt = p /\ Data(p).type = "Data"
  BY DEF Ack, Data
<1>3. \A m \in Messages : m.type # "Data" => m = Ack(m.pkt)
  BY DEF Messages, Ack
<1>4. \A p : Mailbox(Ack(p)) = p.route.src
  BY <1>2 DEF Mailbox
<1>5. \A p, q : Data(p) # Ack(q)
  <2> TAKE p, q
  <2>1. Data(p).type = "Data" /\ Ack(q).type = "Ack"
    BY <1>2
  <2> QED BY <2>1
<1> QED BY <1>1, <1>2, <1>3, <1>4, <1>5

LEMMA HoldersFinite ==
  ASSUME NEW p
  PROVE  /\ IsFiniteSet(Holders(p)) /\ Cardinality(Holders(p)) \in Nat
         /\ Cardinality(Holders(p)) <= Cardinality(Relayers) /\ Cardinality(Relayers) \in Nat
<1>1. Holders(p) \in SUBSET Relayers /\ IsFiniteSet(Relayers)
  BY NetworkAssumption DEF Holders
<1> QED BY <1>1, FS_Subset, FS_CardinalityType

LEMMA CopiesType ==
  ASSUME TypeOK, NEW p \in Packets
  PROVE  /\ p.route.src \in Chains
         /\ Cardinality(Holders(p)) \in Nat /\ Occurrences(network, Ack(p)) \in Nat
         /\ \A c \in Chains : Occurrences(inbox[c], Ack(p)) \in Nat
         /\ acksReceived[p] \in Nat
<1>1. p.route.src \in Chains
  BY RouteTypes
<1>2. network \in Seq(Messages) /\ acksReceived[p] \in Nat
  BY DEF TypeOK
<1>3. ASSUME NEW c \in Chains PROVE Occurrences(inbox[c], Ack(p)) \in Nat
  <2>1. inbox[c] \in Seq(Messages)
    BY DEF TypeOK
  <2> QED BY <2>1, OccurrencesType
<1>4. Occurrences(network, Ack(p)) \in Nat
  BY <1>2, OccurrencesType
<1> QED BY <1>1, <1>2, <1>3, <1>4, HoldersFinite

\* Before its packet is accepted an ack is nowhere.
LEMMA NoAckBefore ==
  ASSUME IInv, NEW p \in Packets, ~Received(p)
  PROVE  /\ \A r \in Relayers : ~Holds(r, p)
         /\ CopiesOfAck(p) = 0 /\ Cardinality(Holders(p)) = 0
<1>1. p \notin Arrived
  BY DEF Arrived
<1>2. ASSUME NEW r \in Relayers PROVE ~Holds(r, p)
  <2>1. pendingAcks[r] \in Seq(Arrived)
    BY DEF IInv, QueuesSound
  <2>2. \A k \in DOMAIN pendingAcks[r] : pendingAcks[r][k] \in Arrived
    BY <2>1, LenProperties
  <2> QED BY <1>1, <2>2 DEF Holds
<1>3. Holders(p) = {}
  BY <1>2 DEF Holders
<1>4. Ack(p) \notin Copies /\ \A c \in Chains : Ack(p) \notin CopiesFor(c)
  BY <1>1, AckNames DEF Copies, CopiesFor
<1>5. Occurrences(network, Ack(p)) = 0
  BY <1>4, OccursNever DEF IInv, QueuesSound
<1>6. Occurrences(inbox[p.route.src], Ack(p)) = 0
  <2>1. inbox[p.route.src] \in Seq(CopiesFor(p.route.src)) /\ p.route.src \in Chains
    BY RouteTypes DEF IInv, QueuesSound
  <2> QED BY <1>4, <2>1, OccursNever
<1>7. acksReceived[p] = 0
  BY DEF IInv, TypeOK, AcksSound
<1>8. Cardinality(Holders(p)) = 0
  BY <1>3, FS_EmptySet
<1> QED BY <1>2, <1>5, <1>6, <1>7, <1>8 DEF CopiesOfAck

\* A chain accepts a packet it has not accepted.
LEMMA AcceptedIsNew ==
  ASSUME IInv, NEW p \in Packets, p.seq = channels[p.route.dst][p.route.dstEnd].nextSeq
  PROVE  ~Received(p)
<1> SUFFICES ASSUME NEW k \in DOMAIN received[p.route.dst][p.route.dstEnd],
                    received[p.route.dst][p.route.dstEnd][k] = p
             PROVE  FALSE
  BY DEF Received
<1> DEFINE got == received[p.route.dst][p.route.dstEnd]
<1>1. p.route \in Routes /\ p.route.dst \in Chains /\ p.route.dstEnd \in Ends
  BY RouteTypes
<1>2. got \in Seq(Packets) /\ p.seq = Len(got) + 1
  BY <1>1 DEF IInv, TypeOK, Expecting
<1>3. p.seq = k
  BY <1>1 DEF IInv, Numbered
<1>4. Len(got) \in Nat /\ k \in 1 .. Len(got)
  BY <1>2, LenProperties
<1> QED BY <1>2, <1>3, <1>4

\* What a node's thread takes from its inbox is an ack of a packet its chain sent,
\* or no ack.
LEMMA InboxTaken ==
  ASSUME IInv, NEW c \in Chains, Handle(c), NEW p \in Packets
  PROVE  Occurrences(inbox[p.route.src], Ack(p)) =
           Occurrences(inbox'[p.route.src], Ack(p)) + (IF Head(inbox[c]) = Ack(p) THEN 1 ELSE 0)
<1> DEFINE d == p.route.src
<1>1. /\ d \in Chains /\ inbox[c] \in Seq(CopiesFor(c)) /\ inbox[c] \in Seq(Messages) /\ inbox[c] # <<>>
      /\ inbox' = [inbox EXCEPT ![c] = Tail(@)] /\ DOMAIN inbox = Chains
      /\ inbox[d] \in Seq(Messages)
  BY RouteTypes DEF IInv, TypeOK, QueuesSound, Handle
<1>2. Tail(inbox[c]) \in Seq(Messages) /\ Head(inbox[c]) \in CopiesFor(c) /\ Head(inbox[c]) = inbox[c][1]
  BY <1>1, TailElements
<1>3. CASE d = c
  <2>1. inbox'[d] = Tail(inbox[c])
    BY <1>1, <1>3
  <2>2. Occurrences(inbox[c], Ack(p)) =
          Occurrences(Tail(inbox[c]), Ack(p)) + (IF inbox[c][1] = Ack(p) THEN 1 ELSE 0)
    BY <1>1, <1>2, OccursInTail
  <2> QED BY <1>2, <1>3, <2>1, <2>2
<1>4. CASE d # c
  <2>1. inbox'[d] = inbox[d]
    BY <1>1, <1>4
  <2>2. Head(inbox[c]) # Ack(p)
    BY <1>2, <1>4, AckNames DEF CopiesFor
  <2>3. Occurrences(inbox[d], Ack(p)) \in Nat
    BY <1>1, OccurrencesType
  <2> QED BY <2>1, <2>2, <2>3
<1> QED BY <1>3, <1>4

\* A relayer that takes an ack does not hold it any more.
LEMMA AckTaken ==
  ASSUME TypeOK, HeldOnce, NEW r \in Relayers, pendingAcks[r] # <<>>,
         pendingAcks' = [pendingAcks EXCEPT ![r] = Tail(@)]
  PROVE  /\ HeldOnce'
         /\ \A p : Holders(p)' = IF p = Head(pendingAcks[r]) THEN Holders(p) \ {r} ELSE Holders(p)
         /\ r \in Holders(Head(pendingAcks[r]))
<1> DEFINE q == pendingAcks[r]
<1>1. /\ q \in Seq(Packets) /\ pendingAcks'[r] = Tail(q)
      /\ \A s \in Relayers \ {r} : pendingAcks'[s] = pendingAcks[s]
  BY DEF TypeOK
<1>2. /\ Len(q) \in Nat \ {0} /\ DOMAIN q = 1 .. Len(q) /\ DOMAIN Tail(q) = 1 .. Len(q) - 1
      /\ \A k \in 1 .. Len(q) - 1 : Tail(q)[k] = q[k + 1]
      /\ Head(q) = q[1]
  <2>1. Tail(q) \in Seq(Packets) /\ Len(Tail(q)) = Len(q) - 1 /\ Len(q) \in Nat \ {0} /\ DOMAIN q = 1 .. Len(q)
    BY <1>1, HeadTailProperties, LenProperties, EmptySeq
  <2>2. DOMAIN Tail(q) = 1 .. Len(q) - 1
    BY <2>1, LenProperties
  <2> QED BY <1>1, <2>1, <2>2, TailElements
<1>3. \A j, k \in 1 .. Len(q) : q[j] = q[k] => j = k
  BY <1>2 DEF HeldOnce
<1> HIDE DEF q
<1>4. HeldOnce'
  <2> SUFFICES ASSUME NEW s \in Relayers, NEW j \in DOMAIN pendingAcks'[s], NEW k \in DOMAIN pendingAcks'[s],
                      pendingAcks'[s][j] = pendingAcks'[s][k]
               PROVE  j = k
    BY DEF HeldOnce
  <2>1. CASE s = r
    <3>1. j + 1 \in 1 .. Len(q) /\ k + 1 \in 1 .. Len(q) /\ q[j + 1] = q[k + 1] /\ j \in Nat /\ k \in Nat
      BY <1>1, <1>2, <2>1
    <3>2. j + 1 = k + 1
      BY <1>3, <3>1
    <3> QED BY <3>1, <3>2
  <2>2. CASE s # r
    BY <1>1, <2>2 DEF HeldOnce
  <2> QED BY <2>1, <2>2
<1>5. \A s \in Relayers \ {r} : \A p : Holds(s, p)' <=> Holds(s, p)
  BY <1>1 DEF Holds
<1>6. ASSUME NEW p, p = Head(q) PROVE Holds(r, p) /\ ~Holds(r, p)'
  <2>1. Holds(r, p)
    <3>1. 1 \in DOMAIN q /\ q[1] = p
      BY <1>2, <1>6
    <3> QED BY <3>1 DEF Holds, q
  <2>2. ASSUME NEW k \in DOMAIN Tail(q), Tail(q)[k] = p PROVE FALSE
    <3>1. k + 1 \in 1 .. Len(q) /\ 1 \in 1 .. Len(q) /\ q[k + 1] = q[1] /\ k + 1 # 1
      BY <1>2, <1>6, <2>2
    <3> QED BY <1>3, <3>1
  <2>3. ~Holds(r, p)'
    BY <1>1, <2>2 DEF Holds
  <2> QED BY <2>1, <2>3
<1>7. ASSUME NEW p, p # Head(q) PROVE Holds(r, p)' <=> Holds(r, p)
  <2>1. ASSUME NEW k \in DOMAIN q, q[k] = p PROVE k - 1 \in DOMAIN Tail(q) /\ Tail(q)[k - 1] = p
    <3>1. k # 1
      BY <1>2, <1>7, <2>1
    <3>2. k - 1 \in 1 .. Len(q) - 1 /\ (k - 1) + 1 = k
      BY <1>2, <3>1
    <3> QED BY <1>2, <2>1, <3>2
  <2>2. ASSUME NEW k \in DOMAIN Tail(q), Tail(q)[k] = p PROVE k + 1 \in DOMAIN q /\ q[k + 1] = p
    BY <1>2, <2>2
  <2>3. Holds(r, p) => Holds(r, p)'
    BY <1>1, <2>1 DEF Holds, q
  <2>4. Holds(r, p)' => Holds(r, p)
    BY <1>1, <2>2 DEF Holds, q
  <2> QED BY <2>3, <2>4
<1>8. ASSUME NEW p PROVE Holders(p)' = IF p = Head(q) THEN Holders(p) \ {r} ELSE Holders(p)
  <2>1. CASE p = Head(q)
    BY <1>5, <1>6, <2>1 DEF Holders
  <2>2. CASE p # Head(q)
    BY <1>5, <1>7, <2>2 DEF Holders
  <2> QED BY <2>1, <2>2
<1>9. r \in Holders(Head(q))
  BY <1>6 DEF Holders
<1> QED BY <1>4, <1>8, <1>9 DEF q

\* Publishing the ack of p gives it to everybody, and nothing else.
LEMMA AckPublished ==
  ASSUME TypeOK, HeldOnce, NEW p \in Packets, pendingAcks' = Publish(pendingAcks, p),
         \A r \in Relayers : ~Holds(r, p)
  PROVE  HeldOnce' /\ Holders(p)' = Relayers /\ \A q : q # p => Holders(q)' = Holders(q)
<1>1. ASSUME NEW r \in Relayers
      PROVE  /\ pendingAcks[r] \in Seq(Packets) /\ Len(pendingAcks[r]) \in Nat
             /\ pendingAcks'[r] = Append(pendingAcks[r], p)
             /\ DOMAIN pendingAcks[r] = 1 .. Len(pendingAcks[r])
             /\ DOMAIN pendingAcks'[r] = 1 .. Len(pendingAcks[r]) + 1
             /\ pendingAcks'[r][Len(pendingAcks[r]) + 1] = p
             /\ \A k \in 1 .. Len(pendingAcks[r]) : pendingAcks'[r][k] = pendingAcks[r][k]
             /\ \A k \in 1 .. Len(pendingAcks[r]) : pendingAcks[r][k] # p
  <2>1. pendingAcks[r] \in Seq(Packets) /\ pendingAcks'[r] = Append(pendingAcks[r], p)
    BY DEF TypeOK, Publish
  <2> QED BY <2>1, AppendElements DEF Holds
<1>2. HeldOnce'
  <2> SUFFICES ASSUME NEW r \in Relayers, NEW j \in DOMAIN pendingAcks'[r], NEW k \in DOMAIN pendingAcks'[r],
                      pendingAcks'[r][j] = pendingAcks'[r][k]
               PROVE  j = k
    BY DEF HeldOnce
  <2> DEFINE n == Len(pendingAcks[r])
  <2>1. j \in 1 .. n + 1 /\ k \in 1 .. n + 1 /\ n \in Nat
    BY <1>1
  <2>2. CASE j \in 1 .. n /\ k \in 1 .. n
    BY <1>1, <2>2 DEF HeldOnce
  <2>3. CASE j = n + 1 /\ k \in 1 .. n
    BY <1>1, <2>3
  <2>4. CASE j \in 1 .. n /\ k = n + 1
    BY <1>1, <2>4
  <2>5. CASE j = n + 1 /\ k = n + 1
    BY <2>5
  <2>6. (j \in 1 .. n \/ j = n + 1) /\ (k \in 1 .. n \/ k = n + 1)
    BY <2>1
  <2> QED BY <2>2, <2>3, <2>4, <2>5, <2>6
<1>3. ASSUME NEW q, q # p, NEW r \in Relayers PROVE Holds(r, q)' <=> Holds(r, q)
  <2>1. ASSUME NEW k \in DOMAIN pendingAcks[r], pendingAcks[r][k] = q
        PROVE  k \in DOMAIN pendingAcks'[r] /\ pendingAcks'[r][k] = q
    BY <1>1, <2>1
  <2>2. ASSUME NEW k \in DOMAIN pendingAcks'[r], pendingAcks'[r][k] = q
        PROVE  k \in DOMAIN pendingAcks[r] /\ pendingAcks[r][k] = q
    <3> DEFINE n == Len(pendingAcks[r])
    <3>1. n \in Nat /\ k \in 1 .. n + 1
      BY <1>1
    <3>2. k # n + 1
      BY <1>1, <1>3, <2>2
    <3>3. k \in 1 .. n
      BY <3>1, <3>2
    <3> QED BY <1>1, <2>2, <3>3
  <2> QED BY <2>1, <2>2 DEF Holds
<1>4. ASSUME NEW r \in Relayers PROVE Holds(r, p)'
  <2>1. Len(pendingAcks[r]) + 1 \in DOMAIN pendingAcks'[r]
    BY <1>1
  <2> QED BY <1>1, <2>1 DEF Holds
<1> QED BY <1>2, <1>3, <1>4 DEF Holders

\* The queues of acks hold each once, and no ack has more or fewer copies than before.
LEMMA CopiesAlike ==
  ASSUME CopyInv, HeldOnce',
         \A p \in Packets : Received(p)' => Received(p),
         \A p \in Packets : Holders(p)' = Holders(p) /\ CopiesOfAck(p)' = CopiesOfAck(p)
  PROVE  CopyInv'
<1>1. ASSUME NEW p \in Packets
      PROVE  Cardinality(Reliable \union Holders(p)') = Cardinality(Reliable \union Holders(p))
  BY <1>1
<1>2. \A p \in Packets : Received(p)' /\ p.route.src \notin Unconnected =>
        Cardinality(Reliable \union Holders(p)') <= CopiesOfAck(p)'
  BY <1>1 DEF CopyInv, KeptEach
<1>3. KeptEach'
  BY <1>2 DEF KeptEach, Reliable
<1> QED BY <1>3 DEF CopyInv, OneCopyEach

\* Nothing about acks changes.
LEMMA CopiesKept ==
  ASSUME TypeOK, CopyInv, UNCHANGED <<pendingAcks, acksReceived, received>>,
         \A p \in Packets : Occurrences(network', Ack(p)) = Occurrences(network, Ack(p)),
         \A p \in Packets : Occurrences(inbox'[p.route.src], Ack(p)) = Occurrences(inbox[p.route.src], Ack(p))
  PROVE  CopyInv'
<1>1. HeldOnce'
  BY DEF CopyInv, HeldOnce
<1>2. \A p : Holders(p)' = Holders(p)
  BY DEF Holders, Holds
<1>3. \A p \in Packets : CopiesOfAck(p)' = CopiesOfAck(p)
  BY <1>2 DEF CopiesOfAck
<1>4. \A p \in Packets : Received(p)' => Received(p)
  BY DEF Received
<1> QED BY <1>1, <1>2, <1>3, <1>4, CopiesAlike

LEMMA CopiesRelayed ==
  ASSUME TypeOK, CopyInv, NEW r \in Relayers, RelayAck(r)
  PROVE  CopyInv'
<1> USE DEF CopyInv
<1>1. UNCHANGED <<inbox, acksReceived, received>>
  BY DEF RelayAck, history
<1>2. CASE pendingAcks[r] = <<>>
  BY <1>1, <1>2, CopiesKept DEF RelayAck
<1>3. CASE pendingAcks[r] # <<>>
  <2> DEFINE h == Head(pendingAcks[r])
  <2>1. pendingAcks' = [pendingAcks EXCEPT ![r] = Tail(@)] /\ Relay(r, Ack(h))
    BY <1>3 DEF RelayAck
  <2>2. /\ HeldOnce' /\ r \in Holders(h)
        /\ \A p : Holders(p)' = IF p = h THEN Holders(p) \ {r} ELSE Holders(p)
    BY <1>3, <2>1, AckTaken
  <2>3. h \in Packets
    BY <1>3, TailElements DEF TypeOK
  <2> DEFINE more(p) == IF network' # network /\ p = h THEN 1 ELSE 0
  <2>4. ASSUME NEW p \in Packets
        PROVE  Occurrences(network', Ack(p)) = Occurrences(network, Ack(p)) + more(p)
    <3>1. network \in Seq(Messages) /\ Ack(h) \in Messages
      BY <2>3, RouteTypes DEF TypeOK
    <3>2. Occurrences(network, Ack(p)) \in Nat
      BY CopiesType
    <3>3. Ack(h) = Ack(p) <=> p = h
      BY AckNames
    <3>4. CASE network' = Append(network, Ack(h))
      <4>1. Occurrences(Append(network, Ack(h)), Ack(p)) =
              Occurrences(network, Ack(p)) + (IF Ack(h) = Ack(p) THEN 1 ELSE 0)
        BY <3>1, OccursAppended
      <4>2. Len(network') = Len(network) + 1 /\ Len(network) \in Nat
        BY <3>1, <3>4, AppendProperties, LenProperties
      <4>3. network' # network
        BY <4>2
      <4> QED BY <3>2, <3>3, <3>4, <4>1, <4>3
    <3>5. CASE network' = network
      BY <3>2, <3>5
    <3> QED BY <2>1, <3>4, <3>5 DEF Relay
  <2>5. ASSUME NEW p \in Packets
        PROVE  /\ CopiesOfAck(p)' = CopiesOfAck(p) + more(p) - (IF p = h THEN 1 ELSE 0)
               /\ CopiesOfAck(p) \in Nat
    <3> DEFINE held == Cardinality(Holders(p))
               moving == Occurrences(network, Ack(p))
               rest == Occurrences(inbox[p.route.src], Ack(p)) + acksReceived[p]
    <3>1. held \in Nat /\ moving \in Nat /\ rest \in Nat
      BY CopiesType, HoldersFinite
    <3>2. CopiesOfAck(p) = held + moving + rest
      BY CopiesType DEF CopiesOfAck
    <3>3. Cardinality(Holders(p)') = held - (IF p = h THEN 1 ELSE 0)
      <4>1. CASE p = h
        BY <2>2, <4>1, HoldersFinite, FS_RemoveElement
      <4>2. CASE p # h
        BY <2>2, <3>1, <4>2
      <4> QED BY <4>1, <4>2
    <3>4. Occurrences(network', Ack(p)) = moving + more(p) /\ more(p) \in Nat
      BY <2>4
    <3>5. CopiesOfAck(p)' = Cardinality(Holders(p)') + Occurrences(network', Ack(p)) + rest
      <4>1. CopiesOfAck(p)' = Cardinality(Holders(p)') + Occurrences(network', Ack(p))
                                + Occurrences(inbox[p.route.src], Ack(p)) + acksReceived[p]
        BY <1>1 DEF CopiesOfAck
      <4>2. Cardinality(Holders(p)') \in Int /\ Occurrences(network', Ack(p)) \in Int
        BY <3>1, <3>3, <3>4
      <4> QED BY <4>1, <4>2, CopiesType
    <3> HIDE DEF held, moving, rest, more
    <3> QED BY <3>1, <3>2, <3>3, <3>4, <3>5
  <2>6. ASSUME NEW p \in Packets PROVE CopiesOfAck(p)' <= Cardinality(Relayers)
    <3>1. CopiesOfAck(p)' <= CopiesOfAck(p) /\ CopiesOfAck(p)' \in Int /\ CopiesOfAck(p) \in Nat
      BY <2>5
    <3>2. CopiesOfAck(p) <= Cardinality(Relayers) /\ Cardinality(Relayers) \in Nat
      BY HoldersFinite DEF OneCopyEach
    <3> QED BY <3>1, <3>2
  <2>7. ASSUME NEW p \in Packets, Received(p), p.route.src \notin Unconnected
        PROVE  Cardinality(Reliable \union Holders(p)') <= CopiesOfAck(p)'
    <3> DEFINE before == Reliable \union Holders(p)
               after == Reliable \union Holders(p)'
    <3>1. /\ IsFiniteSet(before) /\ Cardinality(before) \in Nat
          /\ Cardinality(before) <= CopiesOfAck(p)
      <4>1. before \in SUBSET Relayers
        BY DEF Reliable, Holders
      <4> QED BY <2>7, <4>1, NetworkAssumption, FS_Subset, FS_CardinalityType DEF KeptEach
    <3>2. CASE p = h /\ network' = network
      <4>1. RouteDrop[r] > 0
        BY <2>1, <2>3, <2>4, <2>7, <3>2, AckNames DEF Relay, MayRefuse
      <4>2. r \notin Reliable
        BY <4>1, NetworkAssumption DEF Reliable
      <4>3. after = before \ {r} /\ r \in before
        BY <2>2, <3>2, <4>2
      <4>4. Cardinality(after) = Cardinality(before) - 1
        BY <3>1, <4>3, FS_RemoveElement
      <4>5. CopiesOfAck(p)' = CopiesOfAck(p) - 1 /\ CopiesOfAck(p) \in Nat
        BY <2>5, <3>2
      <4> HIDE DEF before, after
      <4>6. Cardinality(after) <= CopiesOfAck(p)'
        BY <3>1, <4>4, <4>5
      <4> QED BY <4>6 DEF after
    <3>3. CASE ~(p = h /\ network' = network)
      <4>1. CopiesOfAck(p)' = CopiesOfAck(p) /\ CopiesOfAck(p) \in Nat
        BY <2>5, <3>3
      <4>2. after \in SUBSET before
        BY <2>2
      <4> HIDE DEF before, after
      <4>3. Cardinality(after) <= Cardinality(before) /\ IsFiniteSet(after)
        BY <3>1, <4>2, FS_Subset
      <4>4. Cardinality(after) \in Nat
        BY <4>3, FS_CardinalityType
      <4>5. Cardinality(after) <= CopiesOfAck(p)'
        BY <3>1, <4>1, <4>3, <4>4
      <4> QED BY <4>5 DEF after
    <3> QED BY <3>2, <3>3
  <2>8. KeptEach'
    <3>1. \A p \in Packets : Received(p)' => Received(p)
      BY <1>1 DEF Received
    <3> QED BY <2>7, <3>1 DEF KeptEach, Reliable
  <2> QED BY <2>2, <2>6, <2>8 DEF OneCopyEach
<1> QED BY <1>2, <1>3

LEMMA CopiesDelivered ==
  ASSUME TypeOK, CopyInv, NEW k \in 1..Window, Deliver(k)
  PROVE  CopyInv'
<1> DEFINE m == network[k]
<1>1. /\ UNCHANGED <<pendingAcks, acksReceived, received>> /\ k \in 1 .. Len(network)
      /\ network' = RemoveAt(network, k)
      /\ inbox' = [inbox EXCEPT ![Mailbox(m)] = Append(@, m)]
      /\ network \in Seq(Messages) /\ m \in Messages /\ Mailbox(m) \in Chains
  BY LenProperties, RouteTypes DEF Deliver, busVars, history, TypeOK
<1>2. HeldOnce'
  BY <1>1 DEF CopyInv, HeldOnce
<1>3. ASSUME NEW p \in Packets PROVE Holders(p)' = Holders(p) /\ CopiesOfAck(p)' = CopiesOfAck(p)
  <2> DEFINE d == p.route.src
             more == IF m = Ack(p) THEN 1 ELSE 0
  <2>1. Holders(p)' = Holders(p)
    BY <1>1 DEF Holders, Holds
  <2>2. Occurrences(network, Ack(p)) = Occurrences(network', Ack(p)) + more
    BY <1>1, OccursInRest
  <2>3. Occurrences(inbox'[d], Ack(p)) = Occurrences(inbox[d], Ack(p)) + more
    <3>1. d \in Chains /\ inbox[d] \in Seq(Messages) /\ DOMAIN inbox = Chains
      BY RouteTypes DEF TypeOK
    <3>2. CASE d = Mailbox(m)
      <4>1. inbox'[d] = Append(inbox[d], m)
        BY <1>1, <3>1, <3>2
      <4> QED BY <1>1, <3>1, <4>1, OccursAppended
    <3>3. CASE d # Mailbox(m)
      <4>1. inbox'[d] = inbox[d]
        BY <1>1, <3>1, <3>3
      <4>2. m # Ack(p)
        BY <3>3, AckNames
      <4>3. Occurrences(inbox[d], Ack(p)) \in Nat
        BY <3>1, OccurrencesType
      <4> QED BY <4>1, <4>2, <4>3
    <3> QED BY <3>2, <3>3
  <2>4. /\ Cardinality(Holders(p)) \in Nat /\ Occurrences(network, Ack(p)) \in Nat
        /\ Occurrences(inbox[d], Ack(p)) \in Nat /\ acksReceived[p] \in Nat
    BY CopiesType
  <2>5. Occurrences(network', Ack(p)) \in Nat /\ more \in Nat
    <3>1. network' \in Seq(Messages)
      BY <1>1, RemoveElements DEF Deliver
    <3> QED BY <3>1, OccurrencesType
  <2>6. CopiesOfAck(p)' = Cardinality(Holders(p)) + Occurrences(network', Ack(p))
                            + Occurrences(inbox'[d], Ack(p)) + acksReceived[p]
    BY <1>1, <2>1 DEF CopiesOfAck
  <2> HIDE DEF more
  <2> QED BY <2>1, <2>2, <2>3, <2>4, <2>5, <2>6 DEF CopiesOfAck
<1>4. \A p \in Packets : Received(p)' => Received(p)
  BY <1>1 DEF Received
<1> QED BY <1>2, <1>3, <1>4, CopiesAlike

LEMMA CopiesHandled ==
  ASSUME IInv, CopyInv, NEW c \in Chains, Handle(c), Head(inbox[c]).type # "Data"
  PROVE  CopyInv'
<1> DEFINE q == Head(inbox[c]).pkt
<1>1. Head(inbox[c]) \in Messages /\ Head(inbox[c]) = Ack(q) /\ q \in Packets
  <2>1. Head(inbox[c]) \in Messages
    BY TailElements DEF IInv, TypeOK, Handle
  <2> QED BY <2>1, AckNames, RouteTypes
<1>2. /\ acksReceived' = [acksReceived EXCEPT ![q] = @ + 1]
      /\ UNCHANGED <<pendingAcks, network, received>>
  BY DEF Handle, RecvAck
<1> HIDE DEF q
<1>3. HeldOnce'
  BY <1>2 DEF CopyInv, HeldOnce
<1>4. ASSUME NEW p \in Packets PROVE Holders(p)' = Holders(p) /\ CopiesOfAck(p)' = CopiesOfAck(p)
  <2> DEFINE d == p.route.src
             more == IF p = q THEN 1 ELSE 0
  <2>1. Holders(p)' = Holders(p)
    BY <1>2 DEF Holders, Holds
  <2>2. Occurrences(inbox[d], Ack(p)) = Occurrences(inbox'[d], Ack(p)) + more
    <3>1. Head(inbox[c]) = Ack(p) <=> p = q
      BY <1>1, AckNames
    <3> QED BY <3>1, InboxTaken
  <2>3. acksReceived'[p] = acksReceived[p] + more
    BY <1>1, <1>2 DEF IInv, TypeOK
  <2>4. /\ Cardinality(Holders(p)) \in Nat /\ Occurrences(network, Ack(p)) \in Nat
        /\ Occurrences(inbox[d], Ack(p)) \in Nat /\ acksReceived[p] \in Nat
    BY CopiesType DEF IInv
  <2>5. Occurrences(inbox'[d], Ack(p)) \in Nat /\ more \in Nat
    <3>1. TypeOK'
      BY TypeStep DEF IInv, Next
    <3>2. inbox'[d] \in Seq(Messages)
      BY <3>1, RouteTypes DEF TypeOK
    <3> QED BY <3>2, OccurrencesType
  <2>6. CopiesOfAck(p)' = Cardinality(Holders(p)) + Occurrences(network, Ack(p))
                            + Occurrences(inbox'[d], Ack(p)) + acksReceived'[p]
    BY <1>2, <2>1 DEF CopiesOfAck
  <2> HIDE DEF more
  <2> QED BY <2>1, <2>2, <2>3, <2>4, <2>5, <2>6 DEF CopiesOfAck
<1>5. \A p \in Packets : Received(p)' => Received(p)
  BY <1>2 DEF Received
<1> QED BY <1>3, <1>4, <1>5, CopiesAlike

LEMMA CopiesMade ==
  ASSUME IInv, CopyInv, NEW c \in Chains, Handle(c), Head(inbox[c]).type = "Data"
  PROVE  CopyInv'
<1> USE DEF CopyInv
<1>1. PICK p \in Packets :
        /\ p.route.dst = c /\ UNCHANGED <<acksReceived, network>>
        /\ \/ /\ p.seq = channels[c][p.route.dstEnd].nextSeq
              /\ pendingAcks' = Publish(pendingAcks, p)
              /\ received' = [received EXCEPT ![c][p.route.dstEnd] = Append(@, p)]
           \/ UNCHANGED <<pendingAcks, received>>
  BY RecvFacts DEF IInv
<1>2. ASSUME NEW q \in Packets
      PROVE  Occurrences(inbox'[q.route.src], Ack(q)) = Occurrences(inbox[q.route.src], Ack(q))
  <2>1. Head(inbox[c]) # Ack(q)
    BY AckNames
  <2>2. TypeOK'
    BY TypeStep DEF IInv, Next
  <2>3. inbox'[q.route.src] \in Seq(Messages)
    BY <2>2, RouteTypes DEF TypeOK
  <2>4. Occurrences(inbox'[q.route.src], Ack(q)) \in Nat
    BY <2>3, OccurrencesType
  <2> QED BY <2>1, <2>4, InboxTaken
<1>3. CASE UNCHANGED <<pendingAcks, received>>
  BY <1>1, <1>2, <1>3, CopiesKept DEF IInv
<1>4. CASE /\ p.seq = channels[c][p.route.dstEnd].nextSeq
           /\ pendingAcks' = Publish(pendingAcks, p)
           /\ received' = [received EXCEPT ![c][p.route.dstEnd] = Append(@, p)]
  <2>1. ~Received(p)
    BY <1>1, <1>4, AcceptedIsNew
  <2>2. /\ \A r \in Relayers : ~Holds(r, p)
        /\ CopiesOfAck(p) = 0 /\ Cardinality(Holders(p)) = 0
    BY <2>1, NoAckBefore
  <2>3. HeldOnce' /\ Holders(p)' = Relayers /\ \A q : q # p => Holders(q)' = Holders(q)
    BY <1>4, <2>2, AckPublished DEF IInv
  <2>4. ASSUME NEW q \in Packets
        PROVE  CopiesOfAck(q)' = Cardinality(Holders(q)') + Occurrences(network, Ack(q))
                                   + Occurrences(inbox[q.route.src], Ack(q)) + acksReceived[q]
    BY <1>1, <1>2 DEF CopiesOfAck
  <2>5. ASSUME NEW q \in Packets, q # p PROVE CopiesOfAck(q)' = CopiesOfAck(q)
    BY <2>3, <2>4, <2>5 DEF CopiesOfAck
  <2>6. CopiesOfAck(p)' = Cardinality(Relayers)
    <3>1. Cardinality(Holders(p)') = Cardinality(Relayers) /\ Cardinality(Relayers) \in Nat
      BY <2>3, HoldersFinite
    <3>2. /\ Occurrences(network, Ack(p)) \in Nat
          /\ Occurrences(inbox[p.route.src], Ack(p)) \in Nat /\ acksReceived[p] \in Nat
      BY CopiesType DEF IInv
    <3>3. Occurrences(network, Ack(p)) + Occurrences(inbox[p.route.src], Ack(p)) + acksReceived[p] = 0
      BY <2>2, <3>2 DEF CopiesOfAck
    <3> QED BY <2>4, <3>1, <3>2, <3>3
  <2>7. ASSUME NEW q \in Packets PROVE CopiesOfAck(q)' <= Cardinality(Relayers)
    <3>1. Cardinality(Relayers) \in Nat
      BY HoldersFinite
    <3> QED BY <2>5, <2>6, <3>1 DEF OneCopyEach
  <2>8. ASSUME NEW q \in Packets, q # p, Received(q)' PROVE Received(q)
    <3> DEFINE got == received[q.route.dst][q.route.dstEnd]
    <3>1. PICK k \in DOMAIN received'[q.route.dst][q.route.dstEnd] :
            received'[q.route.dst][q.route.dstEnd][k] = q
      BY <2>8 DEF Received
    <3>2. got \in Seq(Packets) /\ q.route.dst \in Chains /\ q.route.dstEnd \in Ends
      BY RouteTypes DEF IInv, TypeOK
    <3>3. \/ received'[q.route.dst][q.route.dstEnd] = got
          \/ received'[q.route.dst][q.route.dstEnd] = Append(got, p)
      BY <1>4, <3>2 DEF IInv, TypeOK
    <3>4. CASE received'[q.route.dst][q.route.dstEnd] = Append(got, p)
      <4> HIDE DEF got
      <4>1. /\ DOMAIN Append(got, p) = 1 .. Len(got) + 1 /\ DOMAIN got = 1 .. Len(got)
            /\ Append(got, p)[Len(got) + 1] = p /\ Len(got) \in Nat
            /\ \A i \in 1 .. Len(got) : Append(got, p)[i] = got[i]
        BY <1>1, <3>2, AppendElements
      <4>2. k # Len(got) + 1
        BY <2>8, <3>1, <3>4, <4>1
      <4>3. k \in DOMAIN got /\ got[k] = q
        BY <3>1, <3>4, <4>1, <4>2
      <4> QED BY <4>3 DEF got, Received
    <3>5. CASE received'[q.route.dst][q.route.dstEnd] = got
      BY <3>1, <3>5 DEF Received
    <3> QED BY <3>3, <3>4, <3>5
  <2>9. ASSUME NEW q \in Packets, Received(q)', q.route.src \notin Unconnected
        PROVE  Cardinality(Reliable \union Holders(q)') <= CopiesOfAck(q)'
    <3>1. CASE q = p
      <4>1. Reliable \union Holders(p)' = Relayers
        BY <2>3 DEF Reliable
      <4>2. Cardinality(Relayers) \in Nat
        BY HoldersFinite
      <4> QED BY <2>6, <3>1, <4>1, <4>2
    <3>2. CASE q # p
      <4>1. Received(q) /\ Holders(q)' = Holders(q) /\ CopiesOfAck(q)' = CopiesOfAck(q)
        BY <2>3, <2>5, <2>8, <2>9, <3>2
      <4>2. Cardinality(Reliable \union Holders(q)) <= CopiesOfAck(q)
        BY <2>9, <4>1 DEF KeptEach
      <4> QED BY <4>1, <4>2
    <3> QED BY <3>1, <3>2
  <2>10. KeptEach'
    BY <2>9 DEF KeptEach, Reliable
  <2> QED BY <2>3, <2>7, <2>10 DEF OneCopyEach
<1> QED BY <1>1, <1>3, <1>4

LEMMA CopiesStep ==
  ASSUME IInv, CopyInv, [Next]_vars
  PROVE  CopyInv'
<1> USE DEF IInv
<1>0. ASSUME UNCHANGED <<pendingAcks, network, inbox, acksReceived, received>> PROVE CopyInv'
  BY <1>0, CopiesKept
<1>1. ASSUME NEW c \in Chains, NEW e \in Ends, Open(c, e) \/ Close(c, e)
      PROVE  CopyInv'
  BY <1>0, <1>1 DEF Open, Close, busVars, history
<1>2. ASSUME NEW route \in Routes, Send(route) PROVE CopyInv'
  BY <1>0, <1>2, SendFacts
<1>3. ASSUME NEW r \in Relayers, RelayPacket(r) PROVE CopyInv'
  <2>1. UNCHANGED <<pendingAcks, inbox, acksReceived, received>>
    BY <1>3 DEF RelayPacket, history
  <2>2. CASE network' = network
    BY <1>0, <2>1, <2>2
  <2>3. CASE network' = Append(network, Data(Head(pendingPackets[r]))) /\ pendingPackets[r] # <<>>
    <3> DEFINE m == Data(Head(pendingPackets[r]))
    <3>1. m \in Messages /\ network \in Seq(Messages)
      BY <2>3, TailElements, RouteTypes DEF TypeOK
    <3>2. ASSUME NEW p \in Packets
          PROVE  Occurrences(network', Ack(p)) = Occurrences(network, Ack(p))
      <4>1. m # Ack(p)
        BY AckNames
      <4>2. Occurrences(Append(network, m), Ack(p)) =
              Occurrences(network, Ack(p)) + (IF m = Ack(p) THEN 1 ELSE 0)
        BY <3>1, OccursAppended
      <4> HIDE DEF m
      <4> QED BY <2>3, <3>1, <4>1, <4>2, OccurrencesType DEF m
    <3> QED BY <2>1, <3>2, CopiesKept
  <2> QED BY <1>3, <2>2, <2>3 DEF RelayPacket, Relay
<1>4. ASSUME NEW r \in Relayers, RelayAck(r) PROVE CopyInv'
  BY <1>4, CopiesRelayed
<1>5. ASSUME NEW k \in 1..Window, Deliver(k) PROVE CopyInv'
  BY <1>5, CopiesDelivered
<1>6. ASSUME NEW c \in Chains, Handle(c) PROVE CopyInv'
  BY <1>6, CopiesHandled, CopiesMade
<1>7. CASE UNCHANGED vars
  BY <1>0, <1>7 DEF vars
<1> QED BY <1>1, <1>2, <1>3, <1>4, <1>5, <1>6, <1>7 DEF Next

LEMMA CopyInvariant == Spec => []CopyInv
<1>1. Init => CopyInv
  <2> SUFFICES ASSUME Init PROVE CopyInv
    OBVIOUS
  <2>1. IInv
    BY InvariantInit
  <2>2. HeldOnce
    BY DEF Init, HeldOnce
  <2>3. ASSUME NEW p \in Packets PROVE ~Received(p)
    BY RouteTypes DEF Init, Received
  <2>4. ASSUME NEW p \in Packets PROVE CopiesOfAck(p) <= Cardinality(Relayers)
    BY <2>1, <2>3, NoAckBefore, HoldersFinite
  <2> QED BY <2>2, <2>3, <2>4 DEF CopyInv, OneCopyEach, KeptEach
<1>2. IInv /\ CopyInv /\ [Next]_vars => CopyInv'
  BY CopiesStep
<1> QED BY <1>1, <1>2, Invariant, PTL DEF Spec

\* An ack comes back only for an accepted packet, and at most once through each
\* relayer: no copy of it is ever made twice.
THEOREM AcksOncePerRelayer == Spec => []AcksBounded
<1>1. IInv /\ CopyInv => AcksBounded
  <2> SUFFICES ASSUME IInv, OneCopyEach, NEW p \in Packets
               PROVE  /\ acksReceived[p] > 0 => Received(p)
                      /\ acksReceived[p] <= Cardinality(Relayers)
    BY DEF AcksBounded, CopyInv
  <2>1. CopiesOfAck(p) <= Cardinality(Relayers) /\ Cardinality(Relayers) \in Nat
    BY HoldersFinite DEF OneCopyEach
  <2>2. acksReceived[p] <= Cardinality(Relayers)
    BY <2>1, CopiesType DEF IInv, CopiesOfAck
  <2> QED BY <2>2 DEF IInv, AcksSound
<1> QED BY <1>1, CopyInvariant, Invariant, PTL

\* Of the ack of an accepted packet there are always as many copies, under way or
\* back, as reliable relayers: none is lost but by a relayer that drops.
THEOREM NoAckLost == Spec => []AcksKept
<1>1. IInv /\ CopyInv => AcksKept
  <2> SUFFICES ASSUME IInv, CopyInv, NEW p \in Packets, Received(p), p.route.src \notin Unconnected
               PROVE  CopiesOfAck(p) >= Cardinality(Reliable)
    BY DEF AcksKept
  <2> DEFINE either == Reliable \union Holders(p)
  <2>1. Cardinality(either) <= CopiesOfAck(p)
    BY DEF CopyInv, KeptEach
  <2>2. IsFiniteSet(either) /\ Reliable \in SUBSET either
    <3>1. either \in SUBSET Relayers
      BY DEF Reliable, Holders
    <3> QED BY <3>1, NetworkAssumption, FS_Subset
  <2>3. CopiesOfAck(p) \in Nat
    BY CopiesType DEF IInv, CopiesOfAck
  <2> HIDE DEF either
  <2>4. Cardinality(Reliable) <= Cardinality(either) /\ IsFiniteSet(Reliable)
    BY <2>2, FS_Subset
  <2>5. Cardinality(Reliable) \in Nat /\ Cardinality(either) \in Nat
    BY <2>2, <2>4, FS_CardinalityType
  <2> QED BY <2>1, <2>3, <2>4, <2>5
<1> QED BY <1>1, CopyInvariant, Invariant, PTL

-----------------------------------------------------------------------------
(* The copies of a packet *)

In(x, s) == \E k \in DOMAIN s : s[k] = x

LEMMA InAppended ==
  ASSUME NEW S, NEW s \in Seq(S), NEW y \in S
  PROVE  In(y, Append(s, y)) /\ \A x : In(x, s) => In(x, Append(s, y))
<1>1. /\ DOMAIN Append(s, y) = 1 .. Len(s) + 1 /\ DOMAIN s = 1 .. Len(s) /\ Len(s) \in Nat
      /\ Append(s, y)[Len(s) + 1] = y
      /\ \A k \in 1 .. Len(s) : Append(s, y)[k] = s[k]
  BY AppendElements
<1>2. Len(s) + 1 \in 1 .. Len(s) + 1 /\ 1 .. Len(s) \subseteq 1 .. Len(s) + 1
  BY <1>1
<1> QED BY <1>1, <1>2 DEF In

\* s[i] aside, what stands in s stands in s without its element at i.
LEMMA InWithout ==
  ASSUME NEW S, NEW s \in Seq(S), NEW t \in Seq(S), NEW i \in 1 .. Len(s), Without(t, s, i),
         NEW x, In(x, s), x # s[i]
  PROVE  In(x, t)
<1>1. /\ DOMAIN s = 1 .. Len(s) /\ Len(s) \in Nat /\ DOMAIN t = 1 .. Len(t)
      /\ Len(t) = Len(s) - 1 /\ i \in Nat
      /\ \A k \in 1 .. Len(s) - 1 : t[k] = s[IF k < i THEN k ELSE k + 1]
  BY LenProperties DEF Without
<1>2. PICK j \in 1 .. Len(s) : s[j] = x /\ j # i
  BY <1>1 DEF In
<1> DEFINE k == IF j < i THEN j ELSE j - 1
<1>3. k \in 1 .. Len(s) - 1 /\ (IF k < i THEN k ELSE k + 1) = j
  BY <1>1, <1>2
<1>4. k \in DOMAIN t /\ t[k] = x
  BY <1>1, <1>2, <1>3
<1> QED BY <1>4 DEF In

LEMMA InRest ==
  ASSUME NEW S, NEW s \in Seq(S), NEW i \in 1 .. Len(s), NEW x, In(x, s), x # s[i]
  PROVE  In(x, RemoveAt(s, i))
<1> DEFINE t == RemoveAt(s, i)
<1>1. i \in DOMAIN s
  BY LenProperties
<1>2. t \in Seq(S) /\ Without(t, s, i)
  BY <1>1, RemoveElements DEF Without
<1> HIDE DEF t
<1>3. In(x, t)
  BY <1>2, InWithout
<1> QED BY <1>3 DEF t

LEMMA InTail ==
  ASSUME NEW S, NEW s \in Seq(S), s # <<>>, NEW x, In(x, s), x # Head(s)
  PROVE  In(x, Tail(s))
<1> DEFINE t == Tail(s)
           i == 1
<1>1. t \in Seq(S) /\ i \in 1 .. Len(s) /\ Head(s) = s[i] /\ Without(t, s, i)
  <2>1. /\ Len(s) \in Nat \ {0} /\ Tail(s) \in Seq(S) /\ Len(Tail(s)) = Len(s) - 1
        /\ \A k \in 1 .. Len(s) - 1 : Tail(s)[k] = s[k + 1]
        /\ Head(s) = s[1]
    BY HeadTailProperties, LenProperties, EmptySeq, TailElements
  <2> QED BY <2>1 DEF Without
<1> HIDE DEF t, i
<1>2. In(x, t)
  BY <1>1, InWithout
<1> QED BY <1>2 DEF t

\* Where p is while relayer r has a part in it
Decided(p) == Received(p) \/ p \in rejected
Moving(p) == In(Data(p), network) \/ In(Data(p), inbox[p.route.dst])
Kept(p, r) == Decided(p) \/ In(p, pendingPackets[r]) \/ Moving(p)

LEMMA DataNames ==
  ASSUME NEW p \in Packets
  PROVE  /\ Data(p) \in Messages /\ Data(p).pkt = p /\ Data(p).type = "Data"
         /\ Mailbox(Data(p)) = p.route.dst /\ p.route.dst \in Chains
<1>1. Data(p) \in Messages /\ Data(p).pkt = p /\ Data(p).type = "Data"
  BY DEF Data, Messages
<1> QED BY <1>1, RouteTypes DEF Mailbox

\* sendIBC() queues its packet at every relayer.
LEMMA KeptSend ==
  ASSUME IInv, NEW route \in Routes, Send(route), NEW p \in sent', NEW r \in Relayers,
         p \in sent => Kept(p, r)
  PROVE  Kept(p, r)'
<1>1. PICK q \in Packets : /\ sent' = sent \union {q} /\ pendingPackets' = Publish(pendingPackets, q)
                           /\ UNCHANGED <<network, inbox, received, rejected>>
  BY SendFacts DEF IInv
<1>2. pendingPackets[r] \in Seq(Packets) /\ pendingPackets'[r] = Append(pendingPackets[r], q)
  BY <1>1 DEF IInv, TypeOK, Publish
<1>3. In(q, pendingPackets'[r]) /\ \A x : In(x, pendingPackets[r]) => In(x, pendingPackets'[r])
  BY <1>2, InAppended
<1>4. CASE p = q
  BY <1>3, <1>4 DEF Kept, In
<1>5. CASE p # q
  <2>1. Kept(p, r)
    BY <1>1, <1>5
  <2> QED BY <1>1, <1>3, <2>1 DEF Kept, Decided, Moving, Received, In
<1> QED BY <1>4, <1>5

\* A reliable relayer hands on what it takes from its queue.
LEMMA KeptRelay ==
  ASSUME IInv, NEW q \in Relayers, RelayPacket(q) \/ RelayAck(q), NEW p \in sent, NEW r \in Reliable,
         p.route.dst \notin Unconnected, Kept(p, r)
  PROVE  Kept(p, r)'
<1>1. UNCHANGED <<inbox, received, rejected>> /\ network \in Seq(Messages) /\ p \in Packets
      /\ r \in Relayers /\ RouteDrop[r] = 0
  BY DEF RelayPacket, RelayAck, history, IInv, TypeOK, Reliable
<1>2. ASSUME NEW m \in Messages, Relay(q, m)
      PROVE  \A x : In(x, network) => In(x, network')
  BY <1>1, <1>2, InAppended DEF Relay
<1>3. CASE RelayAck(q)
  <2>1. \A x : In(x, network) => In(x, network')
    <3>1. CASE pendingAcks[q] = <<>>
      BY <1>3, <3>1 DEF RelayAck
    <3>2. CASE pendingAcks[q] # <<>>
      <4>1. Ack(Head(pendingAcks[q])) \in Messages
        BY <3>2, TailElements, RouteTypes DEF IInv, TypeOK
      <4> QED BY <1>2, <1>3, <3>2, <4>1 DEF RelayAck
    <3> QED BY <3>1, <3>2
  <2>2. pendingPackets' = pendingPackets
    BY <1>3 DEF RelayAck
  <2> QED BY <1>1, <2>1, <2>2 DEF Kept, Decided, Moving, Received, In
<1>4. CASE RelayPacket(q) /\ pendingPackets[q] = <<>>
  <2>1. UNCHANGED <<pendingPackets, network>>
    BY <1>4 DEF RelayPacket
  <2> QED BY <1>1, <2>1 DEF Kept, Decided, Moving, Received, In
<1>5. CASE RelayPacket(q) /\ pendingPackets[q] # <<>>
  <2> DEFINE h == Head(pendingPackets[q])
  <2>1. /\ pendingPackets' = [pendingPackets EXCEPT ![q] = Tail(@)] /\ Relay(q, Data(h))
        /\ pendingPackets[q] \in Seq(Packets) /\ h \in Packets
    BY <1>5, TailElements DEF RelayPacket, IInv, TypeOK
  <2>2. \A x : In(x, network) => In(x, network')
    BY <1>2, <2>1, DataNames
  <2>3. CASE q = r /\ p = h
    <3>1. ~MayRefuse(q, Data(h))
      BY <1>1, <2>3, DataNames DEF MayRefuse
    <3>2. network' = Append(network, Data(p)) /\ Data(p) \in Messages
      BY <1>1, <2>1, <2>3, <3>1, DataNames DEF Relay
    <3>3. In(Data(p), network')
      BY <1>1, <3>2, InAppended
    <3> QED BY <3>3 DEF Kept, Moving, In
  <2>4. CASE ~(q = r /\ p = h)
    <3>1. In(p, pendingPackets[r]) => In(p, pendingPackets'[r])
      <4>1. CASE q = r
        <5>1. pendingPackets'[r] = Tail(pendingPackets[r])
          BY <1>1, <2>1, <4>1 DEF IInv, TypeOK
        <5> QED BY <1>5, <2>1, <2>4, <4>1, <5>1, InTail
      <4>2. CASE q # r
        <5>1. pendingPackets'[r] = pendingPackets[r]
          BY <2>1, <4>2 DEF IInv, TypeOK
        <5> QED BY <5>1
      <4> QED BY <4>1, <4>2
    <3> QED BY <1>1, <2>2, <3>1 DEF Kept, Decided, Moving, Received, In
  <2> QED BY <2>3, <2>4
<1> QED BY <1>3, <1>4, <1>5

\* The transport takes a packet's copy to the inbox of its destination.
LEMMA KeptDeliver ==
  ASSUME IInv, NEW k \in 1..Window, Deliver(k), NEW p \in Packets, NEW r, Kept(p, r)
  PROVE  Kept(p, r)'
<1> DEFINE m == network[k]
           d == p.route.dst
<1>1. /\ UNCHANGED <<pendingPackets, received, rejected>> /\ k \in 1 .. Len(network)
      /\ network' = RemoveAt(network, k)
      /\ inbox' = [inbox EXCEPT ![Mailbox(m)] = Append(@, m)]
      /\ network \in Seq(Messages) /\ m \in Messages /\ Mailbox(m) \in Chains
      /\ d \in Chains /\ inbox[d] \in Seq(Messages) /\ DOMAIN inbox = Chains
  BY LenProperties, RouteTypes DEF Deliver, busVars, history, IInv, TypeOK
<1>2. /\ inbox'[d] = IF Mailbox(m) = d THEN Append(inbox[d], m) ELSE inbox[d]
  BY <1>1
<1>3. \A x : In(x, inbox[d]) => In(x, inbox'[d])
  BY <1>1, <1>2, InAppended
<1>4. Mailbox(m) = d => In(m, inbox'[d])
  BY <1>1, <1>2, InAppended
<1>5. CASE m = Data(p)
  <2>1. In(Data(p), inbox'[d])
    BY <1>4, <1>5, DataNames
  <2> QED BY <2>1 DEF Kept, Moving, In
<1>6. CASE m # Data(p)
  <2>1. In(Data(p), network) => In(Data(p), network')
    BY <1>1, <1>6, InRest
  <2> QED BY <1>1, <1>3, <2>1 DEF Kept, Decided, Moving, Received, In
<1> QED BY <1>5, <1>6

\* What a node's thread takes from its inbox its chain decides.
LEMMA KeptHandle ==
  ASSUME IInv, NEW c \in Chains, Handle(c), NEW p \in Packets, NEW r, Kept(p, r)
  PROVE  Kept(p, r)'
<1> DEFINE d == p.route.dst
           h == Head(inbox[c])
<1>1. /\ UNCHANGED <<pendingPackets, network>> /\ inbox' = [inbox EXCEPT ![c] = Tail(@)]
      /\ inbox[c] # <<>> /\ d \in Chains /\ inbox[d] \in Seq(Messages) /\ DOMAIN inbox = Chains
  BY RouteTypes DEF Handle, IInv, TypeOK
<1>2. Received(p) => Received(p)'
  <2>1. Next
    BY DEF Next
  <2> QED BY <2>1, Growth DEF Arrived
<1>3. rejected \subseteq rejected'
  <2>1. CASE h.type = "Data"
    <3>1. PICK q \in Packets : rejected' = rejected \/ rejected' = rejected \union {q}
      BY <2>1, RecvFacts DEF IInv
    <3> QED BY <3>1
  <2>2. CASE h.type # "Data"
    BY <2>2 DEF Handle, RecvAck
  <2> QED BY <2>1, <2>2
<1>4. CASE c = d /\ h = Data(p)
  <2>1. h.type = "Data" /\ h.pkt = p
    BY <1>4, DataNames
  <2>2. PICK q \in Packets :
          /\ q = h.pkt
          /\ \/ received' = [received EXCEPT ![c][q.route.dstEnd] = Append(@, q)]
             \/ rejected' = IF Received(q) THEN rejected ELSE rejected \union {q}
    BY <2>1, RecvFacts DEF IInv
  <2>3. CASE rejected' = IF Received(q) THEN rejected ELSE rejected \union {q}
    BY <1>2, <2>1, <2>2, <2>3 DEF Kept, Decided
  <2>4. CASE received' = [received EXCEPT ![c][q.route.dstEnd] = Append(@, q)]
    <3> DEFINE got == received[d][p.route.dstEnd]
    <3>1. got \in Seq(Packets) /\ p.route.dstEnd \in Ends
      BY RouteTypes DEF IInv, TypeOK
    <3>2. received'[d][p.route.dstEnd] = Append(got, p)
      BY <1>1, <1>4, <2>1, <2>2, <2>4, <3>1 DEF IInv, TypeOK
    <3> HIDE DEF got
    <3>3. In(p, received'[d][p.route.dstEnd])
      BY <3>1, <3>2, InAppended
    <3> QED BY <3>3 DEF Kept, Decided, Received, In
  <2> QED BY <2>2, <2>3, <2>4
<1>5. CASE ~(c = d /\ h = Data(p))
  <2>1. In(Data(p), inbox[d]) => In(Data(p), inbox'[d])
    <3>1. CASE c = d
      <4>1. inbox'[d] = Tail(inbox[d]) /\ h = Head(inbox[d]) /\ inbox[d] # <<>> /\ Data(p) # h
        BY <1>1, <1>5, <3>1
      <4> QED BY <1>1, <4>1, InTail
    <3>2. CASE c # d
      BY <1>1, <3>2
    <3> QED BY <3>1, <3>2
  <2> QED BY <1>1, <1>2, <1>3, <2>1 DEF Kept, Decided, Moving, In
<1> QED BY <1>4, <1>5

LEMMA KeptByReliable == PacketsKept <=>
  \A p \in sent, r \in Reliable : p.route.dst \notin Unconnected => Kept(p, r)
  BY DEF PacketsKept, Kept, Decided, Moving, In

LEMMA KeptStep ==
  ASSUME IInv, PacketsKept, [Next]_vars, NEW p \in sent', NEW r \in Reliable,
         p.route.dst \notin Unconnected
  PROVE  Kept(p, r)'
<1>1. r \in Relayers /\ (p \in sent => Kept(p, r)) /\ sent \subseteq Packets
  BY KeptByReliable DEF Reliable, IInv, TypeOK
<1>2. ASSUME NEW route \in Routes, Send(route) PROVE Kept(p, r)'
  BY <1>1, <1>2, KeptSend
<1>3. ASSUME NEW q \in Relayers, RelayPacket(q) \/ RelayAck(q) PROVE Kept(p, r)'
  <2>1. sent' = sent
    BY <1>3 DEF RelayPacket, RelayAck, history
  <2> QED BY <1>1, <1>3, <2>1, KeptRelay
<1>4. ASSUME NEW k \in 1..Window, Deliver(k) PROVE Kept(p, r)'
  <2>1. sent' = sent
    BY <1>4 DEF Deliver, history
  <2> QED BY <1>1, <1>4, <2>1, KeptDeliver
<1>5. ASSUME NEW c \in Chains, Handle(c) PROVE Kept(p, r)'
  <2>1. sent' = sent
    BY <1>5 DEF Handle, Recv, RecvAck
  <2> QED BY <1>1, <1>5, <2>1, KeptHandle
<1>6. ASSUME UNCHANGED <<sent, pendingPackets, network, inbox, received, rejected>>
      PROVE  Kept(p, r)'
  BY <1>1, <1>6 DEF Kept, Decided, Moving, Received, In
<1>7. ASSUME NEW c \in Chains, NEW e \in Ends, Open(c, e) \/ Close(c, e) PROVE Kept(p, r)'
  BY <1>6, <1>7 DEF Open, Close, busVars, history
<1>8. CASE UNCHANGED vars
  BY <1>6, <1>8 DEF vars
<1> QED BY <1>2, <1>3, <1>4, <1>5, <1>7, <1>8 DEF Next

\* A packet that a reliable relayer was told of is with that relayer, or on its way,
\* until its destination has decided it.
THEOREM NoPacketLost == Spec => []PacketsKept
<1>1. Init => PacketsKept
  BY DEF Init, PacketsKept
<1>2. IInv /\ PacketsKept /\ [Next]_vars => PacketsKept'
  <2> SUFFICES ASSUME IInv, PacketsKept, [Next]_vars, NEW p \in sent', NEW r \in Reliable,
                      p.route.dst \notin Unconnected
               PROVE  Kept(p, r)'
    BY DEF PacketsKept, Kept, Decided, Moving, In, Reliable
  <2> QED BY KeptStep
<1> QED BY <1>1, <1>2, Invariant, PTL DEF Spec

\* What a reliable relayer was given is never lost, neither packet nor ack.
THEOREM NothingIsLost == Spec => []NothingLost
  BY NoPacketLost, NoAckLost, PTL DEF NothingLost
=============================================================================
