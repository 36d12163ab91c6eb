----------------------------- MODULE IBCNetwork -----------------------------
(***************************************************************************)
(* The life of IBC packets across chains: Blockchain, IBCRouter, EventBus,   *)
(* Relayer, Transport and the inboxes of the mailbox nodes, composed.        *)
(*                                                                          *)
(* sendIBC() numbers a packet and publishes it to every relayer; a relayer   *)
(* alternates between its packets and its acks and hands each to the         *)
(* transport; the transport delivers any of the Window oldest messages next  *)
(* (FewOvertaken of Transport.tla); the mailbox node of the destination      *)
(* handles its inbox in order, and an accepted packet publishes an ack that  *)
(* takes the same way back.                                                 *)
(*                                                                          *)
(* Blockchain's methods run under one mutex shared by all chains, which they *)
(* hold while the event handlers run: each is one step.                      *)
(***************************************************************************)
EXTENDS IBCChannel, Integers, Sequences, FiniteSets, SequencesExt

CONSTANTS
  Chains,       \* the chains that have a mailbox node
  Ends,         \* the (port, channel) names
  Routes,       \* what traffic uses: [src, srcEnd, dst, dstEnd]
  Managed,      \* the ends <<chain, end>> openIBC() opens, or anybody closes
  Relayers,     \* the relayers
  Unconnected,  \* chains no relayer has the mailbox of (they have no node)
  RouteDrop,    \* routeDrop_ of each relayer, in percent
  Window,       \* the threads of the transport and its callers, less one
  MaxSend       \* bound: the packets sent on one channel end

ASSUME NetworkAssumption ==
  /\ Routes \subseteq [src : Chains, srcEnd : Ends, dst : Chains, dstEnd : Ends]
  /\ Managed \subseteq Chains \X Ends
  /\ Unconnected \subseteq Chains
  /\ IsFiniteSet(Relayers)
  /\ RouteDrop \in [Relayers -> Nat]
  /\ Window \in Nat \ {0}
  /\ MaxSend \in Nat
  \* Every route of the program leaves from channel-A and arrives at channel-B.
  /\ \A r, s \in Routes : ~(r.src = s.dst /\ r.srcEnd = s.dstEnd)

VARIABLES
  channels,        \* channels_ of each chain; an absent channel is a new one
  bindings,        \* the bindings_ of each chain's router
  pendingPackets,  \* pendingPackets_ of each relayer
  pendingAcks,     \* pendingAcks_ of each relayer
  turn,            \* which queue each relayer's loop looks at next
  network,         \* messages in the transport, oldest first
  inbox,           \* inbox_ of each chain's mailbox node
  sent,            \* history: the packets sendIBC() returned
  received,        \* history: the packets each end accepted, in order
  rejected,        \* history: the packets an end refused while missing
  acksReceived     \* history: how many acks of each packet came back

busVars == <<pendingPackets, pendingAcks>>
history == <<sent, received, rejected, acksReceived>>
vars == <<channels, bindings, pendingPackets, pendingAcks, turn, network, inbox,
          sent, received, rejected, acksReceived>>

Packets == [route : Routes, seq : 1..MaxSend]

\* An ack carries its packet's names swapped and its number; its mailbox is
\* that of the packet's source.
Messages == [type : {"Data", "Ack"}, pkt : Packets]
Data(p) == [type |-> "Data", pkt |-> p]
Ack(p) == [type |-> "Ack", pkt |-> p]
Mailbox(msg) == IF msg.type = "Data" THEN msg.pkt.route.dst ELSE msg.pkt.route.src

Init ==
  /\ channels = [c \in Chains |-> [e \in Ends |-> NewChannel]]
  /\ bindings = [c \in Chains |-> {}]
  /\ pendingPackets = [r \in Relayers |-> <<>>]
  /\ pendingAcks = [r \in Relayers |-> <<>>]
  /\ turn = [r \in Relayers |-> "packet"]
  /\ network = <<>>
  /\ inbox = [c \in Chains |-> <<>>]
  /\ sent = {}
  /\ received = [c \in Chains |-> [e \in Ends |-> <<>>]]
  /\ rejected = {}
  /\ acksReceived = [p \in Packets |-> 0]

-----------------------------------------------------------------------------
(* The chains *)

\* Blockchain::openChannel(): a bound end returns before its channel is opened;
\* InvalidState from the channel (it is open already) is tolerated.
Open(c, e) ==
  /\ <<c, e>> \in Managed
  /\ e \notin bindings[c]
  /\ bindings' = [bindings EXCEPT ![c] = @ \union {e}]
  /\ channels' = [channels EXCEPT ![c][e] = OpenChannel(@).chan]
  /\ UNCHANGED <<busVars, turn, network, inbox, history>>

\* Blockchain::closeChannel() takes the binding away and leaves the channel open.
Close(c, e) ==
  /\ <<c, e>> \in Managed
  /\ e \in bindings[c]
  /\ bindings' = [bindings EXCEPT ![c] = @ \ {e}]
  /\ UNCHANGED <<channels, busVars, turn, network, inbox, history>>

\* EventBus::publish() runs the handler of every relayer, which queues the packet.
Publish(queues, p) == [r \in Relayers |-> Append(queues[r], p)]

\* Blockchain::sendIBC(): the channel is created and opened when it is not.
Send(route) ==
  LET opened == OpenChannel(channels[route.src][route.srcEnd])
      made == MakePacket(opened.chan)
      p == [route |-> route, seq |-> opened.chan.nextSeq]
  IN  /\ made.status = "Ok"
      /\ opened.chan.nextSeq <= MaxSend
      /\ channels' = [channels EXCEPT ![route.src][route.srcEnd] = made.chan]
      /\ pendingPackets' = Publish(pendingPackets, p)
      /\ sent' = sent \union {p}
      /\ UNCHANGED <<bindings, pendingAcks, turn, network, inbox, received, rejected, acksReceived>>

\* Blockchain::onIBCPacket(): the channel is created and opened when it is not;
\* an accepted packet publishes its ack, a refused one leaves no trace.
Recv(c, p) ==
  LET opened == OpenChannel(channels[c][p.route.dstEnd])
      accepted == AcceptPacket(opened.chan, p.seq)
  IN  /\ channels' = [channels EXCEPT ![c][p.route.dstEnd] = accepted.chan]
      /\ IF accepted.status = "Ok"
         THEN /\ received' = [received EXCEPT ![c][p.route.dstEnd] = Append(@, p)]
              /\ pendingAcks' = Publish(pendingAcks, p)
              /\ UNCHANGED rejected
         ELSE /\ rejected' = IF \E k \in DOMAIN received[c][p.route.dstEnd] :
                                  received[c][p.route.dstEnd][k] = p
                             THEN rejected ELSE rejected \union {p}
              /\ UNCHANGED <<received, pendingAcks>>
      /\ UNCHANGED <<sent, acksReceived>>

\* Blockchain::onIBCAck() publishes and counts the ack without looking at it.
RecvAck(p) ==
  /\ acksReceived' = [acksReceived EXCEPT ![p] = @ + 1]
  /\ UNCHANGED <<channels, pendingAcks, sent, received, rejected>>

-----------------------------------------------------------------------------
(* The relayers *)

\* Mutant: a draw of exactly the rate is a drop, and with it a draw of 0 at rate 0.
MayRefuseAtRate(r, msg) == Mailbox(msg) \in Unconnected \/ RouteDrop[r] >= 0

\* Whether relayPacket() and relayAck() may refuse, and may pass on, a message:
\* a draw from [0, 1) is below routeDrop_ with some probability.
MayRefuse(r, msg) == Mailbox(msg) \in Unconnected \/ RouteDrop[r] > 0
MayPass(r, msg) == Mailbox(msg) \notin Unconnected /\ RouteDrop[r] < 100

\* A message tryPop() gave is handed to the transport, or counted as a failure
\* and forgotten.
Relay(r, msg) ==
  \/ MayPass(r, msg) /\ network' = Append(network, msg)
  \/ MayRefuse(r, msg) /\ UNCHANGED network

\* The two halves of an iteration of Relayer::runLoop()
RelayPacket(r) ==
  /\ turn[r] = "packet"
  /\ turn' = [turn EXCEPT ![r] = "ack"]
  /\ IF pendingPackets[r] = <<>> THEN UNCHANGED <<pendingPackets, network>>
     ELSE /\ pendingPackets' = [pendingPackets EXCEPT ![r] = Tail(@)]
          /\ Relay(r, Data(Head(pendingPackets[r])))
  /\ UNCHANGED <<channels, bindings, pendingAcks, inbox, history>>

\* Mutant: the ack that tryPop() gave is tested, and another one is relayed.
RelayAckNext(r) ==
  /\ turn[r] = "ack"
  /\ turn' = [turn EXCEPT ![r] = "packet"]
  /\ pendingAcks' = [pendingAcks EXCEPT ![r] = SubSeq(@, 3, Len(@))]
  /\ IF Len(pendingAcks[r]) < 2 THEN UNCHANGED network
     ELSE Relay(r, Ack(pendingAcks[r][2]))
  /\ UNCHANGED <<channels, bindings, pendingPackets, inbox, history>>

RelayAck(r) ==
  /\ turn[r] = "ack"
  /\ turn' = [turn EXCEPT ![r] = "packet"]
  /\ IF pendingAcks[r] = <<>> THEN UNCHANGED <<pendingAcks, network>>
     ELSE /\ pendingAcks' = [pendingAcks EXCEPT ![r] = Tail(@)]
          /\ Relay(r, Ack(Head(pendingAcks[r])))
  /\ UNCHANGED <<channels, bindings, pendingPackets, inbox, history>>

-----------------------------------------------------------------------------
(* The transport and the mailbox nodes *)

\* A worker hands a message to Node::onBytes(), one of the Window oldest: each
\* other worker and each other caller of send() may hold up an older one.
Deliver(k) ==
  /\ k \in DOMAIN network
  /\ k <= Window
  /\ network' = RemoveAt(network, k)
  /\ inbox' = [inbox EXCEPT ![Mailbox(network[k])] = Append(@, network[k])]
  /\ UNCHANGED <<channels, bindings, busVars, turn, history>>

\* Node::runLoop()
Handle(c) ==
  /\ inbox[c] # <<>>
  /\ inbox' = [inbox EXCEPT ![c] = Tail(@)]
  /\ LET msg == Head(inbox[c])
     IN  IF msg.type = "Data" THEN Recv(c, msg.pkt) ELSE RecvAck(msg.pkt)
  /\ UNCHANGED <<bindings, pendingPackets, turn, network>>

-----------------------------------------------------------------------------

Next ==
  \/ \E c \in Chains, e \in Ends : Open(c, e) \/ Close(c, e)
  \/ \E route \in Routes : Send(route)
  \/ \E r \in Relayers : RelayPacket(r) \/ RelayAck(r)
  \/ \E k \in 1..Window : Deliver(k)
  \/ \E c \in Chains : Handle(c)

Spec == Init /\ [][Next]_vars

\* The threads of the relayers and the nodes are scheduled, and the pool
\* delivers its oldest message in the end.  Nothing obliges traffic to be sent.
FairSpec ==
  /\ Spec
  /\ \A r \in Relayers : WF_vars(RelayPacket(r)) /\ WF_vars(RelayAck(r))
  /\ WF_vars(Deliver(1))
  /\ \A c \in Chains : WF_vars(Handle(c))

-----------------------------------------------------------------------------
(* Properties *)

Received(p) ==
  \E k \in DOMAIN received[p.route.dst][p.route.dstEnd] :
    received[p.route.dst][p.route.dstEnd][k] = p

\* Every variable has its type.
TypeOK ==
  /\ channels \in [Chains -> [Ends -> Channel]]
  /\ bindings \in [Chains -> SUBSET Ends]
  /\ pendingPackets \in [Relayers -> Seq(Packets)]
  /\ pendingAcks \in [Relayers -> Seq(Packets)]
  /\ turn \in [Relayers -> {"packet", "ack"}]
  /\ network \in Seq(Messages)
  /\ inbox \in [Chains -> Seq(Messages)]
  /\ sent \subseteq Packets /\ rejected \subseteq Packets
  /\ received \in [Chains -> [Ends -> Seq(Packets)]]
  /\ acksReceived \in [Packets -> Nat]

\* However many relayers carry copies of a packet, over a network that loses
\* and reorders, each end accepts packets that were sent to it, each once, with
\* the consecutive numbers 1, 2, 3, ..., and expects the next one.
AcceptedInOrder ==
  \A c \in Chains, e \in Ends : \A k \in DOMAIN received[c][e] :
    LET p == received[c][e][k]
    IN  /\ p \in sent /\ p.route.dst = c /\ p.route.dstEnd = e
        /\ p.seq = k
        /\ channels[c][e].nextSeq = Len(received[c][e]) + 1

\* An ack comes back only for a packet its destination accepted, and at most
\* once through each relayer.
AcksBounded ==
  \A p \in Packets :
    /\ acksReceived[p] > 0 => Received(p)
    /\ acksReceived[p] <= Cardinality(Relayers)

\* All relayers are given all packets and all acks in one order: what one of
\* them has still to relay ends with what another has still to relay.
RelayersAgree ==
  \A r, s \in Relayers :
    /\ IsSuffix(pendingPackets[r], pendingPackets[s]) \/ IsSuffix(pendingPackets[s], pendingPackets[r])
    /\ IsSuffix(pendingAcks[r], pendingAcks[s]) \/ IsSuffix(pendingAcks[s], pendingAcks[r])

\* What end e of chain c accepted contains the packet q.
AcceptedAt(c, e, q) == \E k \in DOMAIN received[c][e] : received[c][e][k] = q

\* A packet that was not accepted yet is refused for a cause, also where sources
\* share a receiving end: that end has not accepted an earlier packet of the
\* packet's own source, or it has accepted another source's packet of that number.
RefusedForCause ==
  [][\A p \in rejected' \ rejected : \E q \in sent :
       LET sameSource == q.route.src = p.route.src /\ q.route.srcEnd = p.route.srcEnd
           accepted == AcceptedAt(p.route.dst, p.route.dstEnd, q)
       IN  \/ sameSource /\ q.seq < p.seq /\ ~accepted
           \/ ~sameSource /\ q.seq = p.seq /\ accepted]_vars

\* "ordering/dup checks" (IBCChannel.h:29): a packet that was not accepted yet
\* is refused only while an earlier packet of its own channel is missing.
RefusedOnlyEarly ==
  [][\A p \in rejected' \ rejected : \E q \in sent :
       /\ q.route.src = p.route.src /\ q.route.srcEnd = p.route.srcEnd
       /\ q.seq < p.seq
       /\ ~Received(q)]_vars

\* The composition of chains, relayers, pool and inboxes implements the service.
Service == INSTANCE PacketService WITH acks <- acksReceived

ImplementsService == Service!Spec

\* The relayers that drop nothing
Reliable == {r \in Relayers : RouteDrop[r] = 0}

\* Where m stands in a queue, and how often
Positions(s, m) == {k \in 1 .. Len(s) : s[k] = m}
Occurrences(s, m) == Cardinality(Positions(s, m))

\* The relayers whose queue has the ack of p, and all copies of it: there, in the
\* transport, in the inbox of the chain that sent p, and counted by that chain
Holds(r, p) == \E k \in DOMAIN pendingAcks[r] : pendingAcks[r][k] = p
Holders(p) == {r \in Relayers : Holds(r, p)}
CopiesOfAck(p) ==
  Cardinality(Holders(p)) + Occurrences(network, Ack(p))
    + Occurrences(inbox[p.route.src], Ack(p)) + acksReceived[p]

\* Until its destination has decided it, a packet is in the queue of each
\* reliable relayer or a copy of it is on its way to the destination.
PacketsKept ==
  \A p \in sent, r \in Reliable : p.route.dst \notin Unconnected =>
    \/ Received(p) \/ p \in rejected
    \/ \E k \in DOMAIN pendingPackets[r] : pendingPackets[r][k] = p
    \/ \E k \in DOMAIN network : network[k] = Data(p)
    \/ \E k \in DOMAIN inbox[p.route.dst] : inbox[p.route.dst][k] = Data(p)

\* Acks are lost by relayers that drop and by nobody else: of an accepted packet
\* there are as many, under way or back at the sender, as reliable relayers.
AcksKept ==
  \A p \in Packets : Received(p) /\ p.route.src \notin Unconnected =>
    CopiesOfAck(p) >= Cardinality(Reliable)

\* One reliable relayer is enough, whatever the others drop and the transport
\* reorders: nothing it was given is lost before it has been decided or counted.
NothingLost == PacketsKept /\ AcksKept

\* As long as one relayer is reliable every packet is decided: its destination
\* accepts it or has refused it.  And what is accepted is acknowledged through
\* each reliable relayer, whatever else is reordered, refused or dropped.
RoundTrip ==
  \A p \in Packets :
    /\ p \in sent ~> Received(p) \/ p \in rejected
    /\ Received(p) ~> acksReceived[p] >= Cardinality(Reliable)

\* "Packet lifecycle simulation (Send -> Recv -> Ack)" (README.md:18): a packet
\* that was sent is received and acknowledged in the end.
SendRecvAck == \A p \in Packets : p \in sent ~> acksReceived[p] > 0
=============================================================================
