--------------------------- MODULE PacketService ---------------------------
(***************************************************************************)
(* What the chains see of IBC, without relayers, network or inboxes: an end  *)
(* accepts the packets numbered 1, 2, 3, ... that were sent to it, each once *)
(* and in that order, and a packet is acknowledged only after it was         *)
(* accepted (how often is left open: IBCNetwork!AcksBounded).                *)
(***************************************************************************)
EXTENDS Naturals, Sequences

CONSTANTS Chains, Ends, Packets

VARIABLES sent,       \* the packets sent
          received,   \* the packets each end of each chain accepted, in order
          acks        \* how many acks of each packet came back

vars == <<sent, received, acks>>

Init ==
  /\ sent = {}
  /\ received = [c \in Chains |-> [e \in Ends |-> <<>>]]
  /\ acks = [p \in Packets |-> 0]

\* A sending end numbers its packets, whatever their destination.
Send(p) ==
  /\ \A q \in sent : <<q.route.src, q.route.srcEnd>> = <<p.route.src, p.route.srcEnd>>
                       => q.seq < p.seq
  /\ sent' = sent \union {p}
  /\ UNCHANGED <<received, acks>>

Receive(p) ==
  LET c == p.route.dst
      e == p.route.dstEnd
  IN  /\ p \in sent
      /\ p.seq = Len(received[c][e]) + 1
      /\ received' = [received EXCEPT ![c][e] = Append(@, p)]
      /\ UNCHANGED <<sent, acks>>

Accepted(p) ==
  \E k \in DOMAIN received[p.route.dst][p.route.dstEnd] :
    received[p.route.dst][p.route.dstEnd][k] = p

Acknowledge(p) ==
  /\ Accepted(p)
  /\ acks' = [acks EXCEPT ![p] = @ + 1]
  /\ UNCHANGED <<sent, received>>

Next == \E p \in Packets : Send(p) \/ Receive(p) \/ Acknowledge(p)

Spec == Init /\ [][Next]_vars
=============================================================================
