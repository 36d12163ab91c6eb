---------------------------- MODULE PacketTrail ----------------------------
(***************************************************************************)
(* What a reader of ibc_events.jsonl, such as visualize.py, may rely on.     *)
(*                                                                          *)
(* The lines of the chains tell the life of each packet in order, and their  *)
(* timestamps never decrease.  The lines of the relayers stand anywhere, so  *)
(* they are a set: a relayer may log a packet before its chain has logged    *)
(* that it made it, or after the destination has logged that it received it. *)
(* Only an ack is never relayed before its packet was logged as received.    *)
(***************************************************************************)
EXTENDS Naturals, Sequences

CONSTANTS Packets, Relayers

VARIABLES
  lines,    \* the chains' lines
  relayed   \* the relayers' lines

ChainEvents == {"packet_created", "packet_received", "ack_generated", "ack_received"}
RelayerEvents == {"packet_relayed", "ack_relayed"}

ChainLines == [event : ChainEvents, pkt : Packets, ts : Nat]
RelayerLines == [event : RelayerEvents, pkt : Packets, by : Relayers]

Has(event, p) == \E k \in DOMAIN lines : lines[k].event = event /\ lines[k].pkt = p

\* The numbers of the packets with that source or destination that are logged so
Numbers(event, end, c) ==
  {lines[k].pkt.seq : k \in {i \in DOMAIN lines : lines[i].event = event /\ lines[i].pkt[end] = c}}

\* The sending end numbers 1, 2, 3, ..., and so does the receiving one accept.
InPlace(line) ==
  LET p == line.pkt IN
  \/ line.event = "packet_created" /\ Numbers("packet_created", "src", p.src) = 1..(p.seq - 1)
  \/ /\ line.event = "packet_received"
     /\ Has("packet_created", p) /\ Numbers("packet_received", "dst", p.dst) = 1..(p.seq - 1)
  \/ line.event = "ack_generated" /\ Has("packet_received", p) /\ ~Has("ack_generated", p)
  \/ line.event = "ack_received" /\ Has("ack_generated", p)

InTime(line) == \A k \in DOMAIN lines : lines[k].ts <= line.ts

LogByChain(line) ==
  /\ InPlace(line) /\ InTime(line)
  /\ lines' = Append(lines, line)
  /\ UNCHANGED relayed

LogByRelayer(line) ==
  /\ line.event = "ack_relayed" => Has("packet_received", line.pkt)
  /\ relayed' = relayed \union {line}
  /\ UNCHANGED lines

Init == lines = <<>> /\ relayed = {}

\* Some line is logged; which one is seen in the file.
Next ==
  \/ lines' # lines /\ lines' \in Seq(ChainLines) /\ LogByChain(lines'[Len(lines')])
  \/ \E line \in relayed' \ relayed : line \in RelayerLines /\ LogByRelayer(line)

Spec == Init /\ [][Next]_<<lines, relayed>>
=============================================================================
