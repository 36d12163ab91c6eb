----------------------------- MODULE IBCChannel -----------------------------
(***************************************************************************)
(* src/src/ibc/IBCChannel.cpp: one end of an IBC channel.  The operations    *)
(* run under the channel's mutex; here each is a function of the channel     *)
(* that returns its status and the channel it leaves.  nextSeq counts the    *)
(* packets made and the packets accepted: it is one counter for both.  No    *)
(* caller reaches close().                                                  *)
(***************************************************************************)
EXTENDS Naturals

ChannelStates == {"Init", "Open", "Closed"}
Channel == [state : ChannelStates, nextSeq : Nat \ {0}]

NewChannel == [state |-> "Init", nextSeq |-> 1]

Outcome(status, chan) == [status |-> status, chan |-> chan]

OpenChannel(ch) ==
  CASE ch.state = "Closed" -> Outcome("ChannelClosed", ch)
    [] ch.state = "Open"   -> Outcome("InvalidState", ch)
    [] ch.state = "Init"   -> Outcome("Ok", [ch EXCEPT !.state = "Open"])

\* makePacket(): an accepted call hands out ch.nextSeq.
MakePacket(ch) ==
  IF ch.state = "Open" THEN Outcome("Ok", [ch EXCEPT !.nextSeq = @ + 1])
  ELSE Outcome("InvalidState", ch)

\* Mutants: a packet from the future is accepted; the counter is not moved;
\* the counter is moved for rejected packets too.
AcceptFuture(ch, seq) ==
  CASE ch.state # "Open" -> Outcome("ChannelClosed", ch)
    [] ch.state = "Open" /\ seq < ch.nextSeq -> Outcome("InvalidState", ch)
    [] OTHER -> Outcome("Ok", [ch EXCEPT !.nextSeq = @ + 1])

AcceptAgain(ch, seq) ==
  CASE ch.state # "Open" -> Outcome("ChannelClosed", ch)
    [] ch.state = "Open" /\ seq # ch.nextSeq -> Outcome("InvalidState", ch)
    [] OTHER -> Outcome("Ok", ch)

AcceptSkipping(ch, seq) ==
  CASE ch.state # "Open" -> Outcome("ChannelClosed", ch)
    [] ch.state = "Open" /\ seq # ch.nextSeq -> Outcome("InvalidState", [ch EXCEPT !.nextSeq = @ + 1])
    [] OTHER -> Outcome("Ok", [ch EXCEPT !.nextSeq = @ + 1])

AcceptPacket(ch, seq) ==
  CASE ch.state # "Open" -> Outcome("ChannelClosed", ch)
    [] ch.state = "Open" /\ seq # ch.nextSeq -> Outcome("InvalidState", ch)
    [] OTHER -> Outcome("Ok", [ch EXCEPT !.nextSeq = @ + 1])
=============================================================================
