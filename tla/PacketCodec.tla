----------------------------- MODULE PacketCodec -----------------------------
(***************************************************************************)
(* What becomes of a packet or a transaction in its string forms.  A packet  *)
(* is serialized by its chain for the event bus (IBCTypes.cpp), read and      *)
(* serialized again by a relayer, wrapped for the transport (Relayer.cpp),    *)
(* unwrapped by the mailbox node (Node.cpp) and read there.  A transaction    *)
(* is joined, wrapped, unwrapped and split by its node alone.  What the node *)
(* has read it logs, as a line of JSON (DetailedLogger.cpp).                *)
(*                                                                          *)
(* A string is a sequence of characters.  A number is written with a single  *)
(* digit.  Characters other than digits and those with a meaning to one of   *)
(* the writers or readers behave alike: few of them stand for all, and the   *)
(* newline stands for all white space.  Signs are left out, and so are bytes *)
(* above 0x7f.                                                              *)
(*                                                                          *)
(* A loop over a string is a function from what it has so far and the next   *)
(* character to what it has then.  Scan runs it.  (FoldLeft would do too, but *)
(* takes an operator, about which nothing can be proved in general.)         *)
(***************************************************************************)
EXTENDS Naturals, Sequences, SequencesExt

CONSTANTS
  Letters,   \* characters without a meaning
  MaxLength  \* bound: the length of a name or payload

ASSUME CodecAssumption == MaxLength \in Nat

Digits == {"1", "2"}
Quote == "\""
Control == "0x01"   \* a control character without a short escape
Alphabet == {"|", "\\", Quote, "\n", "n", "u", Control} \union Digits \union Letters
Text == Seq(Alphabet)
Strings == BoundedSeq(Alphabet, MaxLength)

\* What stoi() and stoull() throw at, what a reader throws or logs, and the end
\* of the program by an exception that nobody catches
NotANumber == "not a number"
Malformed == [error |-> "malformed"]
Terminated == [error |-> "terminated"]

Scan(step, start, s) ==
  LET after[i \in 0 .. Len(s)] ==
        IF i = 0 THEN start ELSE step[after[i - 1]][s[i]]
  IN  after[Len(s)]

-----------------------------------------------------------------------------
(* Fields *)

EscapeChar(c) == IF c \in {"|", "\\"} THEN <<"\\", c>> ELSE <<c>>
EscapeStep == [out \in Text |-> [c \in Alphabet |-> out \o EscapeChar(c)]]

\* Mutant: the backslash itself is not escaped.
EscapePipes(s) ==
  Scan([out \in Text |-> [c \in Alphabet |-> out \o IF c = "|" THEN <<"\\", c>> ELSE <<c>>]], <<>>, s)

\* escape()
Escape(s) == Scan(EscapeStep, <<>>, s)

\* unescape(): the character after a backslash is taken as it is.
UnescapeStep ==
  [st \in [out : Text, escaped : BOOLEAN] |-> [c \in Alphabet |->
    IF c = "\\" /\ ~st.escaped THEN [out |-> st.out, escaped |-> TRUE]
    ELSE [out |-> Append(st.out, c), escaped |-> FALSE]]]

Unescape(s) == Scan(UnescapeStep, [out |-> <<>>, escaped |-> FALSE], s).out

\* split(): at the pipes that are not escaped; the backslashes stay.
SplitStep ==
  [st \in [parts : Seq(Text), current : Text, escaped : BOOLEAN] |-> [c \in Alphabet |->
    IF c = "|" /\ ~st.escaped
    THEN [parts |-> Append(st.parts, st.current), current |-> <<>>, escaped |-> FALSE]
    ELSE [parts |-> st.parts, current |-> Append(st.current, c),
          escaped |-> c = "\\" /\ ~st.escaped]]]

Split(s) ==
  LET end == Scan(SplitStep, [parts |-> <<>>, current |-> <<>>, escaped |-> FALSE], s)
  IN  Append(end.parts, end.current)

\* operator<< with "|" between the fields
Separator == <<"|">>
JoinStep == [joined \in Text |-> [field \in Text |-> joined \o Separator \o field]]

Join(fields) == Scan(JoinStep, Head(fields), Tail(fields))

\* stoi() and stoull(): white space before the number is skipped, what follows it
\* is ignored.
Number(s) ==
  LET first == {i \in DOMAIN s : s[i] \in Digits /\ \A j \in 1 .. i - 1 : s[j] = "\n"}
  IN  IF first = {} THEN NotANumber ELSE s[CHOOSE i \in first : TRUE]

\* find('|', from), npos if there is none.  The code adds one to npos and looks
\* from the start again.
npos == 0

\* Mutant: the second argument is forgotten.
FindFirst(s, from) ==
  IF \E i \in DOMAIN s : s[i] = "|"
  THEN CHOOSE i \in DOMAIN s : s[i] = "|" /\ \A j \in 1 .. i - 1 : s[j] # "|"
  ELSE npos

Find(s, from) ==
  IF \E i \in from .. Len(s) : s[i] = "|"
  THEN CHOOSE i \in from .. Len(s) : s[i] = "|" /\ \A j \in from .. i - 1 : s[j] # "|"
  ELSE npos

-----------------------------------------------------------------------------
(* Packets, envelopes and transactions *)

\* names: srcChain, dstChain, srcPort, srcChannel, dstPort, dstChannel
SerializePacket(pkt) ==
  Join(<<<<pkt.type>>>> \o [i \in 1..6 |-> Escape(pkt.names[i])] \o <<<<pkt.seq>>, Escape(pkt.payload)>>)

DeserializePacket(s) ==
  LET parts == Split(s)
  IN  IF \/ Len(parts) # 9
         \/ Number(parts[1]) = NotANumber
         \/ Number(parts[8]) = NotANumber
      THEN Malformed
      ELSE [type |-> Number(parts[1]), names |-> [i \in 1..6 |-> Unescape(parts[i + 1])],
            seq |-> Number(parts[8]), payload |-> Unescape(parts[9])]

\* fromAddress|kind|bytes
Wrap(from, kind, bytes) == from \o <<"|", kind, "|">> \o bytes

Unwrap(s) ==
  LET p1 == Find(s, 1)
      p2 == Find(s, p1 + 1)
  IN  IF p1 = npos \/ p2 = npos \/ Number(SubSeq(s, p1 + 1, p2 - 1)) = NotANumber THEN Malformed
      ELSE [from |-> SubSeq(s, 1, p1 - 1), kind |-> Number(SubSeq(s, p1 + 1, p2 - 1)),
            bytes |-> SubSeq(s, p2 + 1, Len(s))]

\* from|to|payload|type|tx_id, with nothing escaped
SerializeTx(tx) == Join(<<tx.from, tx.to, tx.payload, <<tx.type>>, tx.id>>)

\* The reader in Node::runLoop(): too few pipes are noticed; stoi() is called
\* outside any try block, and what it throws ends the program.
DeserializeTx(s) ==
  LET p1 == Find(s, 1)
      p2 == Find(s, p1 + 1)
      p3 == Find(s, p2 + 1)
      p4 == Find(s, p3 + 1)
  IN  IF npos \in {p1, p2, p3, p4} THEN Malformed
      ELSE IF Number(SubSeq(s, p3 + 1, p4 - 1)) = NotANumber THEN Terminated
      ELSE [from |-> SubSeq(s, 1, p1 - 1), to |-> SubSeq(s, p1 + 1, p2 - 1),
            payload |-> SubSeq(s, p2 + 1, p3 - 1), type |-> Number(SubSeq(s, p3 + 1, p4 - 1)),
            id |-> SubSeq(s, p4 + 1, Len(s))]

-----------------------------------------------------------------------------
(* Lines of the log files: their string fields, one after the other *)

\* The four hexadecimal digits of \u are one symbol.
JsonChar(c) ==
  CASE c \in {Quote, "\\"} -> <<"\\", c>>
    [] c = "\n" -> <<"\\", "n">>
    [] c = Control -> <<"\\", "u", Control>>
    [] OTHER -> <<c>>
JsonStep == [out \in Text |-> [c \in Alphabet |-> out \o JsonChar(c)]]

\* Mutant: a backslash is not escaped.
EscapeQuotes(s) ==
  Scan([out \in Text |-> [c \in Alphabet |-> out \o IF c = "\\" THEN <<c>> ELSE JsonChar(c)]], <<>>, s)

\* escapeJsonString()
EscapeJson(s) == Scan(JsonStep, <<>>, s)

\* The fields that logIBCEvent() and logTransactionEvent() are given
Logged(it) ==
  IF "names" \in DOMAIN it THEN Append(it.names, it.payload)
  ELSE <<it.id, it.from, it.to, it.payload>>

LineStep ==
  [line \in Text |-> [field \in Text |-> line \o <<Quote>> \o EscapeJson(field) \o <<Quote>>]]

Line(fields) == Scan(LineStep, <<>>, fields)

\* json.loads() in load_jsonl(): the strings of a line, none if it is malformed
ReadStep ==
  LET To(st, at) == [at |-> at, field |-> st.field, fields |-> st.fields]
      Take(st, c) == [at |-> "string", field |-> Append(st.field, c), fields |-> st.fields]
  IN  [st \in [at : {"outside", "string", "escape", "code", "nowhere"}, field : Text, fields : Seq(Text)] |->
        [c \in Alphabet |->
          CASE st.at = "outside" /\ c = Quote -> [at |-> "string", field |-> <<>>, fields |-> st.fields]
            [] st.at = "string" /\ c = Quote ->
                 [at |-> "outside", field |-> st.field, fields |-> Append(st.fields, st.field)]
            [] st.at = "string" /\ c = "\\" -> To(st, "escape")
            [] st.at = "string" /\ c \notin {Quote, "\\", "\n", Control} -> Take(st, c)
            [] st.at = "escape" /\ c \in {Quote, "\\"} -> Take(st, c)
            [] st.at = "escape" /\ c = "n" -> Take(st, "\n")
            [] st.at = "escape" /\ c = "u" -> To(st, "code")
            [] st.at = "code" /\ c = Control -> Take(st, c)
            [] OTHER -> To(st, "nowhere")]]

ReadLine(line) ==
  LET end == Scan(ReadStep, [at |-> "outside", field |-> <<>>, fields |-> <<>>], line)
  IN  IF end.at = "outside" THEN end.fields ELSE <<>>

-----------------------------------------------------------------------------
VARIABLES
  item,   \* what was given to sendIBC() or submitTransaction()
  stage,  \* who has it
  form    \* the form it has there

vars == <<item, stage, form>>

NoItem == [error |-> "none"]
Written(s) == [text |-> s]

\* NodeMessageKind
TransactionKind == "1"
IBCKind == "2"

Init == item = NoItem /\ stage = "idle" /\ form = NoItem

\* Blockchain::sendIBC() and onIBCPacket() publish; one of the names varies.
Publish ==
  /\ stage = "idle"
  /\ \E type, seq \in Digits, i \in 1..6, name, payload \in Strings :
       item' = [type |-> type, names |-> [[j \in 1..6 |-> <<"1">>] EXCEPT ![i] = name],
                seq |-> seq, payload |-> payload]
  /\ form' = Written(SerializePacket(item'))
  /\ stage' = "bus"

Submit ==
  /\ stage = "idle"
  /\ \E type \in Digits, to, payload \in Strings :
       item' = [from |-> <<"1">>, to |-> to, payload |-> payload, type |-> type, id |-> <<"2">>]
  /\ form' = Written(Wrap(item'.from, TransactionKind, SerializeTx(item')))
  /\ stage' = "wire"

\* The relayer's event handler queues the packet, unless it cannot read it.
Queue ==
  /\ stage = "bus"
  /\ form' = DeserializePacket(form.text)
  /\ stage' = IF form' = Malformed THEN "lost" ELSE "relayer"
  /\ UNCHANGED item

Forward ==
  /\ stage = "relayer"
  /\ form' = Written(Wrap(<<"1">>, IBCKind, SerializePacket(form)))
  /\ stage' = "wire"
  /\ UNCHANGED item

\* Node::onBytes()
OnBytes ==
  /\ stage = "wire"
  /\ form' = Unwrap(form.text)
  /\ stage' = IF form' = Malformed THEN "lost" ELSE "inbox"
  /\ UNCHANGED item

\* Node::runLoop()
Handle ==
  /\ stage = "inbox"
  /\ \/ form.kind = TransactionKind /\ form' = DeserializeTx(form.bytes)
     \/ form.kind = IBCKind /\ form' = DeserializePacket(form.bytes)
  /\ stage' = "handled"
  /\ UNCHANGED item

\* The next one
Again ==
  /\ stage \in {"handled", "lost"}
  /\ item' = NoItem /\ stage' = "idle" /\ form' = NoItem

Next == Publish \/ Submit \/ Queue \/ Forward \/ OnBytes \/ Handle \/ Again

Spec == Init /\ [][Next]_vars

-----------------------------------------------------------------------------
(* Properties *)

IsPacket == "names" \in DOMAIN item
IsTransaction == "id" \in DOMAIN item

Arrived == stage # "lost" /\ (stage = "handled" => form = item)

\* A packet whose names and payload hold any of the characters that separate
\* and escape fields is read by the node as its chain made it, after it was
\* written and read twice and wrapped once.
PacketArrives == IsPacket => Arrived

\* A transaction without a pipe in its fields, as all of the program's traffic
\* is, is read as it was submitted, backslashes included.
PlainTransactionArrives ==
  IsTransaction /\ "|" \notin ToSet(item.to) \union ToSet(item.payload) => Arrived

\* Whatever a node has read, quotes, backslashes and control characters included,
\* it logs as a single line, and who reads the file finds there what it had read.
LineReadsBack ==
  stage = "handled" /\ "payload" \in DOMAIN form =>
    LET line == Line(Logged(form))
    IN  "\n" \notin ToSet(line) /\ ReadLine(line) = Logged(form)
=============================================================================
