-------------------------- MODULE PacketCodecProofs --------------------------
(***************************************************************************)
(* What is written is read back, for strings of every length.               *)
(*                                                                          *)
(* A loop over a string is reasoned about by induction over its length.  The *)
(* least-number principle is a theorem about sets (WFMin), so the induction  *)
(* is one about the set of the lengths for which a claim holds.             *)
(***************************************************************************)
EXTENDS PacketCodec, SequenceTheorems, WellFoundedInduction, TLAPS

-----------------------------------------------------------------------------
(* Induction *)

Less == {p \in Nat \X Nat : p[1] < p[2]}

LEMMA LessWellFounded == IsWellFoundedOn(Less, Nat)
  BY NatLessThanWellFounded DEF OpToRel, Less

\* A set of numbers that has zero and with each number the next one has them all.
LEMMA Induction ==
  ASSUME NEW S, 0 \in S, \A n \in Nat : n \in S => n + 1 \in S
  PROVE  \A n \in Nat : n \in S
<1>1. SUFFICES ASSUME Nat \ S # {} PROVE FALSE
  OBVIOUS
<1>2. PICK n \in Nat \ S : \A m \in Nat \ S : <<m, n>> \notin Less
  BY <1>1, LessWellFounded, WFMin
<1>3. n # 0 /\ n - 1 \in Nat
  BY <1>2
<1>4. <<n - 1, n>> \in Less
  BY <1>3 DEF Less
<1>5. n - 1 \in S
  BY <1>2, <1>3, <1>4
<1> QED
  BY <1>3, <1>5

\* The same for sequences, built from the front to the back.
LEMMA SeqInduction ==
  ASSUME NEW E, NEW S, <<>> \in S,
         \A s \in Seq(E), e \in E : s \in S => Append(s, e) \in S
  PROVE  Seq(E) \subseteq S
<1> DEFINE Lengths == {n \in Nat : \A s \in Seq(E) : Len(s) = n => s \in S}
<1>1. 0 \in Lengths
  BY EmptySeq
<1>2. ASSUME NEW n \in Nat, n \in Lengths PROVE n + 1 \in Lengths
  <2>1. SUFFICES ASSUME NEW s \in Seq(E), Len(s) = n + 1 PROVE s \in S
    OBVIOUS
  <2>2. s # <<>>
    BY <2>1, EmptySeq
  <2>3. PICK r \in Seq(E), e \in E : s = Append(r, e)
    BY <2>2, SequenceEmptyOrAppend
  <2>4. Len(r) = n
    BY <2>1, <2>3, AppendProperties, LenProperties
  <2> QED
    BY <1>2, <2>3, <2>4
<1>3. \A n \in Nat : n \in Lengths
  <2> HIDE DEF Lengths
  <2> QED BY <1>1, <1>2, Induction
<1> QED
  BY <1>3, LenProperties

-----------------------------------------------------------------------------
(* Loops *)

\* What a loop has after each of the first n characters
Run(step, start, s, n, after) ==
  after = [i \in 0 .. n |-> IF i = 0 THEN start ELSE step[after[i - 1]][s[i]]]

LEMMA RunExists ==
  ASSUME NEW step, NEW start, NEW s
  PROVE  \A n \in Nat : \E after : Run(step, start, s, n, after)
<1> DEFINE S == {n \in Nat : \E after : Run(step, start, s, n, after)}
<1>1. 0 \in S
  <2> DEFINE after == [i \in 0 .. 0 |-> start]
  <2>1. after = [i \in 0 .. 0 |-> IF i = 0 THEN start ELSE step[after[i - 1]][s[i]]]
    OBVIOUS
  <2> QED BY <2>1 DEF Run
<1>2. ASSUME NEW n \in Nat, n \in S PROVE n + 1 \in S
  <2>1. PICK f : Run(step, start, s, n, f)
    BY <1>2
  <2> DEFINE g == [i \in 0 .. n + 1 |-> IF i = n + 1 THEN step[f[n]][s[n + 1]] ELSE f[i]]
  <2>2. \A i \in 0 .. n : g[i] = f[i]
    OBVIOUS
  <2>3. \A i \in 0 .. n : f[i] = IF i = 0 THEN start ELSE step[f[i - 1]][s[i]]
    BY <2>1 DEF Run
  <2>4. ASSUME NEW i \in 0 .. n + 1
        PROVE  g[i] = IF i = 0 THEN start ELSE step[g[i - 1]][s[i]]
    <3>1. CASE i = n + 1
      BY <3>1, <2>2
    <3>2. CASE i \in 1 .. n
      <4>1. i - 1 \in 0 .. n
        BY <3>2
      <4>2. g[i] = f[i] /\ g[i - 1] = f[i - 1]
        BY <2>2, <3>2, <4>1
      <4> QED BY <2>3, <3>2, <4>2
    <3>3. CASE i = 0
      BY <3>3, <2>2, <2>3
    <3> QED BY <3>1, <3>2, <3>3
  <2>5. Run(step, start, s, n + 1, g)
    <3>1. g = [i \in 0 .. n + 1 |-> g[i]]
      OBVIOUS
    <3> HIDE DEF g
    <3> QED BY <2>4, <3>1 DEF Run
  <2> QED BY <2>5
<1> HIDE DEF S
<1>3. \A n \in Nat : n \in S
  BY <1>1, <1>2, Induction
<1> QED BY <1>3 DEF S

\* Scan gives the last of them.
LEMMA ScanRun ==
  ASSUME NEW step, NEW start, NEW s, Len(s) \in Nat
  PROVE  \E after : Run(step, start, s, Len(s), after) /\ Scan(step, start, s) = after[Len(s)]
<1>1. PICK after : Run(step, start, s, Len(s), after)
  BY RunExists
<1> QED
  BY <1>1 DEF Run, Scan

\* They depend on these characters alone.
LEMMA RunUnique ==
  ASSUME NEW step, NEW start, NEW s, NEW r, NEW m \in Nat, NEW n \in Nat, m <= n,
         NEW f, Run(step, start, s, n, f), NEW g, Run(step, start, r, m, g),
         \A i \in 1 .. m : s[i] = r[i]
  PROVE  f[m] = g[m]
<1> DEFINE S == {i \in Nat : i <= m => f[i] = g[i]}
<1>0. /\ \A i \in 0 .. n : f[i] = IF i = 0 THEN start ELSE step[f[i - 1]][s[i]]
      /\ \A i \in 0 .. m : g[i] = IF i = 0 THEN start ELSE step[g[i - 1]][r[i]]
  BY DEF Run
<1>1. 0 \in S
  BY <1>0
<1>2. ASSUME NEW i \in Nat, i \in S PROVE i + 1 \in S
  <2>1. SUFFICES ASSUME i + 1 <= m PROVE f[i + 1] = g[i + 1]
    OBVIOUS
  <2>2. i + 1 \in 0 .. n /\ i + 1 \in 0 .. m /\ i + 1 \in 1 .. m /\ i + 1 # 0 /\ (i + 1) - 1 = i
    BY <2>1
  <2>3. f[i] = g[i]
    BY <1>2, <2>1
  <2>4. f[i + 1] = step[f[i]][s[i + 1]] /\ g[i + 1] = step[g[i]][r[i + 1]]
    BY <1>0, <2>2
  <2> QED BY <2>2, <2>3, <2>4
<1> HIDE DEF S
<1>3. \A i \in Nat : i \in S
  BY <1>1, <1>2, Induction
<1> QED BY <1>3 DEF S

LEMMA ScanEmpty ==
  ASSUME NEW step, NEW start
  PROVE  Scan(step, start, <<>>) = start
<1>1. Len(<<>>) = 0
  BY EmptySeq
<1> QED
  BY <1>1, ScanRun DEF Run

LEMMA ScanAppend ==
  ASSUME NEW E, NEW s \in Seq(E), NEW e \in E, NEW step, NEW start
  PROVE  Scan(step, start, Append(s, e)) = step[Scan(step, start, s)][e]
<1> DEFINE n == Len(s)
           t == Append(s, e)
<1>1. /\ n \in Nat /\ Len(t) = n + 1 /\ t[n + 1] = e
      /\ \A i \in 1 .. n : t[i] = s[i]
  BY AppendProperties, LenProperties
<1> HIDE DEF n, t
<1>2. PICK f : Run(step, start, t, n + 1, f) /\ Scan(step, start, t) = f[n + 1]
  BY <1>1, ScanRun
<1>3. PICK g : Run(step, start, s, n, g) /\ Scan(step, start, s) = g[n]
  BY <1>1, ScanRun DEF n
<1>4. f[n] = g[n]
  BY <1>1, <1>2, <1>3, RunUnique
<1>5. f[n + 1] = step[f[n]][t[n + 1]]
  <2>1. n + 1 \in 0 .. n + 1 /\ n + 1 # 0 /\ (n + 1) - 1 = n
    BY <1>1
  <2> QED BY <1>2, <2>1 DEF Run
<1> QED
  BY <1>1, <1>2, <1>3, <1>4, <1>5 DEF t

LEMMA ScanType ==
  ASSUME NEW E, NEW T, NEW step \in [T -> [E -> T]], NEW start \in T
  PROVE  \A s \in Seq(E) : Scan(step, start, s) \in T
<1> DEFINE S == {s \in Seq(E) : Scan(step, start, s) \in T}
<1>1. <<>> \in S
  BY ScanEmpty, EmptySeq
<1>2. ASSUME NEW s \in Seq(E), NEW e \in E, s \in S PROVE Append(s, e) \in S
  BY <1>2, ScanAppend, AppendProperties
<1> HIDE DEF S
<1>3. Seq(E) \subseteq S
  BY <1>1, <1>2, SeqInduction
<1> QED BY <1>3 DEF S

LEMMA ConcatAppend ==
  ASSUME NEW E, NEW s \in Seq(E), NEW t \in Seq(E), NEW e \in E
  PROVE  s \o Append(t, e) = Append(s \o t, e)
<1>1. <<e>> \in Seq(E)
  OBVIOUS
<1>2. Append(t, e) = t \o <<e>>
  BY AppendIsConcat
<1>3. s \o t \in Seq(E)
  BY ConcatProperties
<1>4. Append(s \o t, e) = (s \o t) \o <<e>>
  BY <1>3, AppendIsConcat
<1> QED BY <1>1, <1>2, <1>4, ConcatAssociative

\* A loop over two strings goes on behind the first where it has come to.
LEMMA ScanConcat ==
  ASSUME NEW E, NEW s \in Seq(E), NEW step, NEW start
  PROVE  \A t \in Seq(E) : Scan(step, start, s \o t) = Scan(step, Scan(step, start, s), t)
<1> DEFINE S == {t \in Seq(E) : Scan(step, start, s \o t) = Scan(step, Scan(step, start, s), t)}
<1>1. <<>> \in S
  BY ScanEmpty, EmptySeq, ConcatEmptySeq
<1>2. ASSUME NEW t \in Seq(E), NEW e \in E, t \in S PROVE Append(t, e) \in S
  <2>1. s \o t \in Seq(E) /\ Append(t, e) \in Seq(E)
    BY ConcatProperties, AppendProperties
  <2>2. Scan(step, start, s \o Append(t, e)) = step[Scan(step, start, s \o t)][e]
    <3>1. s \o Append(t, e) = Append(s \o t, e)
      BY ConcatAppend
    <3>2. Scan(step, start, Append(s \o t, e)) = step[Scan(step, start, s \o t)][e]
      BY <2>1, ScanAppend
    <3> QED BY <3>1, <3>2
  <2>3. Scan(step, Scan(step, start, s), Append(t, e)) = step[Scan(step, Scan(step, start, s), t)][e]
    BY ScanAppend
  <2> QED BY <1>2, <2>1, <2>2, <2>3
<1> HIDE DEF S
<1>3. Seq(E) \subseteq S
  BY <1>1, <1>2, SeqInduction
<1> QED BY <1>3 DEF S

LEMMA Pair ==
  ASSUME NEW d, NEW e
  PROVE  <<d>> \in Seq({d, e}) /\ Append(<<d>>, e) = <<d, e>>
<1>1. <<d>> \in Seq({d, e}) /\ <<d, e>> \in Seq({d, e})
  OBVIOUS
<1>2. Append(<<d>>, e) \in Seq({d, e})
  BY <1>1, AppendProperties
<1>3. Len(Append(<<d>>, e)) = 2 /\ Len(<<d, e>>) = 2
  OBVIOUS
<1>4. \A i \in 1 .. 2 : Append(<<d>>, e)[i] = <<d, e>>[i]
  OBVIOUS
<1> QED BY <1>1, <1>2, <1>3, <1>4, SeqEqual

LEMMA Triple ==
  ASSUME NEW c, NEW d, NEW e
  PROVE  <<c, d>> \in Seq({c, d, e}) /\ Append(<<c, d>>, e) = <<c, d, e>>
<1>1. <<c, d>> \in Seq({c, d, e}) /\ <<c, d, e>> \in Seq({c, d, e})
  OBVIOUS
<1>2. Append(<<c, d>>, e) \in Seq({c, d, e})
  BY <1>1, AppendProperties
<1>3. Len(Append(<<c, d>>, e)) = 3 /\ Len(<<c, d, e>>) = 3
  OBVIOUS
<1>4. \A i \in 1 .. 3 : Append(<<c, d>>, e)[i] = <<c, d, e>>[i]
  OBVIOUS
<1> QED BY <1>1, <1>2, <1>3, <1>4, SeqEqual

LEMMA ScanText ==
  \A s, t \in Text : \A step, start :
    Scan(step, start, s \o t) = Scan(step, Scan(step, start, s), t)
  BY ScanConcat DEF Text

LEMMA ScanOne ==
  ASSUME NEW step, NEW start, NEW e
  PROVE  Scan(step, start, <<e>>) = step[start][e]
<1>1. ASSUME NEW s \in Seq({e}), s = <<>> PROVE Scan(step, start, Append(s, e)) = step[start][e]
  <2>1. Scan(step, start, Append(s, e)) = step[Scan(step, start, s)][e]
    BY ScanAppend
  <2> QED BY <1>1, <2>1, ScanEmpty
<1>2. <<>> \in Seq({e}) /\ Append(<<>>, e) = <<e>>
  BY EmptySeq
<1> QED BY <1>1, <1>2

LEMMA ScanTwo ==
  ASSUME NEW step, NEW start, NEW d, NEW e
  PROVE  Scan(step, start, <<d, e>>) = step[step[start][d]][e]
<1>1. ASSUME NEW s \in Seq({d, e}), s = <<d>> PROVE Scan(step, start, Append(s, e)) = step[step[start][d]][e]
  <2>1. Scan(step, start, Append(s, e)) = step[Scan(step, start, s)][e]
    BY ScanAppend
  <2> QED BY <1>1, <2>1, ScanOne
<1> QED BY <1>1, Pair

LEMMA ScanThree ==
  ASSUME NEW step, NEW start, NEW c, NEW d, NEW e
  PROVE  Scan(step, start, <<c, d, e>>) = step[step[step[start][c]][d]][e]
<1>1. ASSUME NEW s \in Seq({c, d, e}), s = <<c, d>>
      PROVE  Scan(step, start, Append(s, e)) = step[step[step[start][c]][d]][e]
  <2>1. Scan(step, start, Append(s, e)) = step[Scan(step, start, s)][e]
    BY ScanAppend
  <2> QED BY <1>1, <2>1, ScanTwo
<1> QED BY <1>1, Triple

-----------------------------------------------------------------------------
(* Fields *)

LEMMA Characters ==
  /\ {"|", "\\", Quote, "\n", "n", "u", Control, "1", "2"} \subseteq Alphabet
  /\ Control \notin {"|", "\\", Quote, "\n", "n", "u"}
  /\ Quote \notin {"|", "\\", "\n", "n", "u"}
  BY DEF Alphabet, Digits, Control, Quote

LEMMA Single ==
  ASSUME NEW c \in Alphabet PROVE <<c>> \in Text
  BY DEF Text

LEMMA EscapeCharType ==
  ASSUME NEW c \in Alphabet PROVE EscapeChar(c) \in Text
<1>1. "\\" \in Alphabet
  BY Characters
<1>2. <<"\\", c>> \in Text /\ <<c>> \in Text
  BY <1>1 DEF Text
<1> QED BY <1>2 DEF EscapeChar

LEMMA EscapeStepType == EscapeStep \in [Text -> [Alphabet -> Text]]
<1>1. ASSUME NEW out \in Text, NEW c \in Alphabet PROVE out \o EscapeChar(c) \in Text
  BY EscapeCharType, ConcatProperties DEF Text
<1> QED BY <1>1 DEF EscapeStep

LEMMA EscapeType ==
  ASSUME NEW s \in Text PROVE Escape(s) \in Text
<1>1. <<>> \in Text
  BY EmptySeq DEF Text
<1> QED BY <1>1, EscapeStepType, ScanType DEF Escape, Text

LEMMA EscapeAppend ==
  ASSUME NEW s \in Text, NEW c \in Alphabet
  PROVE  Escape(Append(s, c)) = Escape(s) \o EscapeChar(c)
<1>1. Escape(Append(s, c)) = EscapeStep[Escape(s)][c]
  BY ScanAppend DEF Escape, Text
<1> QED BY <1>1, EscapeType DEF EscapeStep

LEMMA EscapeEmpty == Escape(<<>>) = <<>>
  BY ScanEmpty DEF Escape

\* unescape() undoes escape().
THEOREM UnescapeEscape ==
  \A s \in Text : Unescape(Escape(s)) = s
<1> DEFINE start == [out |-> <<>>, escaped |-> FALSE]
           S == {s \in Text : Scan(UnescapeStep, start, Escape(s)) = [out |-> s, escaped |-> FALSE]}
<1>1. <<>> \in S
  BY EscapeEmpty, ScanEmpty, EmptySeq DEF Text
<1>2. ASSUME NEW s \in Text, NEW c \in Alphabet, s \in S PROVE Append(s, c) \in S
  <2>1. /\ Escape(s) \in Seq(Alphabet) /\ EscapeChar(c) \in Seq(Alphabet)
        /\ Append(s, c) \in Text
    BY EscapeType, EscapeCharType, AppendProperties DEF Text
  <2>2. Scan(UnescapeStep, start, Escape(Append(s, c)))
          = Scan(UnescapeStep, [out |-> s, escaped |-> FALSE], EscapeChar(c))
    <3>1. Scan(UnescapeStep, start, Escape(s) \o EscapeChar(c))
            = Scan(UnescapeStep, Scan(UnescapeStep, start, Escape(s)), EscapeChar(c))
      BY <2>1, ScanConcat
    <3> QED BY <1>2, <3>1, EscapeAppend
  <2>3. CASE c \in {"|", "\\"}
    <3>1. Scan(UnescapeStep, [out |-> s, escaped |-> FALSE], EscapeChar(c))
            = UnescapeStep[UnescapeStep[[out |-> s, escaped |-> FALSE]]["\\"]][c]
      BY <2>3, ScanTwo DEF EscapeChar
    <3>2. UnescapeStep[[out |-> s, escaped |-> FALSE]]["\\"] = [out |-> s, escaped |-> TRUE]
      BY Characters DEF UnescapeStep
    <3>3. UnescapeStep[[out |-> s, escaped |-> TRUE]][c] = [out |-> Append(s, c), escaped |-> FALSE]
      BY DEF UnescapeStep
    <3> QED BY <2>1, <2>2, <3>1, <3>2, <3>3
  <2>4. CASE c \notin {"|", "\\"}
    <3>1. Scan(UnescapeStep, [out |-> s, escaped |-> FALSE], EscapeChar(c))
            = UnescapeStep[[out |-> s, escaped |-> FALSE]][c]
      BY <2>4, ScanOne DEF EscapeChar
    <3>2. UnescapeStep[[out |-> s, escaped |-> FALSE]][c] = [out |-> Append(s, c), escaped |-> FALSE]
      BY <2>4 DEF UnescapeStep
    <3> QED BY <2>1, <2>2, <3>1, <3>2
  <2> QED BY <2>3, <2>4
<1> HIDE DEF S
<1>3. Text \subseteq S
  BY <1>1, <1>2, SeqInduction DEF Text
<1>4. ASSUME NEW s \in Text PROVE Unescape(Escape(s)) = s
  <2>1. Scan(UnescapeStep, start, Escape(s)) = [out |-> s, escaped |-> FALSE]
    BY <1>3 DEF S
  <2> QED BY <2>1 DEF Unescape
<1> QED BY <1>4

LEMMA AppendTwo ==
  ASSUME NEW E, NEW s \in Seq(E), NEW d \in E, NEW e \in E
  PROVE  Append(Append(s, d), e) = s \o <<d, e>>
<1>1. <<d>> \in Seq(E)
  OBVIOUS
<1>2. s \o Append(<<d>>, e) = Append(s \o <<d>>, e)
  BY <1>1, ConcatAppend
<1> QED BY <1>2, AppendIsConcat, Pair

\* Within a field split() only copies.
Unsplit(field) ==
  \A parts \in Seq(Text), current \in Text :
    Scan(SplitStep, [parts |-> parts, current |-> current, escaped |-> FALSE], field)
      = [parts |-> parts, current |-> current \o field, escaped |-> FALSE]

LEMMA EscapedUnsplit ==
  \A s \in Text : Unsplit(Escape(s))
<1> SUFFICES ASSUME NEW parts \in Seq(Text), NEW current \in Text
             PROVE  \A s \in Text :
                      Scan(SplitStep, [parts |-> parts, current |-> current, escaped |-> FALSE], Escape(s))
                        = [parts |-> parts, current |-> current \o Escape(s), escaped |-> FALSE]
  BY DEF Unsplit
<1> DEFINE At(cur, esc) == [parts |-> parts, current |-> cur, escaped |-> esc]
           S == {s \in Text : Scan(SplitStep, At(current, FALSE), Escape(s)) = At(current \o Escape(s), FALSE)}
<1>1. <<>> \in S
  BY EscapeEmpty, ScanEmpty, EmptySeq, ConcatEmptySeq DEF Text
<1>2. ASSUME NEW s \in Text, NEW c \in Alphabet, s \in S PROVE Append(s, c) \in S
  <2> DEFINE m == current \o Escape(s)
  <2>1. /\ Escape(s) \in Text /\ EscapeChar(c) \in Text /\ m \in Text
        /\ Append(s, c) \in Text
    BY EscapeType, EscapeCharType, AppendProperties, ConcatProperties DEF Text
  <2>2. Scan(SplitStep, At(current, FALSE), Escape(Append(s, c)))
          = Scan(SplitStep, At(m, FALSE), EscapeChar(c))
    <3>1. Scan(SplitStep, At(current, FALSE), Escape(s) \o EscapeChar(c))
            = Scan(SplitStep, Scan(SplitStep, At(current, FALSE), Escape(s)), EscapeChar(c))
      BY <2>1, ScanConcat DEF Text
    <3> QED BY <1>2, <3>1, EscapeAppend
  <2>3. current \o Escape(Append(s, c)) = m \o EscapeChar(c)
    <3>1. (current \o Escape(s)) \o EscapeChar(c) = current \o (Escape(s) \o EscapeChar(c))
      BY <2>1, ConcatAssociative DEF Text
    <3> QED BY <3>1, EscapeAppend
  <2>4. Scan(SplitStep, At(m, FALSE), EscapeChar(c)) = At(m \o EscapeChar(c), FALSE)
    <3> HIDE DEF m
    <3>1. CASE c \in {"|", "\\"}
      <4>1. EscapeChar(c) = <<"\\", c>> /\ "\\" \in Alphabet
        BY <3>1, Characters DEF EscapeChar
      <4>2. Append(m, "\\") \in Text
        BY <2>1, <4>1, AppendProperties DEF Text
      <4>3. SplitStep[At(m, FALSE)]["\\"] = At(Append(m, "\\"), TRUE)
        BY <2>1, <4>1 DEF SplitStep
      <4>4. SplitStep[At(Append(m, "\\"), TRUE)][c] = At(Append(Append(m, "\\"), c), FALSE)
        BY <4>2 DEF SplitStep
      <4>5. Append(Append(m, "\\"), c) = m \o <<"\\", c>>
        BY <2>1, <4>1, AppendTwo DEF Text
      <4>6. Scan(SplitStep, At(m, FALSE), <<"\\", c>>) = SplitStep[SplitStep[At(m, FALSE)]["\\"]][c]
        BY ScanTwo
      <4> QED BY <4>1, <4>3, <4>4, <4>5, <4>6
    <3>2. CASE c \notin {"|", "\\"}
      <4>1. EscapeChar(c) = <<c>>
        BY <3>2 DEF EscapeChar
      <4>2. SplitStep[At(m, FALSE)][c] = At(Append(m, c), FALSE)
        BY <2>1, <3>2 DEF SplitStep
      <4>3. Append(m, c) = m \o <<c>>
        BY <2>1, AppendIsConcat DEF Text
      <4>4. Scan(SplitStep, At(m, FALSE), <<c>>) = SplitStep[At(m, FALSE)][c]
        BY ScanOne
      <4> QED BY <4>1, <4>2, <4>3, <4>4
    <3> QED BY <3>1, <3>2
  <2> QED BY <2>1, <2>2, <2>3, <2>4
<1> HIDE DEF S
<1>3. Text \subseteq S
  BY <1>1, <1>2, SeqInduction DEF Text
<1> QED BY <1>3 DEF S

LEMMA DigitUnsplit ==
  ASSUME NEW d \in Digits PROVE <<d>> \in Text /\ Unsplit(<<d>>)
<1>1. d \in Alphabet /\ d # "|" /\ d # "\\"
  BY Characters DEF Digits
<1>2. ASSUME NEW parts \in Seq(Text), NEW current \in Text
      PROVE  Scan(SplitStep, [parts |-> parts, current |-> current, escaped |-> FALSE], <<d>>)
               = [parts |-> parts, current |-> current \o <<d>>, escaped |-> FALSE]
  <2>1. SplitStep[[parts |-> parts, current |-> current, escaped |-> FALSE]][d]
          = [parts |-> parts, current |-> Append(current, d), escaped |-> FALSE]
    BY <1>1 DEF SplitStep
  <2>2. Append(current, d) = current \o <<d>>
    BY <1>1, AppendIsConcat DEF Text
  <2> QED BY <2>1, <2>2, ScanOne
<1>3. <<d>> \in Text
  BY <1>1 DEF Text
<1> QED BY <1>2, <1>3 DEF Unsplit

-----------------------------------------------------------------------------
(* Joined fields *)

LEMMA SeparatorType == Separator \in Text /\ Len(Separator) = 1 /\ Separator[1] = "|"
  BY Characters, Single DEF Separator

LEMMA JoinOne ==
  ASSUME NEW field PROVE Join(<<field>>) = field
<1>1. Head(<<field>>) = field /\ Tail(<<field>>) = <<>>
  OBVIOUS
<1> QED BY <1>1, ScanEmpty DEF Join

LEMMA JoinType ==
  ASSUME NEW fields \in Seq(Text), fields # <<>>
  PROVE  Join(fields) \in Text
<1>1. JoinStep \in [Text -> [Text -> Text]]
  <2>1. ASSUME NEW joined \in Text, NEW field \in Text PROVE joined \o Separator \o field \in Text
    <3>1. Separator \in Text
      BY SeparatorType
    <3>2. joined \o Separator \in Text
      BY <3>1, ConcatProperties DEF Text
    <3> QED BY <3>2, ConcatProperties DEF Text
  <2> QED BY <2>1 DEF JoinStep
<1>2. Head(fields) \in Text /\ Tail(fields) \in Seq(Text)
  BY HeadTailProperties
<1> QED BY <1>1, <1>2, ScanType DEF Join

LEMMA JoinAppend ==
  ASSUME NEW fields \in Seq(Text), fields # <<>>, NEW field \in Text
  PROVE  Join(Append(fields, field)) = Join(fields) \o Separator \o field
<1>1. Head(Append(fields, field)) = Head(fields) /\ Tail(Append(fields, field)) = Append(Tail(fields), field)
  BY HeadTailAppend
<1>2. Head(fields) \in Text /\ Tail(fields) \in Seq(Text)
  BY HeadTailProperties
<1>3. Scan(JoinStep, Head(fields), Append(Tail(fields), field))
        = JoinStep[Scan(JoinStep, Head(fields), Tail(fields))][field]
  BY <1>2, ScanAppend
<1>4. Join(Append(fields, field)) = JoinStep[Join(fields)][field]
  BY <1>1, <1>3 DEF Join
<1> QED BY <1>4, JoinType DEF JoinStep

\* split() finds the fields that were joined.
Fields == {field \in Text : Unsplit(field)}

LEMMA SplitJoin ==
  \A fields \in Seq(Fields), field \in Fields :
    Split(Join(Append(fields, field))) = Append(fields, field)
<1> DEFINE At(parts, cur) == [parts |-> parts, current |-> cur, escaped |-> FALSE]
           S == {fields \in Seq(Fields) : \A field \in Fields :
                   Scan(SplitStep, At(<<>>, <<>>), Join(Append(fields, field))) = At(fields, field)}
<1>0. <<>> \in Text /\ <<>> \in Seq(Text) /\ Fields \subseteq Text
  BY EmptySeq DEF Text, Fields
<1>1. <<>> \in S
  <2>1. ASSUME NEW field \in Fields
        PROVE  Scan(SplitStep, At(<<>>, <<>>), Join(<<field>>)) = At(<<>>, field)
    <3>1. Scan(SplitStep, At(<<>>, <<>>), field) = At(<<>>, <<>> \o field)
      BY <1>0 DEF Fields, Unsplit
    <3> QED BY <1>0, <3>1, JoinOne, ConcatEmptySeq DEF Text
  <2>2. <<>> \in Seq(Fields) /\ \A field : Append(<<>>, field) = <<field>>
    BY EmptySeq
  <2> QED BY <2>1, <2>2
<1>2. ASSUME NEW fields \in Seq(Fields), NEW g \in Fields, fields \in S PROVE Append(fields, g) \in S
  <2> DEFINE gs == Append(fields, g)
  <2>1. /\ gs \in Seq(Fields) /\ gs # <<>> /\ gs \in Seq(Text)
        /\ Join(gs) \in Text
    BY <1>0, AppendProperties, SeqMonotonic, JoinType
  <2>2. ASSUME NEW field \in Fields
        PROVE  Scan(SplitStep, At(<<>>, <<>>), Join(Append(gs, field))) = At(gs, field)
    <3>0. field \in Text /\ Separator \in Text /\ Join(gs) \o Separator \in Text /\ "|" \in Alphabet
      BY <1>0, <2>1, Characters, SeparatorType, ConcatProperties DEF Text
    <3>1. Join(Append(gs, field)) = Join(gs) \o Separator \o field
      BY <1>0, <2>1, JoinAppend
    <3>2. Scan(SplitStep, At(<<>>, <<>>), Join(gs)) = At(fields, g)
      BY <1>2
    <3>3. Scan(SplitStep, At(<<>>, <<>>), Join(gs) \o Separator) = Scan(SplitStep, At(fields, g), Separator)
      BY <2>1, <3>0, <3>2, ScanText
    <3>4. SplitStep[At(fields, g)]["|"] = At(gs, <<>>)
      <4>1. fields \in Seq(Text) /\ g \in Text
        BY <1>0, SeqMonotonic
      <4> QED BY <3>0, <4>1 DEF SplitStep
    <3>5. Scan(SplitStep, At(<<>>, <<>>), Join(gs) \o Separator \o field) = Scan(SplitStep, At(gs, <<>>), field)
      <4>1. Scan(SplitStep, At(<<>>, <<>>), (Join(gs) \o Separator) \o field)
              = Scan(SplitStep, Scan(SplitStep, At(<<>>, <<>>), Join(gs) \o Separator), field)
        BY <3>0, ScanText
      <4>2. Scan(SplitStep, At(fields, g), Separator) = At(gs, <<>>)
        BY <3>4, ScanOne DEF Separator
      <4> QED BY <3>3, <4>1, <4>2
    <3>6. Scan(SplitStep, At(gs, <<>>), field) = At(gs, <<>> \o field)
      BY <1>0, <2>1 DEF Fields, Unsplit
    <3> QED BY <3>0, <3>1, <3>5, <3>6, ConcatEmptySeq DEF Text
  <2> QED BY <2>1, <2>2
<1> HIDE DEF S
<1>3. Seq(Fields) \subseteq S
  BY <1>1, <1>2, SeqInduction
<1>4. ASSUME NEW fields \in Seq(Fields), NEW field \in Fields
      PROVE  Split(Join(Append(fields, field))) = Append(fields, field)
  <2>1. Scan(SplitStep, At(<<>>, <<>>), Join(Append(fields, field))) = At(fields, field)
    BY <1>3 DEF S
  <2> QED BY <2>1 DEF Split
<1> QED BY <1>4

-----------------------------------------------------------------------------
(* Packets *)

AnyPacket == [type : Digits, names : [1..6 -> Text], seq : Digits, payload : Text]

PacketFields(pkt) ==
  <<<<pkt.type>>>> \o [i \in 1..6 |-> Escape(pkt.names[i])] \o <<<<pkt.seq>>, Escape(pkt.payload)>>

LEMMA NumberOfDigit ==
  ASSUME NEW d \in Digits PROVE Number(<<d>>) = d /\ d # NotANumber
<1> DEFINE first == {i \in DOMAIN <<d>> : <<d>>[i] \in Digits /\ \A j \in 1 .. i - 1 : <<d>>[j] = "\n"}
<1>1. DOMAIN <<d>> = {1} /\ <<d>>[1] = d /\ 1 .. 1 - 1 = {}
  OBVIOUS
<1>2. first = {1}
  BY <1>1
<1>3. d # NotANumber
  BY DEF Digits, NotANumber
<1> QED BY <1>1, <1>2, <1>3 DEF Number

LEMMA Concat ==
  ASSUME NEW E, NEW s \in Seq(E), NEW t \in Seq(E), NEW u, u = s \o t
  PROVE  /\ u \in Seq(E) /\ Len(u) = Len(s) + Len(t)
         /\ \A i \in 1 .. Len(s) : u[i] = s[i]
         /\ \A i \in 1 .. Len(t) : u[Len(s) + i] = t[i]
<1>1. Len(s) \in Nat /\ Len(t) \in Nat
  BY LenProperties
<1>2. ASSUME NEW i \in 1 .. Len(t) PROVE (s \o t)[Len(s) + i] = t[i]
  <2>1. Len(s) + i \in 1 .. Len(s) + Len(t) /\ ~(Len(s) + i <= Len(s)) /\ (Len(s) + i) - Len(s) = i
    BY <1>1
  <2> QED BY <2>1, ConcatProperties
<1>3. ASSUME NEW i \in 1 .. Len(s) PROVE (s \o t)[i] = s[i]
  <2>1. i \in 1 .. Len(s) + Len(t) /\ i <= Len(s)
    BY <1>1
  <2> QED BY <2>1, ConcatProperties
<1> QED BY <1>2, <1>3, ConcatProperties

LEMMA PacketFieldsType ==
  ASSUME NEW pkt \in AnyPacket
  PROVE  /\ PacketFields(pkt) \in Seq(Fields) /\ Len(PacketFields(pkt)) = 9
         /\ PacketFields(pkt)[1] = <<pkt.type>>
         /\ \A i \in 1..6 : PacketFields(pkt)[i + 1] = Escape(pkt.names[i])
         /\ PacketFields(pkt)[8] = <<pkt.seq>>
         /\ PacketFields(pkt)[9] = Escape(pkt.payload)
<1> DEFINE a == <<<<pkt.type>>>>
           b == [i \in 1..6 |-> Escape(pkt.names[i])]
           c == <<<<pkt.seq>>, Escape(pkt.payload)>>
<1>1. /\ pkt.type \in Digits /\ pkt.seq \in Digits /\ pkt.payload \in Text
      /\ \A i \in 1..6 : pkt.names[i] \in Text
  BY DEF AnyPacket
<1>2. \A s \in Text : Escape(s) \in Fields
  BY EscapeType, EscapedUnsplit DEF Fields
<1>3. \A d \in Digits : <<d>> \in Fields
  BY DigitUnsplit DEF Fields
<1>4. a \in Seq(Fields) /\ Len(a) = 1 /\ a[1] = <<pkt.type>>
  <2>1. <<pkt.type>> \in Fields
    BY <1>1, <1>3
  <2> QED BY <2>1
<1>5. b \in Seq(Fields) /\ Len(b) = 6 /\ \A i \in 1..6 : b[i] = Escape(pkt.names[i])
  <2>1. \A i \in 1..6 : Escape(pkt.names[i]) \in Fields
    BY <1>1, <1>2
  <2>2. b \in [1..6 -> Fields]
    BY <2>1
  <2> QED BY <2>2
<1>6. c \in Seq(Fields) /\ Len(c) = 2 /\ c[1] = <<pkt.seq>> /\ c[2] = Escape(pkt.payload)
  <2>1. <<pkt.seq>> \in Fields /\ Escape(pkt.payload) \in Fields
    BY <1>1, <1>2, <1>3
  <2> QED BY <2>1
<1>7. PacketFields(pkt) = a \o b \o c
  BY DEF PacketFields
<1> HIDE DEF a, b, c
<1>d. PICK d : d = a \o b
  OBVIOUS
<1>f. PICK f : f = d \o c
  OBVIOUS
<1>8. /\ d \in Seq(Fields) /\ Len(d) = 7
      /\ \A i \in 1..1 : d[i] = a[i]
      /\ \A i \in 1..6 : d[1 + i] = b[i]
  <2>1. /\ d \in Seq(Fields) /\ Len(d) = Len(a) + Len(b)
        /\ \A i \in 1 .. Len(a) : d[i] = a[i]
        /\ \A i \in 1 .. Len(b) : d[Len(a) + i] = b[i]
    <3>1. a \in Seq(Fields) /\ b \in Seq(Fields)
      BY <1>4, <1>5
    <3> QED BY <3>1, <1>d, Concat
  <2> QED BY <1>4, <1>5, <2>1
<1>9. PacketFields(pkt) = f
  BY <1>7, <1>d, <1>f
<1>10. /\ f \in Seq(Fields) /\ Len(f) = 9
       /\ \A i \in 1..7 : f[i] = d[i]
       /\ \A i \in 1..2 : f[7 + i] = c[i]
  <2>1. /\ f \in Seq(Fields) /\ Len(f) = Len(d) + Len(c)
        /\ \A i \in 1 .. Len(d) : f[i] = d[i]
        /\ \A i \in 1 .. Len(c) : f[Len(d) + i] = c[i]
    <3>1. c \in Seq(Fields) /\ d \in Seq(Fields)
      BY <1>6, <1>8
    <3> QED BY <3>1, <1>f, Concat
  <2> QED BY <1>6, <1>8, <2>1
<1>11. f[1] = <<pkt.type>> /\ f[8] = <<pkt.seq>> /\ f[9] = Escape(pkt.payload)
  <2>1. f[1] = d[1] /\ d[1] = a[1]
    BY <1>8, <1>10
  <2>2. f[7 + 1] = c[1] /\ f[7 + 2] = c[2]
    BY <1>10
  <2> QED BY <1>4, <1>6, <2>1, <2>2
<1>12. ASSUME NEW i \in 1..6 PROVE f[i + 1] = Escape(pkt.names[i])
  <2>1. f[1 + i] = d[1 + i] /\ d[1 + i] = b[i]
    BY <1>8, <1>10
  <2>2. 1 + i = i + 1
    OBVIOUS
  <2> QED BY <1>5, <2>1, <2>2
<1> QED BY <1>9, <1>10, <1>11, <1>12

LEMMA SerializePacketType ==
  ASSUME NEW pkt \in AnyPacket PROVE SerializePacket(pkt) \in Text
<1>1. PacketFields(pkt) \in Seq(Text) /\ PacketFields(pkt) # <<>>
  <2>1. PacketFields(pkt) \in Seq(Fields) /\ Len(PacketFields(pkt)) = 9 /\ Fields \subseteq Text
    BY PacketFieldsType DEF Fields
  <2> QED BY <2>1, SeqMonotonic, EmptySeq
<1> QED BY <1>1, JoinType DEF SerializePacket, PacketFields

\* deserializeIBCPacket() undoes serializeIBCPacket(), whatever characters stand in
\* whichever of the names and in the payload.
THEOREM PacketReadsBack ==
  \A pkt \in AnyPacket : DeserializePacket(SerializePacket(pkt)) = pkt
<1> SUFFICES ASSUME NEW pkt \in AnyPacket PROVE DeserializePacket(SerializePacket(pkt)) = pkt
  OBVIOUS
<1> DEFINE parts == PacketFields(pkt)
<1>1. Split(SerializePacket(pkt)) = parts
  <2>1. parts \in Seq(Fields) /\ parts # <<>>
    BY PacketFieldsType, EmptySeq
  <2>2. PICK fields \in Seq(Fields), field \in Fields : parts = Append(fields, field)
    BY <2>1, SequenceEmptyOrAppend
  <2>3. SerializePacket(pkt) = Join(parts)
    BY DEF SerializePacket, PacketFields
  <2> QED BY <2>2, <2>3, SplitJoin
<1>2. /\ pkt.type \in Digits /\ pkt.seq \in Digits /\ pkt.payload \in Text
      /\ pkt.names \in [1..6 -> Text]
  BY DEF AnyPacket
<1>3. /\ Len(parts) = 9
      /\ Number(parts[1]) = pkt.type /\ pkt.type # NotANumber
      /\ Number(parts[8]) = pkt.seq /\ pkt.seq # NotANumber
      /\ Unescape(parts[9]) = pkt.payload
      /\ \A i \in 1..6 : Unescape(parts[i + 1]) = pkt.names[i]
  BY <1>2, PacketFieldsType, NumberOfDigit, UnescapeEscape
<1>4. [i \in 1..6 |-> Unescape(parts[i + 1])] = pkt.names
  BY <1>2, <1>3
<1> HIDE DEF parts
<1>5. DeserializePacket(SerializePacket(pkt))
        = [type |-> pkt.type, names |-> pkt.names, seq |-> pkt.seq, payload |-> pkt.payload]
  BY <1>1, <1>3, <1>4 DEF DeserializePacket
<1> QED BY <1>5 DEF AnyPacket

-----------------------------------------------------------------------------
(* Positions in a string *)

\* These stay folded where the provers would take the equations for rewrite rules.
IsConcat(s, a, b) == s = a \o b
IsJoin(s, a, b) == s = a \o Separator \o b
AreJoined(s, a, b, c, d, e) == s = Join(<<a, b, c, d, e>>)

NoPipe(s) == \A i \in 1 .. Len(s) : s[i] # "|"

\* part stands in s behind the first n characters.
At(s, n, part) ==
  n + Len(part) <= Len(s) /\ \A i \in 1 .. Len(part) : s[n + i] = part[i]

LEMMA TextLen == \A s \in Text : Len(s) \in Nat /\ \A i \in 1 .. Len(s) : s[i] \in Alphabet
  BY LenProperties DEF Text

LEMMA SubSeqAt ==
  ASSUME NEW s \in Text, NEW n \in Nat, NEW part \in Text, At(s, n, part)
  PROVE  SubSeq(s, n + 1, n + Len(part)) = part
<1> DEFINE m == n + Len(part)
           r == SubSeq(s, n + 1, m)
<1>1. Len(s) \in Nat /\ Len(part) \in Nat /\ m \in Nat /\ m <= Len(s) /\ n + 1 \in Int /\ m \in Int
  BY TextLen DEF At
<1>2. \A i \in n + 1 .. m : s[i] \in Alphabet
  BY <1>1, TextLen
<1>3. /\ r \in Seq(Alphabet)
      /\ Len(r) = IF n + 1 <= m THEN m - (n + 1) + 1 ELSE 0
      /\ \A i \in 1 .. m - (n + 1) + 1 : r[i] = s[n + 1 + i - 1]
  BY <1>1, <1>2, SubSeqProperties
<1>4. Len(r) = Len(part)
  BY <1>1, <1>3
<1>5. ASSUME NEW i \in 1 .. Len(part) PROVE r[i] = part[i]
  <2>1. i \in 1 .. m - (n + 1) + 1 /\ n + 1 + i - 1 = n + i
    BY <1>1
  <2> HIDE DEF r
  <2> QED BY <1>3, <2>1 DEF At
<1> QED BY <1>3, <1>4, <1>5, SeqEqual DEF Text

LEMMA FindAt ==
  ASSUME NEW s, Len(s) \in Nat, NEW from \in Nat, NEW p \in from .. Len(s), s[p] = "|",
         \A i \in from .. p - 1 : s[i] # "|"
  PROVE  Find(s, from) = p
<1> DEFINE First(i) == s[i] = "|" /\ \A j \in from .. i - 1 : s[j] # "|"
<1>1. First(p)
  OBVIOUS
<1>2. ASSUME NEW i \in from .. Len(s), First(i) PROVE i = p
  <2>1. ~(i < p)
    <3> SUFFICES ASSUME i < p PROVE FALSE
      OBVIOUS
    <3>1. i \in from .. p - 1
      OBVIOUS
    <3> QED BY <1>2, <3>1
  <2>2. ~(p < i)
    <3> SUFFICES ASSUME p < i PROVE FALSE
      OBVIOUS
    <3>1. p \in from .. i - 1
      OBVIOUS
    <3> QED BY <1>2, <3>1
  <2> QED BY <2>1, <2>2
<1>3. (CHOOSE i \in from .. Len(s) : First(i)) = p
  BY <1>1, <1>2
<1> QED BY <1>3 DEF Find

LEMMA AtConcat ==
  ASSUME NEW a \in Text, NEW b \in Text, NEW s, IsConcat(s, a, b)
  PROVE  /\ s \in Text /\ Len(s) = Len(a) + Len(b)
         /\ At(s, 0, a) /\ At(s, Len(a), b)
         /\ \A n \in Nat, part \in Text : At(a, n, part) => At(s, n, part)
         /\ \A i \in 1 .. Len(a) : s[i] = a[i]
<1>1. /\ s \in Text /\ Len(s) = Len(a) + Len(b)
      /\ \A i \in 1 .. Len(a) : s[i] = a[i]
      /\ \A i \in 1 .. Len(b) : s[Len(a) + i] = b[i]
  BY Concat DEF Text, IsConcat
<1>2. Len(a) \in Nat /\ Len(b) \in Nat
  BY TextLen
<1>3. At(s, 0, a)
  BY <1>1, <1>2 DEF At
<1>4. At(s, Len(a), b)
  BY <1>1, <1>2 DEF At
<1>5. ASSUME NEW n \in Nat, NEW part \in Text, At(a, n, part) PROVE At(s, n, part)
  <2>1. Len(part) \in Nat /\ n + Len(part) <= Len(a)
    BY <1>5, TextLen DEF At
  <2>2. ASSUME NEW i \in 1 .. Len(part) PROVE s[n + i] = part[i]
    <3>1. n + i \in 1 .. Len(a)
      BY <1>2, <2>1
    <3> QED BY <1>1, <1>5, <3>1 DEF At
  <2> QED BY <1>1, <1>2, <2>1, <2>2 DEF At
<1> QED BY <1>1, <1>3, <1>4, <1>5

-----------------------------------------------------------------------------
(* Envelopes *)

\* deserializeNodeMessage() undoes serializeNodeMessage(), whatever the bytes, if the
\* address has no pipe.
THEOREM EnvelopeReadsBack ==
  ASSUME NEW from \in Text, NoPipe(from), NEW kind \in Digits, NEW bytes \in Text
  PROVE  /\ Wrap(from, kind, bytes) \in Text
         /\ Unwrap(Wrap(from, kind, bytes)) = [from |-> from, kind |-> kind, bytes |-> bytes]
<1> DEFINE s == Wrap(from, kind, bytes)
           n == Len(from)
<1>1. PICK mid : mid = <<"|", kind, "|">>
  OBVIOUS
<1>2. mid \in Text /\ Len(mid) = 3 /\ mid[1] = "|" /\ mid[2] = kind /\ mid[3] = "|"
  <2>1. "|" \in Alphabet /\ kind \in Alphabet
    BY Characters DEF Digits
  <2> QED BY <1>1, <2>1 DEF Text
<1>3. PICK head : IsConcat(head, from, mid)
  BY DEF IsConcat
<1>4. IsConcat(s, head, bytes)
  BY <1>1, <1>3 DEF Wrap, IsConcat
<1> HIDE DEF s
<1>5. /\ head \in Text /\ Len(head) = n + 3 /\ At(head, n, mid) /\ At(head, 0, from)
  <2>1. /\ head \in Text /\ Len(head) = Len(from) + Len(mid)
        /\ At(head, Len(from), mid) /\ At(head, 0, from)
    <3>1. mid \in Text
      BY <1>2
    <3> QED BY <1>3, <3>1, AtConcat
  <2> QED BY <1>2, <2>1
<1>6. /\ s \in Text /\ Len(s) = n + 3 + Len(bytes)
      /\ At(s, n + 3, bytes) /\ At(s, n, mid) /\ At(s, 0, from)
  <2>1. n \in Nat /\ 0 \in Nat /\ head \in Text /\ mid \in Text
    BY <1>2, <1>5, TextLen
  <2>2. /\ s \in Text /\ Len(s) = Len(head) + Len(bytes) /\ At(s, Len(head), bytes)
        /\ \A m \in Nat, part \in Text : At(head, m, part) => At(s, m, part)
    BY <1>4, <2>1, AtConcat
  <2> HIDE DEF n
  <2> QED BY <1>5, <2>1, <2>2
<1>7. n \in Nat /\ Len(bytes) \in Nat /\ Len(s) \in Nat
  BY <1>6, TextLen
<1>8. /\ \A i \in 1 .. n : s[i] = from[i]
      /\ s[n + 1] = "|" /\ s[n + 2] = kind /\ s[n + 3] = "|"
  <2>1. ASSUME NEW i \in 1 .. n PROVE s[i] = from[i]
    BY <1>6, <1>7 DEF At
  <2>2. s[n + 1] = mid[1] /\ s[n + 2] = mid[2] /\ s[n + 3] = mid[3]
    BY <1>2, <1>6 DEF At
  <2> QED BY <1>2, <2>1, <2>2
<1>9. Find(s, 1) = n + 1
  <2>1. n + 1 \in 1 .. Len(s)
    BY <1>6, <1>7
  <2>2. \A i \in 1 .. (n + 1) - 1 : s[i] # "|"
    BY <1>7, <1>8 DEF NoPipe
  <2> QED BY <1>7, <1>8, <2>1, <2>2, FindAt
<1>10. Find(s, (n + 1) + 1) = n + 3
  <2>1. n + 3 \in (n + 1) + 1 .. Len(s) /\ (n + 1) + 1 \in Nat
    BY <1>6, <1>7
  <2>2. ASSUME NEW i \in (n + 1) + 1 .. (n + 3) - 1 PROVE s[i] # "|"
    <3>1. i = n + 2
      BY <1>7
    <3> QED BY <1>8, <3>1 DEF Digits
  <2> QED BY <1>7, <1>8, <2>1, <2>2, FindAt
<1>11. SubSeq(s, 1, (n + 1) - 1) = from
  <2>1. SubSeq(s, 0 + 1, 0 + Len(from)) = from
    BY <1>6, SubSeqAt
  <2>2. 0 + 1 = 1 /\ 0 + Len(from) = (n + 1) - 1
    BY <1>7
  <2> QED BY <2>1, <2>2
<1>12. SubSeq(s, (n + 1) + 1, (n + 3) - 1) = <<kind>>
  <2>1. PICK k : k = <<kind>>
    OBVIOUS
  <2>2. k \in Text /\ Len(k) = 1 /\ k[1] = kind
    <3>1. kind \in Alphabet
      BY Characters DEF Digits
    <3> QED BY <2>1, <3>1 DEF Text
  <2>3. At(s, n + 1, k)
    <3>1. (n + 1) + 1 = n + 2
      BY <1>7
    <3> QED BY <1>6, <1>7, <1>8, <2>2, <3>1 DEF At
  <2>4. SubSeq(s, (n + 1) + 1, (n + 1) + Len(k)) = k
    <3>1. n + 1 \in Nat
      BY <1>7
    <3> HIDE DEF n
    <3> QED BY <1>6, <2>2, <2>3, <3>1, SubSeqAt
  <2>5. (n + 1) + Len(k) = (n + 3) - 1
    BY <1>7, <2>2
  <2> QED BY <2>1, <2>4, <2>5
<1>13. SubSeq(s, (n + 3) + 1, Len(s)) = bytes
  <2>1. SubSeq(s, (n + 3) + 1, (n + 3) + Len(bytes)) = bytes
    BY <1>6, <1>7, SubSeqAt
  <2> QED BY <1>6, <2>1
<1>14. Number(<<kind>>) = kind /\ kind # NotANumber
  BY NumberOfDigit
<1>15. n + 1 # npos /\ n + 3 # npos
  BY <1>7 DEF npos
<1>16. Unwrap(s) = [from |-> from, kind |-> kind, bytes |-> bytes]
  <2> HIDE DEF n
  <2> QED BY <1>9, <1>10, <1>11, <1>12, <1>13, <1>14, <1>15 DEF Unwrap
<1> QED BY <1>6, <1>16 DEF s

-----------------------------------------------------------------------------
(* Transactions *)

LEMMA Four ==
  ASSUME NEW a, NEW b, NEW c, NEW d
  PROVE  Append(<<a, b, c>>, d) = <<a, b, c, d>>
<1> DEFINE E == {a, b, c, d}
<1>1. <<a, b, c>> \in Seq(E) /\ <<a, b, c, d>> \in Seq(E)
  OBVIOUS
<1>2. Append(<<a, b, c>>, d) \in Seq(E)
  BY <1>1, AppendProperties
<1>3. Len(Append(<<a, b, c>>, d)) = 4 /\ Len(<<a, b, c, d>>) = 4
  OBVIOUS
<1>4. \A i \in 1 .. 4 : Append(<<a, b, c>>, d)[i] = <<a, b, c, d>>[i]
  OBVIOUS
<1> QED BY <1>1, <1>2, <1>3, <1>4, SeqEqual

LEMMA Five ==
  ASSUME NEW a, NEW b, NEW c, NEW d, NEW e
  PROVE  Append(<<a, b, c, d>>, e) = <<a, b, c, d, e>>
<1> DEFINE E == {a, b, c, d, e}
<1>1. <<a, b, c, d>> \in Seq(E) /\ <<a, b, c, d, e>> \in Seq(E)
  OBVIOUS
<1>2. Append(<<a, b, c, d>>, e) \in Seq(E)
  BY <1>1, AppendProperties
<1>3. Len(Append(<<a, b, c, d>>, e)) = 5 /\ Len(<<a, b, c, d, e>>) = 5
  OBVIOUS
<1>4. \A i \in 1 .. 5 : Append(<<a, b, c, d>>, e)[i] = <<a, b, c, d, e>>[i]
  OBVIOUS
<1> QED BY <1>1, <1>2, <1>3, <1>4, SeqEqual

LEMMA JoinFive ==
  ASSUME NEW a \in Text, NEW b \in Text, NEW c \in Text, NEW d \in Text, NEW e \in Text
  PROVE  \E ab, abc, abcd \in Text :
           /\ IsJoin(ab, a, b) /\ IsJoin(abc, ab, c) /\ IsJoin(abcd, abc, d)
           /\ IsJoin(Join(<<a, b, c, d, e>>), abcd, e)
<1>1. /\ <<a>> \in Seq(Text) /\ <<a, b>> \in Seq(Text) /\ <<a, b, c>> \in Seq(Text)
      /\ <<a, b, c, d>> \in Seq(Text)
      /\ <<a>> # <<>> /\ <<a, b>> # <<>> /\ <<a, b, c>> # <<>> /\ <<a, b, c, d>> # <<>>
  OBVIOUS
<1>2. /\ Join(<<a, b>>) \in Text /\ Join(<<a, b, c>>) \in Text /\ Join(<<a, b, c, d>>) \in Text
  BY <1>1, JoinType
<1>3. Join(<<a, b>>) = a \o Separator \o b
  <2>1. Join(Append(<<a>>, b)) = Join(<<a>>) \o Separator \o b
    BY <1>1, JoinAppend
  <2> QED BY <2>1, Pair, JoinOne
<1>4. Join(<<a, b, c>>) = Join(<<a, b>>) \o Separator \o c
  <2>1. Join(Append(<<a, b>>, c)) = Join(<<a, b>>) \o Separator \o c
    BY <1>1, JoinAppend
  <2> QED BY <2>1, Triple
<1>5. Join(<<a, b, c, d>>) = Join(<<a, b, c>>) \o Separator \o d
  <2>1. Join(Append(<<a, b, c>>, d)) = Join(<<a, b, c>>) \o Separator \o d
    BY <1>1, JoinAppend
  <2> QED BY <2>1, Four
<1>6. Join(<<a, b, c, d, e>>) = Join(<<a, b, c, d>>) \o Separator \o e
  <2>1. Join(Append(<<a, b, c, d>>, e)) = Join(<<a, b, c, d>>) \o Separator \o e
    BY <1>1, JoinAppend
  <2> QED BY <2>1, Five
<1> QED BY <1>2, <1>3, <1>4, <1>5, <1>6 DEF IsJoin

LEMMA BarConcat ==
  ASSUME NEW a \in Text, NEW b \in Text, NEW s, IsJoin(s, a, b)
  PROVE  /\ s \in Text /\ Len(s) = Len(a) + 1 + Len(b)
         /\ At(s, 0, a) /\ s[Len(a) + 1] = "|" /\ At(s, Len(a) + 1, b)
         /\ \A n \in Nat, part \in Text : At(a, n, part) => At(s, n, part)
         /\ \A i \in 1 .. Len(a) : s[i] = a[i]
<1>2. Separator \in Text /\ Len(Separator) = 1 /\ Separator[1] = "|"
  BY SeparatorType
<1>3. PICK r : IsConcat(r, a, Separator)
  BY DEF IsConcat
<1>4. /\ r \in Text /\ Len(r) = Len(a) + Len(Separator) /\ At(r, 0, a) /\ At(r, Len(a), Separator)
      /\ \A n \in Nat, part \in Text : At(a, n, part) => At(r, n, part)
      /\ \A i \in 1 .. Len(a) : r[i] = a[i]
  <2>1. Separator \in Text
    BY <1>2
  <2> QED BY <1>3, <2>1, AtConcat
<1>5. IsConcat(s, r, b)
  BY <1>3 DEF IsConcat, IsJoin
<1>6. /\ s \in Text /\ Len(s) = Len(r) + Len(b) /\ At(s, Len(r), b)
      /\ \A n \in Nat, part \in Text : At(r, n, part) => At(s, n, part)
      /\ \A i \in 1 .. Len(r) : s[i] = r[i]
  <2>1. r \in Text
    BY <1>4
  <2> QED BY <1>5, <2>1, AtConcat
<1>7. Len(a) \in Nat /\ Len(b) \in Nat
  BY TextLen
<1>8. s[Len(a) + 1] = "|"
  <2>1. r[Len(a) + 1] = Separator[1]
    BY <1>2, <1>4 DEF At
  <2> QED BY <1>2, <1>4, <1>6, <1>7, <2>1
<1>9. \A i \in 1 .. Len(a) : s[i] = a[i]
  BY <1>2, <1>4, <1>6, <1>7
<1> QED BY <1>2, <1>4, <1>6, <1>7, <1>8, <1>9

\* Behind a part without a pipe find() stops at the next pipe.
LEMMA FindBehind ==
  ASSUME NEW s \in Text, NEW n \in Nat, NEW part \in Text, At(s, n, part), NoPipe(part),
         n + Len(part) + 1 <= Len(s), s[n + Len(part) + 1] = "|"
  PROVE  Find(s, n + 1) = n + Len(part) + 1
<1>1. Len(s) \in Nat /\ Len(part) \in Nat
  BY TextLen
<1>2. n + Len(part) + 1 \in n + 1 .. Len(s) /\ n + 1 \in Nat
  BY <1>1
<1>3. ASSUME NEW i \in n + 1 .. (n + Len(part) + 1) - 1 PROVE s[i] # "|"
  <2>1. i - n \in 1 .. Len(part) /\ n + (i - n) = i
    BY <1>1
  <2>2. s[n + (i - n)] = part[i - n]
    BY <2>1 DEF At
  <2> QED BY <2>1, <2>2 DEF NoPipe
<1> QED BY <1>1, <1>2, <1>3, FindAt

Places(s, a, b, c, d, e) ==
  \E n2, n3, n4, n5 \in Nat :
    /\ n2 = 0 + Len(a) + 1 /\ n3 = n2 + Len(b) + 1 /\ n4 = n3 + Len(c) + 1
    /\ n5 = n4 + Len(d) + 1 /\ Len(s) = n5 + Len(e)
    /\ n2 <= Len(s) /\ n3 <= Len(s) /\ n4 <= Len(s) /\ n5 <= Len(s)
    /\ At(s, 0, a) /\ At(s, n2, b) /\ At(s, n3, c) /\ At(s, n4, d) /\ At(s, n5, e)
    /\ s[n2] = "|" /\ s[n3] = "|" /\ s[n4] = "|" /\ s[n5] = "|"

LEMMA FivePlaces ==
  ASSUME NEW a \in Text, NEW b \in Text, NEW c \in Text, NEW d \in Text, NEW e \in Text
  PROVE  \E s \in Text : AreJoined(s, a, b, c, d, e) /\ Places(s, a, b, c, d, e)
<1>1. PICK ab \in Text, abc \in Text, abcd \in Text :
        /\ IsJoin(ab, a, b) /\ IsJoin(abc, ab, c) /\ IsJoin(abcd, abc, d)
        /\ IsJoin(Join(<<a, b, c, d, e>>), abcd, e)
  BY JoinFive
<1>s. PICK s : AreJoined(s, a, b, c, d, e)
  BY DEF AreJoined
<1>a. /\ Len(a) \in Nat /\ Len(b) \in Nat /\ Len(c) \in Nat /\ Len(d) \in Nat /\ Len(e) \in Nat
      /\ Len(ab) \in Nat /\ Len(abc) \in Nat /\ Len(abcd) \in Nat
  BY TextLen
<1>2. IsJoin(ab, a, b)
  BY <1>1
<1>3. /\ Len(ab) = Len(a) + 1 + Len(b) /\ At(ab, 0, a) /\ At(ab, Len(a) + 1, b)
      /\ ab[Len(a) + 1] = "|"
  BY <1>2, BarConcat
<1>4. IsJoin(abc, ab, c)
  BY <1>1
<1>5. /\ Len(abc) = Len(ab) + 1 + Len(c) /\ At(abc, Len(ab) + 1, c) /\ abc[Len(ab) + 1] = "|"
      /\ \A n \in Nat, part \in Text : At(ab, n, part) => At(abc, n, part)
      /\ \A i \in 1 .. Len(ab) : abc[i] = ab[i]
  BY <1>4, BarConcat
<1>6. IsJoin(abcd, abc, d)
  BY <1>1
<1>7. /\ Len(abcd) = Len(abc) + 1 + Len(d) /\ At(abcd, Len(abc) + 1, d) /\ abcd[Len(abc) + 1] = "|"
      /\ \A n \in Nat, part \in Text : At(abc, n, part) => At(abcd, n, part)
      /\ \A i \in 1 .. Len(abc) : abcd[i] = abc[i]
  BY <1>6, BarConcat
<1>8. IsJoin(s, abcd, e)
  BY <1>1, <1>s DEF AreJoined
<1>9. /\ s \in Text /\ Len(s) = Len(abcd) + 1 + Len(e) /\ At(s, Len(abcd) + 1, e)
      /\ s[Len(abcd) + 1] = "|"
      /\ \A n \in Nat, part \in Text : At(abcd, n, part) => At(s, n, part)
      /\ \A i \in 1 .. Len(abcd) : s[i] = abcd[i]
  BY <1>8, BarConcat
<1> DEFINE n2 == Len(a) + 1
           n3 == Len(ab) + 1
           n4 == Len(abc) + 1
           n5 == Len(abcd) + 1
<1>10. /\ n2 \in Nat /\ n3 \in Nat /\ n4 \in Nat /\ n5 \in Nat
       /\ n2 = 0 + Len(a) + 1 /\ n3 = n2 + Len(b) + 1 /\ n4 = n3 + Len(c) + 1
       /\ n5 = n4 + Len(d) + 1 /\ Len(s) = n5 + Len(e)
       /\ n2 <= Len(s) /\ n3 <= Len(s) /\ n4 <= Len(s) /\ n5 <= Len(s)
  BY <1>a, <1>3, <1>5, <1>7, <1>9
<1>11. At(s, 0, a) /\ At(s, n2, b) /\ At(s, n3, c) /\ At(s, n4, d) /\ At(s, n5, e)
  <2>1. \A n \in Nat, part \in Text : At(ab, n, part) => At(s, n, part)
    BY <1>5, <1>7, <1>9
  <2>2. \A n \in Nat, part \in Text : At(abc, n, part) => At(s, n, part)
    BY <1>7, <1>9
  <2>3. 0 \in Nat
    OBVIOUS
  <2> QED BY <1>3, <1>5, <1>7, <1>9, <1>10, <2>1, <2>2, <2>3
<1>12. s[n2] = "|" /\ s[n3] = "|" /\ s[n4] = "|" /\ s[n5] = "|"
  <2>1. n2 \in 1 .. Len(ab) /\ n2 \in 1 .. Len(abc) /\ n2 \in 1 .. Len(abcd)
    BY <1>a, <1>3, <1>5, <1>7
  <2>2. n3 \in 1 .. Len(abc) /\ n3 \in 1 .. Len(abcd) /\ n4 \in 1 .. Len(abcd)
    BY <1>a, <1>5, <1>7
  <2>3. s[n2] = abcd[n2] /\ abcd[n2] = abc[n2] /\ abc[n2] = ab[n2]
    BY <1>5, <1>7, <1>9, <2>1
  <2>4. s[n3] = abcd[n3] /\ abcd[n3] = abc[n3] /\ s[n4] = abcd[n4]
    BY <1>7, <1>9, <2>2
  <2> QED BY <1>3, <1>5, <1>7, <1>9, <2>3, <2>4
<1>13. s \in Text
  BY <1>9
<1> HIDE DEF n2, n3, n4, n5
<1>14. Places(s, a, b, c, d, e)
  BY <1>10, <1>11, <1>12 DEF Places
<1> QED BY <1>s, <1>13, <1>14

AnyTransaction == [from : Text, to : Text, payload : Text, type : Digits, id : Text]

\* The reader in Node::runLoop() undoes what submitTransaction() writes, if there is no
\* pipe in the fields before the last.
THEOREM TransactionReadsBack ==
  ASSUME NEW tx \in AnyTransaction, NoPipe(tx.from), NoPipe(tx.to), NoPipe(tx.payload)
  PROVE  DeserializeTx(SerializeTx(tx)) = tx
<1>1. PICK a, b, c, e, t : a = tx.from /\ b = tx.to /\ c = tx.payload /\ e = tx.id /\ t = tx.type
  OBVIOUS
<1>2. /\ a \in Text /\ b \in Text /\ c \in Text /\ e \in Text /\ t \in Digits
      /\ NoPipe(a) /\ NoPipe(b) /\ NoPipe(c)
  BY <1>1 DEF AnyTransaction
<1>3. PICK d : d = <<t>>
  OBVIOUS
<1>4. d \in Text /\ NoPipe(d) /\ Number(d) = t /\ t # NotANumber
  <2>1. t \in Alphabet /\ t # "|"
    BY <1>2, Characters DEF Digits
  <2>2. d \in Text /\ NoPipe(d)
    BY <1>3, <2>1 DEF Text, NoPipe
  <2> QED BY <1>2, <1>3, <2>2, NumberOfDigit
<1>5. PICK s \in Text : AreJoined(s, a, b, c, d, e) /\ Places(s, a, b, c, d, e)
  <2>1. a \in Text /\ b \in Text /\ c \in Text /\ d \in Text /\ e \in Text
    BY <1>2, <1>4
  <2> QED BY <2>1, FivePlaces
<1>6. SerializeTx(tx) = s
  BY <1>1, <1>3, <1>5 DEF SerializeTx, AreJoined
<1>7. s \in Text
  OBVIOUS
<1>8. PICK n2 \in Nat, n3 \in Nat, n4 \in Nat, n5 \in Nat :
        /\ n2 = 0 + Len(a) + 1 /\ n3 = n2 + Len(b) + 1 /\ n4 = n3 + Len(c) + 1
        /\ n5 = n4 + Len(d) + 1 /\ Len(s) = n5 + Len(e)
        /\ n2 <= Len(s) /\ n3 <= Len(s) /\ n4 <= Len(s) /\ n5 <= Len(s)
        /\ At(s, 0, a) /\ At(s, n2, b) /\ At(s, n3, c) /\ At(s, n4, d) /\ At(s, n5, e)
        /\ s[n2] = "|" /\ s[n3] = "|" /\ s[n4] = "|" /\ s[n5] = "|"
  BY <1>5 DEF Places
<1>9. ASSUME NEW n \in Nat, NEW part \in Text, NEW m \in Nat, At(s, n, part), NoPipe(part),
             m = n + Len(part) + 1, m <= Len(s), s[m] = "|"
      PROVE  Find(s, n + 1) = m /\ SubSeq(s, n + 1, m - 1) = part
  <2>1. Find(s, n + 1) = m
    BY <1>7, <1>9, FindBehind
  <2>2. SubSeq(s, n + 1, n + Len(part)) = part
    BY <1>7, <1>9, SubSeqAt
  <2>3. n + Len(part) = m - 1
    BY <1>9, TextLen
  <2> QED BY <2>1, <2>2, <2>3
<1>10. Find(s, 0 + 1) = n2 /\ SubSeq(s, 0 + 1, n2 - 1) = a
  BY <1>2, <1>8, <1>9
<1>11. Find(s, n2 + 1) = n3 /\ SubSeq(s, n2 + 1, n3 - 1) = b
  BY <1>2, <1>8, <1>9
<1>12. Find(s, n3 + 1) = n4 /\ SubSeq(s, n3 + 1, n4 - 1) = c
  BY <1>2, <1>8, <1>9
<1>13. Find(s, n4 + 1) = n5 /\ SubSeq(s, n4 + 1, n5 - 1) = d
  BY <1>4, <1>8, <1>9
<1>14. SubSeq(s, n5 + 1, Len(s)) = e
  <2>1. SubSeq(s, n5 + 1, n5 + Len(e)) = e
    BY <1>2, <1>7, <1>8, SubSeqAt
  <2> QED BY <1>8, <2>1
<1>15. npos \notin {n2, n3, n4, n5}
  <2>1. n2 > 0 /\ n3 > 0 /\ n4 > 0 /\ n5 > 0
    BY <1>2, <1>4, <1>8, TextLen
  <2> QED BY <2>1 DEF npos
<1>16. 0 + 1 = 1
  OBVIOUS
<1>17. DeserializeTx(s) = [from |-> a, to |-> b, payload |-> c, type |-> t, id |-> e]
  BY <1>4, <1>10, <1>11, <1>12, <1>13, <1>14, <1>15, <1>16 DEF DeserializeTx
<1> QED BY <1>1, <1>6, <1>17 DEF AnyTransaction

LEMMA SerializeTxType ==
  ASSUME NEW tx \in AnyTransaction PROVE SerializeTx(tx) \in Text
<1>1. /\ tx.from \in Text /\ tx.to \in Text /\ tx.payload \in Text /\ tx.id \in Text
      /\ tx.type \in Digits
  BY DEF AnyTransaction
<1>2. <<tx.type>> \in Text
  BY <1>1, DigitUnsplit
<1>3. /\ <<tx.from, tx.to, tx.payload, <<tx.type>>, tx.id>> \in Seq(Text)
      /\ <<tx.from, tx.to, tx.payload, <<tx.type>>, tx.id>> # <<>>
  BY <1>1, <1>2
<1> QED BY <1>3, JoinType DEF SerializeTx

-----------------------------------------------------------------------------
(* Lines of the log *)

\* A line has no line break: it stays a single line.
Inline == Alphabet \ {"\n"}

LEMMA JsonCharType ==
  ASSUME NEW c \in Alphabet PROVE JsonChar(c) \in Seq(Inline) /\ JsonChar(c) \in Text
<1>1. "\\" \in Inline /\ "n" \in Inline /\ "u" \in Inline /\ Control \in Inline
  BY Characters DEF Inline
<1>2. JsonChar(c) \in Seq(Inline)
  <2>1. CASE c \in {Quote, "\\"}
    <3>1. JsonChar(c) = <<"\\", c>> /\ c \in Inline
      BY <2>1, Characters DEF JsonChar, Inline
    <3> QED BY <1>1, <3>1
  <2>2. CASE c = "\n"
    <3>1. JsonChar(c) = <<"\\", "n">>
      BY <2>2, Characters DEF JsonChar
    <3> QED BY <1>1, <3>1
  <2>3. CASE c = Control
    <3>1. JsonChar(c) = <<"\\", "u", Control>>
      BY <2>3, Characters DEF JsonChar
    <3> QED BY <1>1, <3>1
  <2>4. CASE c \notin {Quote, "\\", "\n", Control}
    <3>1. JsonChar(c) = <<c>> /\ c \in Inline
      BY <2>4 DEF JsonChar, Inline
    <3> QED BY <3>1
  <2> QED BY <2>1, <2>2, <2>3, <2>4
<1> QED BY <1>2, SeqMonotonic DEF Inline, Text

LEMMA EscapeJsonEmpty == EscapeJson(<<>>) = <<>>
  BY ScanEmpty DEF EscapeJson

LEMMA EscapeJsonType ==
  ASSUME NEW s \in Text PROVE EscapeJson(s) \in Text
<1>1. <<>> \in Text
  BY EmptySeq DEF Text
<1>2. JsonStep \in [Text -> [Alphabet -> Text]]
  <2>1. ASSUME NEW out \in Text, NEW c \in Alphabet PROVE out \o JsonChar(c) \in Text
    BY JsonCharType, ConcatProperties DEF Text
  <2> QED BY <2>1 DEF JsonStep
<1> QED BY <1>1, <1>2, ScanType DEF EscapeJson, Text

LEMMA EscapeJsonAppend ==
  ASSUME NEW s \in Text, NEW c \in Alphabet
  PROVE  EscapeJson(Append(s, c)) = EscapeJson(s) \o JsonChar(c)
<1>1. EscapeJson(Append(s, c)) = JsonStep[EscapeJson(s)][c]
  BY ScanAppend DEF EscapeJson, Text
<1> QED BY <1>1, EscapeJsonType DEF JsonStep

LEMMA EscapeJsonInline ==
  \A s \in Text : EscapeJson(s) \in Seq(Inline)
<1> DEFINE S == {s \in Text : EscapeJson(s) \in Seq(Inline)}
<1>1. <<>> \in S
  BY EscapeJsonEmpty, EmptySeq DEF Text
<1>2. ASSUME NEW s \in Text, NEW c \in Alphabet, s \in S PROVE Append(s, c) \in S
  <2>1. EscapeJson(s) \o JsonChar(c) \in Seq(Inline)
    BY <1>2, JsonCharType, ConcatProperties
  <2>2. Append(s, c) \in Text
    BY AppendProperties DEF Text
  <2> QED BY <2>1, <2>2, EscapeJsonAppend
<1> HIDE DEF S
<1>3. Text \subseteq S
  BY <1>1, <1>2, SeqInduction DEF Text
<1> QED BY <1>3 DEF S

\* The states of the reader
Reader(at, field, fields) == [at |-> at, field |-> field, fields |-> fields]

LEMMA ReaderSteps ==
  ASSUME NEW field \in Text, NEW fields \in Seq(Text), NEW c \in Alphabet
  PROVE  /\ c = Quote => ReadStep[Reader("outside", field, fields)][c] = Reader("string", <<>>, fields)
         /\ c = Quote => ReadStep[Reader("string", field, fields)][c]
                          = Reader("outside", field, Append(fields, field))
         /\ c = "\\" => ReadStep[Reader("string", field, fields)][c] = Reader("escape", field, fields)
         /\ c \notin {Quote, "\\", "\n", Control} =>
              ReadStep[Reader("string", field, fields)][c] = Reader("string", Append(field, c), fields)
         /\ c \in {Quote, "\\"} =>
              ReadStep[Reader("escape", field, fields)][c] = Reader("string", Append(field, c), fields)
         /\ c = "n" => ReadStep[Reader("escape", field, fields)][c]
                         = Reader("string", Append(field, "\n"), fields)
         /\ c = "u" => ReadStep[Reader("escape", field, fields)][c] = Reader("code", field, fields)
         /\ c = Control => ReadStep[Reader("code", field, fields)][c]
                             = Reader("string", Append(field, c), fields)
<1>1. ASSUME NEW at \in {"outside", "string", "escape", "code", "nowhere"}
      PROVE  Reader(at, field, fields)
               \in [at : {"outside", "string", "escape", "code", "nowhere"}, field : Text, fields : Seq(Text)]
  BY DEF Reader
<1>2. ASSUME c = Quote
      PROVE  /\ ReadStep[Reader("outside", field, fields)][c] = Reader("string", <<>>, fields)
             /\ ReadStep[Reader("string", field, fields)][c] = Reader("outside", field, Append(fields, field))
  BY <1>2, Characters DEF ReadStep, Reader
<1>3. ASSUME c = "\\"
      PROVE  ReadStep[Reader("string", field, fields)][c] = Reader("escape", field, fields)
  BY <1>3, Characters DEF ReadStep, Reader
<1>4. ASSUME c \notin {Quote, "\\", "\n", Control}
      PROVE  ReadStep[Reader("string", field, fields)][c] = Reader("string", Append(field, c), fields)
  BY <1>4, Characters DEF ReadStep, Reader
<1>5. ASSUME c \in {Quote, "\\"}
      PROVE  ReadStep[Reader("escape", field, fields)][c] = Reader("string", Append(field, c), fields)
  BY <1>5, Characters DEF ReadStep, Reader
<1>6. ASSUME c = "n"
      PROVE  ReadStep[Reader("escape", field, fields)][c] = Reader("string", Append(field, "\n"), fields)
  BY <1>6, Characters DEF ReadStep, Reader
<1>7. ASSUME c = "u"
      PROVE  ReadStep[Reader("escape", field, fields)][c] = Reader("code", field, fields)
  BY <1>7, Characters DEF ReadStep, Reader
<1>8. ASSUME c = Control
      PROVE  ReadStep[Reader("code", field, fields)][c] = Reader("string", Append(field, c), fields)
  BY <1>8, Characters DEF ReadStep, Reader
<1> QED BY <1>2, <1>3, <1>4, <1>5, <1>6, <1>7, <1>8

\* The reader takes what stands for a character as that character.
LEMMA JsonCharRead ==
  ASSUME NEW field \in Text, NEW fields \in Seq(Text), NEW c \in Alphabet
  PROVE  Scan(ReadStep, Reader("string", field, fields), JsonChar(c))
           = Reader("string", Append(field, c), fields)
<1> DEFINE start == Reader("string", field, fields)
<1>0. "\\" \in Alphabet /\ "n" \in Alphabet /\ "u" \in Alphabet /\ Control \in Alphabet
  BY Characters
<1>1. ReadStep[start]["\\"] = Reader("escape", field, fields)
  BY <1>0, ReaderSteps
<1> HIDE DEF start
<1>2. CASE c \in {Quote, "\\"}
  <2>1. JsonChar(c) = <<"\\", c>>
    BY <1>2, Characters DEF JsonChar
  <2>2. ReadStep[Reader("escape", field, fields)][c] = Reader("string", Append(field, c), fields)
    BY <1>2, ReaderSteps
  <2>3. Scan(ReadStep, start, <<"\\", c>>) = ReadStep[ReadStep[start]["\\"]][c]
    BY ScanTwo
  <2> QED BY <1>1, <2>1, <2>2, <2>3 DEF start
<1>3. CASE c = "\n"
  <2>1. JsonChar(c) = <<"\\", "n">>
    BY <1>3, Characters DEF JsonChar
  <2>2. ReadStep[Reader("escape", field, fields)]["n"] = Reader("string", Append(field, c), fields)
    BY <1>0, <1>3, ReaderSteps
  <2>3. Scan(ReadStep, start, <<"\\", "n">>) = ReadStep[ReadStep[start]["\\"]]["n"]
    BY ScanTwo
  <2> QED BY <1>1, <2>1, <2>2, <2>3 DEF start
<1>4. CASE c = Control
  <2>1. JsonChar(c) = <<"\\", "u", Control>>
    BY <1>4, Characters DEF JsonChar
  <2>2. ReadStep[Reader("escape", field, fields)]["u"] = Reader("code", field, fields)
    BY <1>0, ReaderSteps
  <2>3. ReadStep[Reader("code", field, fields)][Control] = Reader("string", Append(field, c), fields)
    BY <1>0, <1>4, ReaderSteps
  <2>4. Scan(ReadStep, start, <<"\\", "u", Control>>)
          = ReadStep[ReadStep[ReadStep[start]["\\"]]["u"]][Control]
    BY ScanThree
  <2> QED BY <1>1, <2>1, <2>2, <2>3, <2>4 DEF start
<1>5. CASE c \notin {Quote, "\\", "\n", Control}
  <2>1. JsonChar(c) = <<c>>
    BY <1>5 DEF JsonChar
  <2>2. ReadStep[start][c] = Reader("string", Append(field, c), fields)
    BY <1>5, ReaderSteps DEF start
  <2>3. Scan(ReadStep, start, <<c>>) = ReadStep[start][c]
    BY ScanOne
  <2> QED BY <2>1, <2>2, <2>3 DEF start
<1> QED BY <1>2, <1>3, <1>4, <1>5

LEMMA EscapeJsonRead ==
  ASSUME NEW fields \in Seq(Text)
  PROVE  \A s \in Text :
           Scan(ReadStep, Reader("string", <<>>, fields), EscapeJson(s)) = Reader("string", s, fields)
<1> DEFINE start == Reader("string", <<>>, fields)
           S == {s \in Text : Scan(ReadStep, start, EscapeJson(s)) = Reader("string", s, fields)}
<1>1. <<>> \in S
  BY EscapeJsonEmpty, ScanEmpty, EmptySeq DEF Text
<1>2. ASSUME NEW s \in Text, NEW c \in Alphabet, s \in S PROVE Append(s, c) \in S
  <2>1. EscapeJson(s) \in Text /\ JsonChar(c) \in Text /\ Append(s, c) \in Text
    BY EscapeJsonType, JsonCharType, AppendProperties DEF Text
  <2>2. Scan(ReadStep, start, EscapeJson(s) \o JsonChar(c))
          = Scan(ReadStep, Scan(ReadStep, start, EscapeJson(s)), JsonChar(c))
    BY <2>1, ScanText
  <2>3. Scan(ReadStep, start, EscapeJson(s)) = Reader("string", s, fields)
    BY <1>2
  <2>4. Scan(ReadStep, Reader("string", s, fields), JsonChar(c)) = Reader("string", Append(s, c), fields)
    BY JsonCharRead
  <2> QED BY <2>1, <2>2, <2>3, <2>4, EscapeJsonAppend
<1> HIDE DEF S
<1>3. Text \subseteq S
  BY <1>1, <1>2, SeqInduction DEF Text
<1> QED BY <1>3 DEF S

LEMMA LineEmpty == Line(<<>>) = <<>>
  BY ScanEmpty DEF Line

\* Quotes and what is between them
Quoted(field) == <<Quote>> \o EscapeJson(field) \o <<Quote>>

LEMMA QuotedType ==
  ASSUME NEW field \in Text
  PROVE  /\ Quoted(field) \in Text /\ Quoted(field) \in Seq(Inline)
         /\ \A line \in Text : line \o <<Quote>> \o EscapeJson(field) \o <<Quote>> = line \o Quoted(field)
<1>1. PICK q : q = <<Quote>>
  OBVIOUS
<1>2. q \in Text /\ q \in Seq(Inline)
  <2>1. Quote \in Alphabet /\ Quote \in Inline
    BY Characters DEF Inline
  <2>2. <<Quote>> \in Seq(Alphabet) /\ <<Quote>> \in Seq(Inline)
    BY <2>1
  <2> QED BY <1>1, <2>2 DEF Text
<1>3. EscapeJson(field) \in Text /\ EscapeJson(field) \in Seq(Inline)
  BY EscapeJsonType, EscapeJsonInline
<1>4. PICK e : e = EscapeJson(field)
  OBVIOUS
<1>5. q \o e \in Text /\ (q \o e) \o q \in Text /\ (q \o e) \o q \in Seq(Inline)
  BY <1>2, <1>3, <1>4, ConcatProperties DEF Text
<1>6. ASSUME NEW line \in Text PROVE ((line \o q) \o e) \o q = line \o ((q \o e) \o q)
  <2>1. line \o (q \o e) = (line \o q) \o e
    BY <1>2, <1>3, <1>4, ConcatAssociative DEF Text
  <2>2. line \o ((q \o e) \o q) = (line \o (q \o e)) \o q
    BY <1>2, <1>5, ConcatAssociative DEF Text
  <2> QED BY <2>1, <2>2
<1> QED BY <1>1, <1>4, <1>5, <1>6 DEF Quoted

LEMMA LineType ==
  ASSUME NEW fields \in Seq(Text) PROVE Line(fields) \in Text
<1>1. <<>> \in Text
  BY EmptySeq DEF Text
<1>2. LineStep \in [Text -> [Text -> Text]]
  <2>1. ASSUME NEW line \in Text, NEW field \in Text
        PROVE  line \o <<Quote>> \o EscapeJson(field) \o <<Quote>> \in Text
    <3>1. line \o Quoted(field) \in Text
      BY QuotedType, ConcatProperties DEF Text
    <3> QED BY <3>1, QuotedType
  <2> QED BY <2>1 DEF LineStep
<1> QED BY <1>1, <1>2, ScanType DEF Line

LEMMA LineAppend ==
  ASSUME NEW fields \in Seq(Text), NEW field \in Text
  PROVE  Line(Append(fields, field)) = Line(fields) \o Quoted(field)
<1>1. Line(Append(fields, field)) = LineStep[Line(fields)][field]
  BY ScanAppend DEF Line
<1>2. LineStep[Line(fields)][field] = Line(fields) \o <<Quote>> \o EscapeJson(field) \o <<Quote>>
  BY LineType DEF LineStep
<1> QED BY <1>1, <1>2, LineType, QuotedType

LEMMA QuotedRead ==
  ASSUME NEW field \in Text, NEW before \in Text, NEW fields \in Seq(Text)
  PROVE  Scan(ReadStep, Reader("outside", before, fields), Quoted(field))
           = Reader("outside", field, Append(fields, field))
<1>1. PICK q, e : q = <<Quote>> /\ e = EscapeJson(field)
  OBVIOUS
<1>2. q \in Text /\ e \in Text /\ q \o e \in Text /\ Quote \in Alphabet
  <2>1. Quote \in Alphabet
    BY Characters
  <2>2. q \in Text /\ e \in Text
    BY <1>1, <2>1, Single, EscapeJsonType
  <2> QED BY <2>1, <2>2, ConcatProperties DEF Text
<1>3. Scan(ReadStep, Reader("outside", before, fields), q) = Reader("string", <<>>, fields)
  <2>1. ReadStep[Reader("outside", before, fields)][Quote] = Reader("string", <<>>, fields)
    BY <1>2, ReaderSteps
  <2>2. Scan(ReadStep, Reader("outside", before, fields), <<Quote>>)
          = ReadStep[Reader("outside", before, fields)][Quote]
    BY ScanOne
  <2> QED BY <1>1, <2>1, <2>2
<1>4. Scan(ReadStep, Reader("string", <<>>, fields), e) = Reader("string", field, fields)
  BY <1>1, EscapeJsonRead
<1>5. Scan(ReadStep, Reader("string", field, fields), q) = Reader("outside", field, Append(fields, field))
  <2>1. ReadStep[Reader("string", field, fields)][Quote] = Reader("outside", field, Append(fields, field))
    BY <1>2, ReaderSteps
  <2>2. Scan(ReadStep, Reader("string", field, fields), <<Quote>>)
          = ReadStep[Reader("string", field, fields)][Quote]
    BY ScanOne
  <2> QED BY <1>1, <2>1, <2>2
<1>6. Scan(ReadStep, Reader("outside", before, fields), q \o e) = Reader("string", field, fields)
  <2>1. Scan(ReadStep, Reader("outside", before, fields), q \o e)
          = Scan(ReadStep, Scan(ReadStep, Reader("outside", before, fields), q), e)
    BY <1>2, ScanText
  <2> QED BY <1>3, <1>4, <2>1
<1>7. Scan(ReadStep, Reader("outside", before, fields), (q \o e) \o q)
        = Reader("outside", field, Append(fields, field))
  <2>1. Scan(ReadStep, Reader("outside", before, fields), (q \o e) \o q)
          = Scan(ReadStep, Scan(ReadStep, Reader("outside", before, fields), q \o e), q)
    BY <1>2, ScanText
  <2> QED BY <1>5, <1>6, <2>1
<1> QED BY <1>1, <1>7 DEF Quoted

\* Whatever fields are logged, they make a single line, and the reader of the log files
\* finds them in it again.
THEOREM LogLineReadsBack ==
  \A fields \in Seq(Text) : ReadLine(Line(fields)) = fields /\ Line(fields) \in Seq(Inline)
<1> DEFINE start == Reader("outside", <<>>, <<>>)
           S == {fields \in Seq(Text) :
                   /\ Line(fields) \in Seq(Inline)
                   /\ \E field \in Text : Scan(ReadStep, start, Line(fields)) = Reader("outside", field, fields)}
<1>1. <<>> \in S
  <2>1. <<>> \in Text /\ <<>> \in Seq(Text) /\ <<>> \in Seq(Inline)
    BY EmptySeq DEF Text
  <2>2. Scan(ReadStep, start, Line(<<>>)) = Reader("outside", <<>>, <<>>)
    BY LineEmpty, ScanEmpty
  <2> QED BY <2>1, <2>2, LineEmpty
<1>2. ASSUME NEW fields \in Seq(Text), NEW g \in Text, fields \in S PROVE Append(fields, g) \in S
  <2>1. PICK field \in Text : Scan(ReadStep, start, Line(fields)) = Reader("outside", field, fields)
    BY <1>2
  <2>2. Line(fields) \in Text /\ Quoted(g) \in Text /\ Append(fields, g) \in Seq(Text)
    BY LineType, QuotedType, AppendProperties
  <2>3. Scan(ReadStep, start, Line(fields) \o Quoted(g)) = Scan(ReadStep, Reader("outside", field, fields), Quoted(g))
    BY <2>1, <2>2, ScanText
  <2>4. Scan(ReadStep, start, Line(Append(fields, g))) = Reader("outside", g, Append(fields, g))
    BY <2>3, LineAppend, QuotedRead
  <2>5. Line(Append(fields, g)) \in Seq(Inline)
    <3>1. Line(fields) \in Seq(Inline) /\ Quoted(g) \in Seq(Inline)
      BY <1>2, QuotedType
    <3>2. Line(fields) \o Quoted(g) \in Seq(Inline)
      BY <3>1, ConcatProperties
    <3> QED BY <3>2, LineAppend
  <2> QED BY <2>2, <2>4, <2>5
<1> HIDE DEF S
<1>3. Seq(Text) \subseteq S
  BY <1>1, <1>2, SeqInduction
<1>4. ASSUME NEW fields \in Seq(Text) PROVE ReadLine(Line(fields)) = fields
  <2>1. PICK field \in Text : Scan(ReadStep, start, Line(fields)) = Reader("outside", field, fields)
    BY <1>3 DEF S
  <2> QED BY <2>1 DEF ReadLine, Reader
<1> QED BY <1>3, <1>4 DEF S

-----------------------------------------------------------------------------
(* What a reader makes of any string *)

LEMMA FindType ==
  ASSUME NEW s \in Text, NEW from \in Nat
  PROVE  Find(s, from) = npos \/ Find(s, from) \in from .. Len(s)
<1> DEFINE Least(i) == s[i] = "|" /\ \A j \in from .. i - 1 : s[j] # "|"
           Found == {i \in from .. Len(s) : s[i] = "|"}
<1>1. SUFFICES ASSUME Found # {} PROVE \E i \in from .. Len(s) : Least(i)
  <2>1. CASE Found = {}
    <3>1. ~ \E i \in from .. Len(s) : s[i] = "|"
      BY <2>1
    <3> QED BY <3>1 DEF Find
  <2>2. CASE \E i \in from .. Len(s) : Least(i)
    <3>1. (CHOOSE i \in from .. Len(s) : Least(i)) \in from .. Len(s)
      BY <2>2
    <3> QED BY <3>1 DEF Find
  <2> QED BY <1>1, <2>1, <2>2
<1>2. Found \subseteq Nat
  OBVIOUS
<1>3. PICK i \in Found : \A j \in Found : <<j, i>> \notin Less
  <2> HIDE DEF Found
  <2> QED BY <1>1, <1>2, LessWellFounded, IsWellFoundedOnSubset, WFMin
<1>4. ASSUME NEW j \in from .. i - 1 PROVE s[j] # "|"
  <2>1. j \in from .. Len(s) /\ j < i /\ j \in Nat /\ i \in Nat
    BY <1>2, <1>3, TextLen
  <2>2. <<j, i>> \in Less
    BY <2>1 DEF Less
  <2> QED BY <1>3, <2>1, <2>2
<1> QED BY <1>3, <1>4

LEMMA SubSeqType ==
  ASSUME NEW s \in Text, NEW m \in Nat, 0 < m, NEW n \in Int, n <= Len(s)
  PROVE  SubSeq(s, m, n) \in Text
<1>1. Len(s) \in Nat
  BY TextLen
<1>2. \A i \in m .. n : s[i] \in Alphabet
  BY <1>1, TextLen
<1> QED BY <1>2, SubSeqProperties DEF Text

\* Whatever a node is sent as a transaction, it reads fields that are strings, or nothing.
LEMMA DeserializeTxType ==
  ASSUME NEW s \in Text
  PROVE  \/ DeserializeTx(s) \in {Malformed, Terminated}
         \/ \E a, b, c, e \in Text : \E t :
              DeserializeTx(s) = [from |-> a, to |-> b, payload |-> c, type |-> t, id |-> e]
<1> DEFINE p1 == Find(s, 1)
           p2 == Find(s, p1 + 1)
           p3 == Find(s, p2 + 1)
           p4 == Find(s, p3 + 1)
           t == Number(SubSeq(s, p3 + 1, p4 - 1))
<1>1. CASE npos \in {p1, p2, p3, p4}
  BY <1>1 DEF DeserializeTx
<1>2. CASE npos \notin {p1, p2, p3, p4} /\ t = NotANumber
  BY <1>2 DEF DeserializeTx
<1>3. CASE npos \notin {p1, p2, p3, p4} /\ t # NotANumber
  <2>1. Len(s) \in Nat
    BY TextLen
  <2>2. p1 \in 1 .. Len(s)
    BY <1>3, FindType
  <2>3. p1 + 1 \in Nat
    BY <2>1, <2>2
  <2> HIDE DEF p1
  <2>4. p2 \in p1 + 1 .. Len(s)
    BY <1>3, <2>3, FindType
  <2>5. p2 + 1 \in Nat
    BY <2>3, <2>4
  <2> HIDE DEF p2
  <2>6. p3 \in p2 + 1 .. Len(s)
    BY <1>3, <2>5, FindType
  <2>7. p3 + 1 \in Nat
    BY <2>5, <2>6
  <2> HIDE DEF p3
  <2>8. p4 \in p3 + 1 .. Len(s)
    BY <1>3, <2>7, FindType
  <2> HIDE DEF p4
  <2>9. /\ 1 \in Nat /\ 0 < 1 /\ p1 - 1 \in Int /\ p1 - 1 <= Len(s)
        /\ p1 + 1 \in Nat /\ 0 < p1 + 1 /\ p2 - 1 \in Int /\ p2 - 1 <= Len(s)
        /\ p2 + 1 \in Nat /\ 0 < p2 + 1 /\ p3 - 1 \in Int /\ p3 - 1 <= Len(s)
        /\ p4 + 1 \in Nat /\ 0 < p4 + 1 /\ Len(s) \in Int /\ Len(s) <= Len(s)
    BY <2>1, <2>2, <2>4, <2>6, <2>8
  <2>10. /\ SubSeq(s, 1, p1 - 1) \in Text /\ SubSeq(s, p1 + 1, p2 - 1) \in Text
         /\ SubSeq(s, p2 + 1, p3 - 1) \in Text /\ SubSeq(s, p4 + 1, Len(s)) \in Text
    BY <2>9, SubSeqType
  <2>11. DeserializeTx(s)
           = [from |-> SubSeq(s, 1, p1 - 1), to |-> SubSeq(s, p1 + 1, p2 - 1),
              payload |-> SubSeq(s, p2 + 1, p3 - 1), type |-> t, id |-> SubSeq(s, p4 + 1, Len(s))]
    BY <1>3 DEF DeserializeTx, p1, p2, p3, p4
  <2> HIDE DEF t
  <2> QED BY <2>10, <2>11
<1> QED BY <1>1, <1>2, <1>3

-----------------------------------------------------------------------------
(* From the sender to the handler *)

\* What is underway, and its form with each of those who have it.  Nothing is lost: every
\* envelope is unwrapped and every packet read.
PacketUnderway ==
  /\ item \in AnyPacket
  /\ \/ stage = "bus" /\ form = Written(SerializePacket(item))
     \/ stage = "relayer" /\ form = item
     \/ stage = "wire" /\ form = Written(Wrap(<<"1">>, IBCKind, SerializePacket(item)))
     \/ stage = "inbox" /\ form = [from |-> <<"1">>, kind |-> IBCKind, bytes |-> SerializePacket(item)]
     \/ stage = "handled" /\ form = item

TransactionUnderway ==
  /\ item \in AnyTransaction
  /\ item.from = <<"1">>
  /\ \/ stage = "wire" /\ form = Written(Wrap(item.from, TransactionKind, SerializeTx(item)))
     \/ stage = "inbox" /\ form = [from |-> item.from, kind |-> TransactionKind, bytes |-> SerializeTx(item)]
     \/ stage = "handled" /\ form = DeserializeTx(SerializeTx(item))

Idle == stage = "idle" /\ item = NoItem /\ form = NoItem

Underway == Idle \/ PacketUnderway \/ TransactionUnderway

LEMMA StringsText == Strings \subseteq Text
  BY CodecAssumption DEF Strings, BoundedSeq, SeqOf, Text

LEMMA Sender == <<"1">> \in Text /\ NoPipe(<<"1">>)
  BY Characters DEF Text, NoPipe

LEMMA PacketIsRead ==
  ASSUME NEW pkt \in AnyPacket
  PROVE  DeserializePacket(SerializePacket(pkt)) = pkt /\ pkt # Malformed
<1>1. "type" \in DOMAIN pkt
  BY DEF AnyPacket
<1>2. "type" \notin DOMAIN Malformed
  BY DEF Malformed
<1> QED BY <1>1, <1>2, PacketReadsBack

LEMMA EnvelopeIsRead ==
  ASSUME NEW kind \in Digits, NEW bytes \in Text
  PROVE  /\ Unwrap(Wrap(<<"1">>, kind, bytes)) = [from |-> <<"1">>, kind |-> kind, bytes |-> bytes]
         /\ [from |-> <<"1">>, kind |-> kind, bytes |-> bytes] # Malformed
<1>1. \A from \in Text : NoPipe(from) =>
        Unwrap(Wrap(from, kind, bytes)) = [from |-> from, kind |-> kind, bytes |-> bytes]
  BY EnvelopeReadsBack
<1>2. "kind" \in DOMAIN [from |-> <<"1">>, kind |-> kind, bytes |-> bytes]
  OBVIOUS
<1>3. "kind" \notin DOMAIN Malformed
  BY DEF Malformed
<1> QED BY <1>1, <1>2, <1>3, Sender

LEMMA UnderwayInit == Init => Underway
  BY DEF Init, Underway, Idle

LEMMA UnderwayNext == Underway /\ [Next]_vars => Underway'
<1> SUFFICES ASSUME Underway, [Next]_vars PROVE Underway'
  OBVIOUS
<1> USE DEF Underway
<1>1. CASE Publish
  <2>1. PICK type \in Digits, seq \in Digits, i \in 1..6, name \in Strings, payload \in Strings :
          item' = [type |-> type, names |-> [[j \in 1..6 |-> <<"1">>] EXCEPT ![i] = name],
                   seq |-> seq, payload |-> payload]
    BY <1>1 DEF Publish
  <2>2. [[j \in 1..6 |-> <<"1">>] EXCEPT ![i] = name] \in [1..6 -> Text]
    BY StringsText, Sender
  <2>3. item' \in AnyPacket
    BY <2>1, <2>2, StringsText DEF AnyPacket
  <2> QED BY <1>1, <2>3 DEF Publish, PacketUnderway
<1>2. CASE Submit
  <2>1. PICK type \in Digits, to \in Strings, payload \in Strings :
          item' = [from |-> <<"1">>, to |-> to, payload |-> payload, type |-> type, id |-> <<"2">>]
    BY <1>2 DEF Submit
  <2>2. <<"2">> \in Text
    BY Characters DEF Text
  <2>3. item' \in AnyTransaction /\ item'.from = <<"1">>
    BY <2>1, <2>2, StringsText, Sender DEF AnyTransaction
  <2> QED BY <1>2, <2>3 DEF Submit, TransactionUnderway
<1>3. CASE Queue
  <2>1. item \in AnyPacket /\ form = Written(SerializePacket(item))
    BY <1>3 DEF Queue, PacketUnderway, TransactionUnderway, Idle
  <2>2. form.text = SerializePacket(item)
    BY <2>1 DEF Written
  <2>3. form' = item /\ stage' = "relayer" /\ item' = item
    BY <1>3, <2>1, <2>2, PacketIsRead DEF Queue
  <2> QED BY <2>1, <2>3 DEF PacketUnderway
<1>4. CASE Forward
  <2>1. item \in AnyPacket /\ form = item
    BY <1>4 DEF Forward, PacketUnderway, TransactionUnderway, Idle
  <2> QED BY <1>4, <2>1 DEF Forward, PacketUnderway
<1>5. CASE OnBytes
  <2>1. CASE PacketUnderway
    <3>1. /\ item \in AnyPacket
          /\ form = Written(Wrap(<<"1">>, IBCKind, SerializePacket(item)))
      BY <1>5, <2>1 DEF OnBytes, PacketUnderway
    <3>2. form.text = Wrap(<<"1">>, IBCKind, SerializePacket(item))
      BY <3>1 DEF Written
    <3>3. IBCKind \in Digits /\ SerializePacket(item) \in Text
      BY <3>1, SerializePacketType DEF IBCKind, Digits
    <3>4. /\ form' = [from |-> <<"1">>, kind |-> IBCKind, bytes |-> SerializePacket(item)]
          /\ stage' = "inbox" /\ item' = item
      BY <1>5, <3>2, <3>3, EnvelopeIsRead DEF OnBytes
    <3> QED BY <3>1, <3>4 DEF PacketUnderway
  <2>2. CASE TransactionUnderway
    <3>1. /\ item \in AnyTransaction /\ item.from = <<"1">>
          /\ form = Written(Wrap(item.from, TransactionKind, SerializeTx(item)))
      BY <1>5, <2>2 DEF OnBytes, TransactionUnderway
    <3>2. form.text = Wrap(<<"1">>, TransactionKind, SerializeTx(item))
      BY <3>1 DEF Written
    <3>3. TransactionKind \in Digits /\ SerializeTx(item) \in Text
      BY <3>1, SerializeTxType DEF TransactionKind, Digits
    <3>4. /\ form' = [from |-> <<"1">>, kind |-> TransactionKind, bytes |-> SerializeTx(item)]
          /\ stage' = "inbox" /\ item' = item
      BY <1>5, <3>2, <3>3, EnvelopeIsRead DEF OnBytes
    <3> QED BY <3>1, <3>4 DEF TransactionUnderway
  <2> QED BY <1>5, <2>1, <2>2 DEF OnBytes, Idle
<1>6. CASE Handle
  <2>1. CASE PacketUnderway
    <3>1. /\ item \in AnyPacket
          /\ form = [from |-> <<"1">>, kind |-> IBCKind, bytes |-> SerializePacket(item)]
      BY <1>6, <2>1 DEF Handle, PacketUnderway
    <3>2. form.kind = IBCKind /\ IBCKind # TransactionKind /\ form.bytes = SerializePacket(item)
      BY <3>1 DEF IBCKind, TransactionKind
    <3>3. form' = item /\ stage' = "handled" /\ item' = item
      BY <1>6, <3>1, <3>2, PacketIsRead DEF Handle
    <3> QED BY <3>1, <3>3 DEF PacketUnderway
  <2>2. CASE TransactionUnderway
    <3>1. /\ item \in AnyTransaction /\ item.from = <<"1">>
          /\ form = [from |-> item.from, kind |-> TransactionKind, bytes |-> SerializeTx(item)]
      BY <1>6, <2>2 DEF Handle, TransactionUnderway
    <3>2. form.kind = TransactionKind /\ IBCKind # TransactionKind /\ form.bytes = SerializeTx(item)
      BY <3>1 DEF IBCKind, TransactionKind
    <3>3. form' = DeserializeTx(SerializeTx(item)) /\ stage' = "handled" /\ item' = item
      BY <1>6, <3>2 DEF Handle
    <3> QED BY <3>1, <3>3 DEF TransactionUnderway
  <2> QED BY <1>6, <2>1, <2>2 DEF Handle, Idle
<1>7. CASE Again
  BY <1>7 DEF Again, Idle
<1>8. CASE UNCHANGED vars
  BY <1>8 DEF vars, Idle, PacketUnderway, TransactionUnderway
<1> QED BY <1>1, <1>2, <1>3, <1>4, <1>5, <1>6, <1>7, <1>8 DEF Next

LEMMA AlwaysUnderway == Spec => []Underway
  BY UnderwayInit, UnderwayNext, PTL DEF Spec

\* Names and payloads hold whatever characters, as many as they will: the node reads the
\* packet that the other chain sent.
THEOREM PacketsArrive == Spec => []PacketArrives
<1>1. Underway => PacketArrives
  <2> SUFFICES ASSUME Underway, IsPacket PROVE Arrived
    BY DEF PacketArrives
  <2>1. ~TransactionUnderway
    BY DEF IsPacket, TransactionUnderway, AnyTransaction
  <2>2. ~Idle
    BY DEF IsPacket, Idle, NoItem
  <2> QED BY <2>1, <2>2 DEF Underway, PacketUnderway, Arrived
<1> QED BY <1>1, AlwaysUnderway, PTL

\* Transactions come through if there is no pipe in their fields, and whatever else is.
THEOREM PlainTransactionsArrive == Spec => []PlainTransactionArrives
<1>1. Underway => PlainTransactionArrives
  <2> SUFFICES ASSUME Underway, IsTransaction,
                      "|" \notin ToSet(item.to) \union ToSet(item.payload)
               PROVE  Arrived
    BY DEF PlainTransactionArrives
  <2>1. ~PacketUnderway
    BY DEF IsTransaction, PacketUnderway, AnyPacket
  <2>2. ~Idle
    BY DEF IsTransaction, Idle, NoItem
  <2>3. TransactionUnderway
    BY <2>1, <2>2 DEF Underway
  <2>4. item \in AnyTransaction /\ item.from = <<"1">> /\ item.to \in Text /\ item.payload \in Text
    BY <2>3 DEF TransactionUnderway, AnyTransaction
  <2>5. NoPipe(item.to) /\ NoPipe(item.payload)
    BY <2>4 DEF NoPipe, ToSet, Text
  <2>6. DeserializeTx(SerializeTx(item)) = item
    BY <2>4, <2>5, Sender, TransactionReadsBack
  <2> QED BY <2>3, <2>6 DEF TransactionUnderway, Arrived
<1> QED BY <1>1, AlwaysUnderway, PTL

\* Even a transaction that the node has read wrongly is logged as what it has read.
THEOREM LinesReadBack == Spec => []LineReadsBack
<1>1. Underway => LineReadsBack
  <2> SUFFICES ASSUME Underway, stage = "handled", "payload" \in DOMAIN form
               PROVE  /\ "\n" \notin ToSet(Line(Logged(form)))
                      /\ ReadLine(Line(Logged(form))) = Logged(form)
    BY DEF LineReadsBack
  <2>1. Logged(form) \in Seq(Text)
    <3>1. CASE PacketUnderway
      <4>1. form \in AnyPacket
        BY <3>1 DEF PacketUnderway
      <4>2. /\ "names" \in DOMAIN form /\ form.names \in [1..6 -> Text] /\ form.payload \in Text
        BY <4>1 DEF AnyPacket
      <4>3. form.names \in Seq(Text)
        <5>1. \A names \in [1..6 -> Text] : names \in Seq(Text)
          BY 6 \in Nat, SeqDef
        <5> QED BY <4>2, <5>1
      <4> QED BY <4>2, <4>3, AppendProperties DEF Logged
    <3>2. CASE TransactionUnderway
      <4>1. item \in AnyTransaction /\ form = DeserializeTx(SerializeTx(item))
        BY <3>2 DEF TransactionUnderway
      <4>2. form # Malformed /\ form # Terminated
        BY DEF Malformed, Terminated
      <4>3. \E a, b, c, e \in Text : \E t :
              form = [from |-> a, to |-> b, payload |-> c, type |-> t, id |-> e]
        BY <4>1, <4>2, SerializeTxType, DeserializeTxType
      <4>4. /\ "names" \notin DOMAIN form
            /\ form.id \in Text /\ form.from \in Text /\ form.to \in Text /\ form.payload \in Text
        BY <4>3
      <4>5. Logged(form) = <<form.id, form.from, form.to, form.payload>>
        BY <4>4 DEF Logged
      <4> QED BY <4>4, <4>5
    <3> QED BY <3>1, <3>2 DEF Underway, Idle
  <2>2. /\ ReadLine(Line(Logged(form))) = Logged(form)
        /\ Line(Logged(form)) \in Seq(Inline)
    BY <2>1, LogLineReadsBack
  <2>3. "\n" \notin ToSet(Line(Logged(form)))
    <3>1. \A i \in DOMAIN Line(Logged(form)) : Line(Logged(form))[i] \in Inline
      BY <2>2
    <3> QED BY <3>1 DEF ToSet, Inline
  <2> QED BY <2>2, <2>3
<1> QED BY <1>1, AlwaysUnderway, PTL

=============================================================================
