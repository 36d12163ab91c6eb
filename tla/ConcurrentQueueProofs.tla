------------------------ MODULE ConcurrentQueueProofs ------------------------
(***************************************************************************)
(* Proofs about src/src/util/ConcurrentQueue.h for any number of consumers   *)
(* and items: no wake-up is lost, the order of the items is kept, and no     *)
(* consumer leaves an item behind.                                          *)
(***************************************************************************)
EXTENDS ConcurrentQueue, TLAPS, FiniteSetTheorems, SequenceTheorems

\* Appending to the right part of a concatenation
LEMMA AppendRight ==
  ASSUME NEW S, NEW s \in Seq(S), NEW t \in Seq(S), NEW e \in S
  PROVE  Append(s \o t, e) = s \o Append(t, e)
<1>1. s \o t \in Seq(S) /\ Append(s \o t, e) \in Seq(S) /\ Append(t, e) \in Seq(S)
      /\ s \o Append(t, e) \in Seq(S)
  BY ConcatProperties, AppendProperties
<1>2. /\ Len(s) \in Nat /\ Len(t) \in Nat /\ Len(s \o t) = Len(s) + Len(t)
      /\ Len(Append(s \o t, e)) = Len(s) + Len(t) + 1
      /\ Len(Append(t, e)) = Len(t) + 1
      /\ Len(s \o Append(t, e)) = Len(s) + Len(t) + 1
  BY <1>1, ConcatProperties, AppendProperties, LenProperties
<1>3. ASSUME NEW k \in 1 .. Len(s) + Len(t) + 1
      PROVE  Append(s \o t, e)[k] = (s \o Append(t, e))[k]
  <2>1. Append(s \o t, e)[k] = IF k <= Len(s) + Len(t) THEN (s \o t)[k] ELSE e
    BY <1>1, <1>2, AppendProperties
  <2>2. (s \o Append(t, e))[k] = IF k <= Len(s) THEN s[k] ELSE Append(t, e)[k - Len(s)]
    <3>1. k \in 1 .. Len(s) + Len(Append(t, e))
      BY <1>2
    <3> QED BY <1>1, <3>1, ConcatProperties
  <2>3. k <= Len(s) + Len(t) => (s \o t)[k] = IF k <= Len(s) THEN s[k] ELSE t[k - Len(s)]
    BY <1>2, ConcatProperties
  <2>4. k > Len(s) => Append(t, e)[k - Len(s)] =
                        IF k <= Len(s) + Len(t) THEN t[k - Len(s)] ELSE e
    BY <1>2, AppendProperties
  <2> QED BY <1>2, <2>1, <2>2, <2>3, <2>4
<1> QED BY <1>1, <1>2, <1>3, SeqEqual

\* Moving the head of the right part to the end of the left part
LEMMA MoveHead ==
  ASSUME NEW S, NEW s \in Seq(S), NEW t \in Seq(S), t # <<>>
  PROVE  Append(s, Head(t)) \o Tail(t) = s \o t
<1>1. /\ Head(t) \in S /\ Tail(t) \in Seq(S) /\ Head(t) = t[1]
      /\ Append(s, Head(t)) \in Seq(S) /\ s \o t \in Seq(S)
      /\ Append(s, Head(t)) \o Tail(t) \in Seq(S)
  BY HeadTailProperties, AppendProperties, ConcatProperties
<1>2. /\ Len(s) \in Nat /\ Len(t) \in Nat \ {0} /\ Len(Tail(t)) = Len(t) - 1
      /\ Len(Append(s, Head(t))) = Len(s) + 1
      /\ Len(s \o t) = Len(s) + Len(t)
      /\ Len(Append(s, Head(t)) \o Tail(t)) = Len(s) + Len(t)
  BY <1>1, HeadTailProperties, AppendProperties, ConcatProperties, LenProperties, EmptySeq
<1>3. ASSUME NEW k \in 1 .. Len(s) + Len(t)
      PROVE  (Append(s, Head(t)) \o Tail(t))[k] = (s \o t)[k]
  <2>1. (Append(s, Head(t)) \o Tail(t))[k] =
          IF k <= Len(s) + 1 THEN Append(s, Head(t))[k] ELSE Tail(t)[k - (Len(s) + 1)]
    BY <1>1, <1>2, ConcatProperties
  <2>2. (s \o t)[k] = IF k <= Len(s) THEN s[k] ELSE t[k - Len(s)]
    BY <1>2, ConcatProperties
  <2>3. k <= Len(s) => Append(s, Head(t))[k] = s[k]
    BY <1>1, <1>2, AppendProperties
  <2>4. k = Len(s) + 1 => Append(s, Head(t))[k] = t[1] /\ k - Len(s) = 1
    BY <1>1, <1>2, AppendProperties
  <2>5. k > Len(s) + 1 => Tail(t)[k - (Len(s) + 1)] = t[k - Len(s)]
    <3>1. k > Len(s) + 1 => k - (Len(s) + 1) \in 1 .. Len(Tail(t))
      BY <1>2
    <3>2. k > Len(s) + 1 => Tail(t)[k - (Len(s) + 1)] = t[(k - (Len(s) + 1)) + 1]
      BY <3>1, HeadTailProperties
    <3>3. k > Len(s) + 1 => (k - (Len(s) + 1)) + 1 = k - Len(s)
      BY <1>2
    <3> QED BY <3>2, <3>3
  <2> QED BY <1>2, <2>1, <2>2, <2>3, <2>4, <2>5
<1> QED BY <1>1, <1>2, <1>3, SeqEqual

-----------------------------------------------------------------------------
(* Type correctness *)

LEMMA TypeStep == TypeOK /\ [Next]_vars => TypeOK'
<1> SUFFICES ASSUME TypeOK, [Next]_vars PROVE TypeOK'
  OBVIOUS
<1> USE DEF TypeOK, Waiting
<1>1. ASSUME NEW i \in Items, Push(i) PROVE TypeOK'
  BY <1>1, AppendProperties DEF Push
<1>2. Take => q' \in Seq(Items) /\ popped' \in Seq(Items)
  BY HeadTailProperties, AppendProperties DEF Take
<1>7. CASE TryPop
  BY <1>2, <1>7 DEF TryPop
<1>3. ASSUME NEW c \in Consumers, WaitPop(c) PROVE TypeOK'
  <2>1. q' \in Seq(Items) /\ popped' \in Seq(Items)
    BY <1>2, <1>3 DEF WaitPop
  <2>2. cpc' \in [Consumers -> {"ready", "waiting", "woken", "done"}]
    BY <1>3 DEF WaitPop
  <2> QED BY <1>3, <2>1, <2>2 DEF WaitPop
<1>4. ASSUME NEW c \in Consumers, SpuriousWake(c) PROVE TypeOK'
  BY <1>4 DEF SpuriousWake
<1>5. CASE Close
  BY <1>5 DEF Close
<1>6. CASE UNCHANGED vars
  BY <1>6 DEF vars
<1> QED BY <1>1, <1>3, <1>4, <1>5, <1>6, <1>7 DEF Next

\* Every variable keeps its type.
THEOREM TypeCorrect == Spec => []TypeOK
<1>1. Init => TypeOK
  BY EmptySeq DEF Init, TypeOK
<1> QED BY <1>1, TypeStep, PTL DEF Spec

-----------------------------------------------------------------------------
(* The order of the items *)

LEMMA FIFOStep == TypeOK /\ FIFO /\ [Next]_vars => FIFO'
<1> SUFFICES ASSUME TypeOK, FIFO, [Next]_vars PROVE FIFO'
  OBVIOUS
<1> USE DEF TypeOK, FIFO
<1>1. ASSUME NEW i \in Items, Push(i) PROVE FIFO'
  <2>1. Append(popped \o q, i) = popped \o Append(q, i)
    BY AppendRight
  <2> QED BY <1>1, <2>1 DEF Push
<1>2. ASSUME Take, pushed' = pushed PROVE FIFO'
  <2>1. Append(popped, Head(q)) \o Tail(q) = popped \o q
    BY <1>2, MoveHead DEF Take
  <2> QED BY <1>2, <2>1 DEF Take
<1>3. ASSUME NEW c \in Consumers, WaitPop(c) \/ SpuriousWake(c) PROVE FIFO'
  BY <1>2, <1>3 DEF WaitPop, SpuriousWake
<1>4. CASE TryPop
  BY <1>2, <1>4 DEF TryPop
<1>5. CASE Close \/ UNCHANGED vars
  BY <1>5 DEF Close, vars
<1> QED BY <1>1, <1>3, <1>4, <1>5 DEF Next

\* What was popped, followed by what is queued, is what was pushed, in order.
THEOREM OrderIsKept == Spec => []FIFO
<1>1. Init => FIFO
  BY EmptySeq, ConcatEmptySeq DEF Init, FIFO
<1> QED BY <1>1, TypeCorrect, FIFOStep, PTL DEF Spec

-----------------------------------------------------------------------------
(* Wake-ups *)

LEMMA WakeupStep == TypeOK /\ NoLostWakeup /\ [Next]_vars => NoLostWakeup'
<1> SUFFICES ASSUME TypeOK, NoLostWakeup, [Next]_vars PROVE NoLostWakeup'
  OBVIOUS
<1>0. /\ IsFiniteSet(Woken) /\ Cardinality(Woken) \in Nat
      /\ IsFiniteSet(Woken') /\ Cardinality(Woken') \in Nat
  BY QueueAssumption, FS_Subset, FS_CardinalityType DEF Woken
<1>1. ASSUME NEW i \in Items, Push(i) PROVE NoLostWakeup'
  <2>1. CASE Waiting = {}
    BY <1>1, <2>1 DEF Push, NoLostWakeup, Waiting
  <2>2. CASE Waiting # {}
    <3>1. PICK c \in Waiting : cpc' = [cpc EXCEPT ![c] = "woken"]
      BY <1>1, <2>2 DEF Push
    <3>2. Woken' = Woken \union {c} /\ c \notin Woken
      BY <3>1 DEF Waiting, Woken, TypeOK
    <3>3. Cardinality(Woken') = Cardinality(Woken) + 1
      BY <1>0, <3>2, FS_AddElement
    <3>4. Len(q') = Len(q) + 1
      BY <1>1 DEF Push, TypeOK
    <3> QED BY <1>0, <1>1, <2>2, <3>3, <3>4 DEF Push, NoLostWakeup, TypeOK
  <2> QED BY <2>1, <2>2
<1>2. CASE TryPop
  <2>1. Len(q') = Len(q) - 1 /\ Len(q) \in Nat /\ UNCHANGED <<closed, cpc>>
    BY <1>2 DEF TryPop, Take, TypeOK
  <2> QED BY <1>0, <2>1 DEF NoLostWakeup, Waiting, Woken
<1>3. ASSUME NEW c \in Consumers, WaitPop(c) PROVE NoLostWakeup'
  <2>1. CASE Take /\ cpc' = [cpc EXCEPT ![c] = "ready"]
    <3>1. Woken' = Woken \ {c} /\ Waiting' = Waiting
      BY <1>3, <2>1 DEF WaitPop, Woken, Waiting, TypeOK
    <3>2. Cardinality(Woken') >= Cardinality(Woken) - 1
      BY <1>0, <3>1, FS_RemoveElement
    <3>3. Len(q') = Len(q) - 1 /\ Len(q) \in Nat
      BY <2>1 DEF Take, TypeOK
    <3> QED BY <1>0, <1>3, <3>1, <3>2, <3>3 DEF WaitPop, NoLostWakeup
  <2>2. CASE q = <<>> /\ q' = q /\ cpc' = [cpc EXCEPT ![c] = IF closed THEN "done" ELSE "waiting"]
    <3>1. Len(q') = 0
      BY <2>2
    <3>2. closed' = closed
      BY <1>3 DEF WaitPop
    <3>3. CASE closed
      BY <1>3, <2>2, <3>2, <3>3 DEF WaitPop, NoLostWakeup, Waiting, TypeOK
    <3>4. CASE ~closed
      BY <1>0, <3>1, <3>2, <3>4 DEF NoLostWakeup
    <3> QED BY <3>3, <3>4
  <2> QED BY <1>3, <2>1, <2>2 DEF WaitPop
<1>4. ASSUME NEW c \in Consumers, SpuriousWake(c) PROVE NoLostWakeup'
  <2>1. Woken' = Woken \union {c} /\ c \notin Woken /\ Waiting # {} /\ UNCHANGED <<q, closed>>
    BY <1>4 DEF SpuriousWake, Waiting, Woken, TypeOK
  <2>2. Cardinality(Woken') = Cardinality(Woken) + 1
    BY <1>0, <2>1, FS_AddElement
  <2> QED BY <1>0, <2>1, <2>2 DEF NoLostWakeup, TypeOK
<1>5. CASE Close
  <2>1. Waiting' = {}
    BY <1>5 DEF Close, Waiting, TypeOK
  <2> QED BY <2>1 DEF NoLostWakeup
<1>6. CASE UNCHANGED vars
  BY <1>6 DEF vars, NoLostWakeup, Waiting, Woken
<1> QED BY <1>1, <1>2, <1>3, <1>4, <1>5, <1>6 DEF Next

\* While a consumer waits, the queue is open and holds no more items than there
\* are consumers woken to take them.
THEOREM WakeupsAreKept == Spec => []NoLostWakeup
<1>1. Init => NoLostWakeup
  BY DEF Init, NoLostWakeup, Waiting
<1> QED BY <1>1, TypeCorrect, WakeupStep, PTL DEF Spec

-----------------------------------------------------------------------------
(* The end of a consumer *)

LEMMA DoneStep == TypeOK /\ DrainedBeforeDone /\ [Next]_vars => DrainedBeforeDone'
  BY DEF TypeOK, DrainedBeforeDone, Next, vars, Push, TryPop, Take, WaitPop, SpuriousWake,
     Close, Waiting

\* A consumer leaves only a queue that is closed and empty.
THEOREM NothingAbandoned == Spec => []DrainedBeforeDone
<1>1. Init => DrainedBeforeDone
  BY DEF Init, DrainedBeforeDone
<1> QED BY <1>1, TypeCorrect, DoneStep, PTL DEF Spec
=============================================================================
