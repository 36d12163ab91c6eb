--------------------------- MODULE ConcurrentQueue ---------------------------
(***************************************************************************)
(* src/src/util/ConcurrentQueue.h: the queue behind every inbox.  Each       *)
(* operation runs under the queue's mutex, so it is one step; waitPop() is   *)
(* two when it blocks, as it gives the mutex back while it waits on cv_.     *)
(*                                                                          *)
(* Producers push, consumers loop over waitPop() until it throws (the thread *)
(* of a node), pollers call tryPop() (the thread of a relayer), and somebody *)
(* closes the queue at any time.                                            *)
(***************************************************************************)
EXTENDS Naturals, Sequences, FiniteSets

CONSTANTS Consumers,   \* the threads that call waitPop()
          Items        \* what is pushed, each of them once

ASSUME QueueAssumption == IsFiniteSet(Consumers) /\ Consumers # {}

VARIABLES q,        \* q_
          closed,   \* closed_
          cpc,      \* a consumer is "ready" to test the predicate of waitPop(),
                    \* "waiting" on cv_, "woken", or "done" after the exception
          pushed,   \* history: what was pushed, in order
          popped    \* history: what was popped, in order

vars == <<q, closed, cpc, pushed, popped>>

Init ==
  /\ q = <<>>
  /\ closed = FALSE
  /\ cpc = [c \in Consumers |-> "ready"]
  /\ pushed = <<>>
  /\ popped = <<>>

Waiting == {c \in Consumers : cpc[c] = "waiting"}
Woken == {c \in Consumers : cpc[c] = "woken"}

\* Mutant: the waiting consumers are notified of the first item only.
PushQuietly(i) ==
  /\ ~closed
  /\ \A k \in DOMAIN pushed : pushed[k] # i
  /\ q' = Append(q, i)
  /\ pushed' = Append(pushed, i)
  /\ IF Waiting = {} \/ q # <<>> THEN UNCHANGED cpc
     ELSE \E c \in Waiting : cpc' = [cpc EXCEPT ![c] = "woken"]
  /\ UNCHANGED <<closed, popped>>

\* push(): a closed queue throws and keeps its contents; otherwise one waiting
\* consumer, if there is one, is woken under the mutex.
Push(i) ==
  /\ ~closed
  /\ \A k \in DOMAIN pushed : pushed[k] # i
  /\ q' = Append(q, i)
  /\ pushed' = Append(pushed, i)
  /\ IF Waiting = {} THEN UNCHANGED cpc
     ELSE \E c \in Waiting : cpc' = [cpc EXCEPT ![c] = "woken"]
  /\ UNCHANGED <<closed, popped>>

\* Mutant: the last item is taken.
TakeLast ==
  /\ q # <<>>
  /\ q' = SubSeq(q, 1, Len(q) - 1)
  /\ popped' = Append(popped, q[Len(q)])

Take ==
  /\ q # <<>>
  /\ q' = Tail(q)
  /\ popped' = Append(popped, Head(q))

\* tryPop() does not look at closed_
TryPop == Take /\ UNCHANGED <<closed, cpc, pushed>>

\* Mutant: a closed queue throws although it holds items.
WaitPopAbandon(c) ==
  /\ cpc[c] \in {"ready", "woken"}
  /\ \/ ~closed /\ Take /\ cpc' = [cpc EXCEPT ![c] = "ready"]
     \/ /\ q = <<>> \/ closed
        /\ cpc' = [cpc EXCEPT ![c] = IF closed THEN "done" ELSE "waiting"]
        /\ UNCHANGED <<q, popped>>
  /\ UNCHANGED <<closed, pushed>>

\* waitPop(): take the first item, also of a closed queue; throw when it is
\* closed and empty; block when it is open and empty.
WaitPop(c) ==
  /\ cpc[c] \in {"ready", "woken"}
  /\ \/ Take /\ cpc' = [cpc EXCEPT ![c] = "ready"]
     \/ /\ q = <<>>
        /\ cpc' = [cpc EXCEPT ![c] = IF closed THEN "done" ELSE "waiting"]
        /\ UNCHANGED <<q, popped>>
  /\ UNCHANGED <<closed, pushed>>

SpuriousWake(c) ==
  /\ cpc[c] = "waiting"
  /\ cpc' = [cpc EXCEPT ![c] = "woken"]
  /\ UNCHANGED <<q, closed, pushed, popped>>

\* Mutant: notify_one() instead of notify_all().
CloseOne ==
  /\ closed' = TRUE
  /\ IF Waiting = {} THEN UNCHANGED cpc
     ELSE \E c \in Waiting : cpc' = [cpc EXCEPT ![c] = "woken"]
  /\ UNCHANGED <<q, pushed, popped>>

\* close(): every waiting consumer is woken under the mutex.
Close ==
  /\ closed' = TRUE
  /\ cpc' = [c \in Consumers |-> IF c \in Waiting THEN "woken" ELSE cpc[c]]
  /\ UNCHANGED <<q, pushed, popped>>

Next ==
  \/ \E i \in Items : Push(i)
  \/ TryPop
  \/ \E c \in Consumers : WaitPop(c) \/ SpuriousWake(c)
  \/ Close

Spec == Init /\ [][Next]_vars

\* A consumer that can run is scheduled; nobody has to push, poll or close.
FairSpec == Spec /\ \A c \in Consumers : WF_vars(WaitPop(c))

-----------------------------------------------------------------------------
(* Properties *)

\* Every variable has its type.
TypeOK ==
  /\ q \in Seq(Items) /\ pushed \in Seq(Items) /\ popped \in Seq(Items)
  /\ closed \in BOOLEAN
  /\ cpc \in [Consumers -> {"ready", "waiting", "woken", "done"}]

\* No wake-up is lost, although notify_one() wakes one consumer and another, or
\* a poller, may take the item first: while somebody waits, there are no more
\* items than consumers woken for them, and nobody waits on a closed queue.
NoLostWakeup ==
  Waiting # {} => ~closed /\ Len(q) <= Cardinality(Woken)

\* Items leave in the order they came, none lost, duplicated or overtaken,
\* whoever takes them: with several threads that is what relayed packets rely on.
FIFO == pushed = popped \o q

\* A thread that loops over waitPop() leaves only when the queue is closed and
\* nothing is left in it.
DrainedBeforeDone == \A c \in Consumers : cpc[c] = "done" => closed /\ q = <<>>

\* Once the queue is closed every consumer leaves, so that the thread that
\* closed it can join them; and what is pushed is taken.
ConsumersLeave == closed ~> \A c \in Consumers : cpc[c] = "done"
ItemsLeave == q # <<>> ~> q = <<>>
=============================================================================
