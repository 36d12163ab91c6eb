------------------------------- MODULE Mempool -------------------------------
(***************************************************************************)
(* src/src/core/Mempool.cpp: the vector of pending transactions of a chain.  *)
(* The traffic thread and main() add to it in Node::submitTransaction(), and *)
(* the thread of every node of the chain in Node::runLoop(), with no mutex:  *)
(* push_back() of two of them is a data race.  Of its outcomes the model has *)
(* the mildest, without a reallocation: both read the end of the vector, and *)
(* each writes there and stores the end one past it.  verify() always agrees. *)
(***************************************************************************)
EXTENDS Naturals, Sequences, FiniteSets, SequencesExt

CONSTANTS
  Threads,      \* the threads that add
  Transactions  \* what they add; each is added twice, when it is submitted and
                \* when the node receives it from itself

VARIABLES
  buf_,   \* the elements up to the end of the vector
  end,    \* the end each thread in push_back() has read, or Outside
  adding, \* the transaction each thread is adding
  added   \* history: how often add() returned for each transaction

vars == <<buf_, end, adding, added>>

Outside == 0
Nothing == "nothing"

Init ==
  /\ buf_ = <<>>
  /\ end = [t \in Threads |-> Outside]
  /\ adding = [t \in Threads |-> Nothing]
  /\ added = [tx \in Transactions |-> 0]

\* add(): push_back() reads where the end is ...
ReadEnd(t, tx) ==
  /\ end[t] = Outside
  /\ added[tx] + Cardinality({u \in Threads : adding[u] = tx}) < 2
  /\ end' = [end EXCEPT ![t] = Len(buf_) + 1]
  /\ adding' = [adding EXCEPT ![t] = tx]
  /\ UNCHANGED <<buf_, added>>

\* ... writes there, and stores the end one past it.
WriteEnd(t) ==
  /\ end[t] # Outside
  /\ buf_' = Append(SubSeq(buf_, 1, end[t] - 1), adding[t])
  /\ end' = [end EXCEPT ![t] = Outside]
  /\ adding' = [adding EXCEPT ![t] = Nothing]
  /\ added' = [added EXCEPT ![adding[t]] = @ + 1]

Next ==
  \/ \E t \in Threads, tx \in Transactions : ReadEnd(t, tx)
  \/ \E t \in Threads : WriteEnd(t)

Spec == Init /\ [][Next]_vars

-----------------------------------------------------------------------------

\* "Add to local mempool and broadcast to peers" (Node.cpp:94): a transaction
\* for which add() has returned is in the mempool, as nothing drains it.
AddedIsPending == \A tx \in Transactions : added[tx] > 0 => tx \in ToSet(buf_)
=============================================================================
