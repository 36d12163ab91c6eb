---------------------------- MODULE MCConsensus ----------------------------
(***************************************************************************)
(* A small instance of Consensus for TLC: a chain of each kind.             *)
(***************************************************************************)
EXTENDS Consensus

CONSTANTS easyRoot, hardRoot

\* A quorum of two (two validators), one of three (main()'s PBFT), and work.
Kinds == {[kind |-> "PoS", size |-> 2], [kind |-> "PBFT", size |-> 1],
          [kind |-> "PoW", size |-> 1]}

\* A block with the easy root is mined with nonce 1 and another nonce works too,
\* one with the hard root is mined with nonce 2.
SomeZeros ==
  [w \in (1..MaxHeight) \X Prevs \X Roots \X Nonces |->
     CASE w[3] = easyRoot /\ w[4] >= 1 -> 1
       [] w[3] = hardRoot /\ w[4] >= 2 -> 1
       [] OTHER -> 0]

\* Blocks on another genesis: with a nonce that does not work, and with none.
Strays == [height : {1}, prev : {easyRoot}, root : {easyRoot}, extra : {0, NotANumber}]
=============================================================================
