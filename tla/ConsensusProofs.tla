-------------------------- MODULE ConsensusProofs --------------------------
(***************************************************************************)
(* Proofs about the consensus engines, for any number of nodes, any quorum   *)
(* or difficulty and any blocks.  The invariant records whom the votes of a  *)
(* voting engine stand for.                                                 *)
(***************************************************************************)
EXTENDS Consensus, FiniteSetTheorems, TLAPS

\* An engine knows two voters, itself and "remote".
TwoVoters == \A n \in Nodes, id \in BlockIds : votes[n][id] \subseteq {n, Remote}

\* Its own vote stands for a block it proposed, "remote" for one it received.
VotesStandForBlocks ==
  Voting => \A n \in Nodes, id \in BlockIds :
    /\ n \in votes[n][id] => \E b \in proposed[n] : BlockId(b) = id
    /\ Remote \in votes[n][id] => \E b \in Received(n) : BlockId(b) = id

IInv ==
  /\ TypeOK /\ TwoVoters /\ VotesStandForBlocks /\ FinalIffQuorum
  /\ EveryIdWorked /\ MinedIsFinal

-----------------------------------------------------------------------------

\* The quorum of either voting engine is at least one.
LEMMA QuorumPositive == ASSUME TypeOK PROVE Quorum \in Nat \ {0}
<1>1. engine.kind \in {"PBFT", "PoS", "PoW"} /\ engine.size \in Nat
  BY ConsensusAssumption DEF TypeOK
<1>2. CASE engine.kind = "PBFT"
  BY <1>1, <1>2 DEF Quorum
<1>3. CASE engine.kind # "PBFT"
  BY <1>1, <1>3 DEF Quorum
<1> QED  BY <1>2, <1>3

\* A set of at most two voters reaches two votes only with both.
LEMMA PairOfVoters ==
  ASSUME NEW a, NEW b, a # b, NEW S, S \subseteq {a, b}
  PROVE  /\ Cardinality(S) \in 0..2
         /\ Cardinality(S) = 2 => a \in S /\ b \in S
<1>1. IsFiniteSet({a}) /\ Cardinality({a}) = 1
  BY FS_Singleton
<1>2. IsFiniteSet({b}) /\ Cardinality({b}) = 1
  BY FS_Singleton
<1>3. IsFiniteSet({a, b}) /\ Cardinality({a, b}) = 2
  <2>1. b \notin {a} /\ {a} \union {b} = {a, b}
    OBVIOUS
  <2> QED  BY <1>1, <2>1, FS_AddElement
<1>4. /\ IsFiniteSet(S)
      /\ Cardinality(S) \in Nat
      /\ Cardinality(S) <= 2
  BY <1>3, FS_Subset, FS_CardinalityType
<1>5. a \notin S => Cardinality(S) <= 1
  <2>1. SUFFICES ASSUME a \notin S PROVE Cardinality(S) <= 1
    OBVIOUS
  <2>2. S \subseteq {b}
    BY <2>1
  <2> QED  BY <2>2, <1>2, FS_Subset
<1>6. b \notin S => Cardinality(S) <= 1
  <2>1. SUFFICES ASSUME b \notin S PROVE Cardinality(S) <= 1
    OBVIOUS
  <2>2. S \subseteq {a}
    BY <2>1
  <2> QED  BY <2>2, <1>1, FS_Subset
<1> QED  BY <1>4, <1>5, <1>6

\* Blocks have ids, and the ids are those of the type.
LEMMA IdType == ASSUME NEW b \in Blocks PROVE BlockId(b) \in BlockIds
BY DEF BlockId, BlockIds, Blocks, Extras

\* What a node builds on its blocks is a block.
LEMMA NextBlockType ==
  ASSUME TypeOK, NEW n \in Nodes, NEW prev \in Known(n), prev.height < MaxHeight,
         NEW root \in Roots, NEW extra \in Extras
  PROVE  NextBlock(prev, root, extra) \in Blocks
<1>1. prev \in Blocks \/ prev = GenesisBlock
  BY DEF Known, TypeOK
<1>2. prev.height + 1 \in 1..MaxHeight /\ prev.root \in Prevs
  BY <1>1, ConsensusAssumption DEF Blocks, GenesisBlock, Prevs
<1> QED  BY <1>2 DEF NextBlock, Blocks

\* A proposal or a received block is a block.
LEMMA ReceivedType ==
  ASSUME TypeOK, NEW n \in Nodes PROVE Received(n) \subseteq Blocks
BY ConsensusAssumption DEF TypeOK, Received

LEMMA Initially == Init => IInv
<1> SUFFICES ASSUME Init PROVE IInv
  OBVIOUS
<1>1. TypeOK
  BY DEF Init, TypeOK
<1>2. TwoVoters /\ VotesStandForBlocks /\ EveryIdWorked /\ MinedIsFinal
  BY DEF Init, TwoVoters, VotesStandForBlocks, EveryIdWorked, MinedIsFinal
<1>3. FinalIffQuorum
  BY <1>1, QuorumPositive, FS_EmptySet DEF Init, FinalIffQuorum
<1> QED  BY <1>1, <1>2, <1>3 DEF IInv

-----------------------------------------------------------------------------

\* The engine a chain is configured with does not change, nor do its ids.
LEMMA SameEngine ==
  ASSUME engine' = engine
  PROVE  /\ Quorum' = Quorum /\ Voting' = Voting
         /\ \A b : BlockId(b)' = BlockId(b)
         /\ \A b : HasWork(b)' = HasWork(b)
BY DEF Quorum, Voting, BlockId, HasWork

\* What Count() does to the two variables of an engine.
LEMMA Counting ==
  ASSUME IInv, Voting, engine' = engine, NEW n \in Nodes, NEW id \in BlockIds, NEW voter \in {n, Remote},
         Count(n, id, voter)
  PROVE  /\ votes' \in [Nodes -> [BlockIds -> SUBSET Voters]]
         /\ finalized' \in [Nodes -> SUBSET BlockIds]
         /\ TwoVoters'
         /\ FinalIffQuorum'
         /\ \A k \in Nodes, i \in BlockIds : \A v \in votes'[k][i] :
              v \in votes[k][i] \/ (k = n /\ i = id /\ v = voter)
<1> USE DEF IInv
<1>0. Quorum \in Nat \ {0}
  BY QuorumPositive
<1> DEFINE voted == votes[n][id] \union {voter}
<1>1. /\ votes' = [votes EXCEPT ![n][id] = voted]
      /\ finalized' = IF Cardinality(voted) >= Quorum
                      THEN [finalized EXCEPT ![n] = @ \union {id}] ELSE finalized
  BY DEF Count
<1>2. voted \subseteq {n, Remote} /\ voted \in SUBSET Voters
  BY DEF TwoVoters, Voters
<1>3. /\ votes' \in [Nodes -> [BlockIds -> SUBSET Voters]]
      /\ finalized' \in [Nodes -> SUBSET BlockIds]
  BY <1>1, <1>2 DEF TypeOK
<1>4. \A k \in Nodes, i \in BlockIds :
        votes'[k][i] = IF k = n /\ i = id THEN voted ELSE votes[k][i]
  BY <1>1 DEF TypeOK
<1>5. TwoVoters'
  BY <1>2, <1>4 DEF TwoVoters
<1>6. FinalIffQuorum'
  <2> SUFFICES ASSUME NEW k \in Nodes, NEW i \in BlockIds
               PROVE  i \in finalized'[k] <=> Cardinality(votes'[k][i]) >= Quorum
    BY SameEngine DEF FinalIffQuorum
  <2>1. i \in finalized[k] <=> Cardinality(votes[k][i]) >= Quorum
    BY DEF FinalIffQuorum
  <2>2. CASE ~(k = n /\ i = id)
    <3>1. votes'[k][i] = votes[k][i]
      BY <1>4, <2>2
    <3>2. i \in finalized'[k] <=> i \in finalized[k]
      BY <1>1, <2>2 DEF TypeOK
    <3> QED  BY <3>1, <3>2, <2>1
  <2>3. CASE k = n /\ i = id
    <3>1. votes'[k][i] = voted
      BY <1>4, <2>3
    <3>2. CASE Cardinality(voted) >= Quorum
      BY <1>1, <2>3, <3>1, <3>2 DEF TypeOK
    <3>3. CASE ~(Cardinality(voted) >= Quorum)
      <4>1. finalized' = finalized
        BY <1>1, <3>3
      <4>2. Cardinality(votes[n][id]) <= Cardinality(voted)
        <5>1. n # Remote
          BY ConsensusAssumption
        <5>2. voted \subseteq {n, Remote} /\ IsFiniteSet({n, Remote})
          <6>1. IsFiniteSet({n})
            BY FS_Singleton
          <6>2. {n} \union {Remote} = {n, Remote}
            OBVIOUS
          <6> QED  BY <6>1, <6>2, <1>2, FS_AddElement
        <5>3. IsFiniteSet(voted)
          BY <5>2, FS_Subset
        <5> QED  BY <5>3, FS_Subset
      <4>3. /\ Cardinality(votes[n][id]) \in Nat
            /\ Cardinality(voted) \in Nat
        <5>1. n # Remote
          BY ConsensusAssumption
        <5>2. votes[n][id] \subseteq {n, Remote}
          BY DEF TwoVoters
        <5>3. Cardinality(votes[n][id]) \in 0..2
          BY <5>1, <5>2, PairOfVoters
        <5>4. Cardinality(voted) \in 0..2
          BY <5>1, <1>2, PairOfVoters
        <5> QED  BY <5>3, <5>4
      <4>4. ~(Cardinality(votes[n][id]) >= Quorum)
        BY <4>2, <4>3, <3>3, <1>0
      <4> QED  BY <4>1, <4>4, <2>1, <2>3, <3>1, <3>3
    <3> QED  BY <3>2, <3>3
  <2> QED  BY <2>2, <2>3
<1>7. \A k \in Nodes, i \in BlockIds : \A v \in votes'[k][i] :
        v \in votes[k][i] \/ (k = n /\ i = id /\ v = voter)
  BY <1>4
<1> QED  BY <1>3, <1>5, <1>6, <1>7

\* Taking a vote disturbs nothing that is about work.
LEMMA VotingHasNoWork ==
  ASSUME Voting, engine' = engine PROVE EveryIdWorked' /\ MinedIsFinal'
BY SameEngine DEF EveryIdWorked, MinedIsFinal

LEMMA ProposeVotePreserves ==
  ASSUME IInv, NEW n \in Nodes, NEW prev \in Known(n), NEW root \in Roots,
         ProposeVote(n, prev, root)
  PROVE  IInv'
<1> DEFINE b == NextBlock(prev, root, NotANumber)
<1>1. /\ Voting /\ engine' = engine /\ seen' = seen
      /\ proposed' = [proposed EXCEPT ![n] = @ \union {b}]
      /\ Count(n, BlockId(b), n)
  BY DEF ProposeVote
<1>2. b \in Blocks /\ BlockId(b) \in BlockIds
  BY NextBlockType, IdType DEF IInv, ProposeVote, WithinBounds, Extras
<1> HIDE DEF b
<1>3. /\ votes' \in [Nodes -> [BlockIds -> SUBSET Voters]]
      /\ finalized' \in [Nodes -> SUBSET BlockIds]
      /\ TwoVoters'
      /\ FinalIffQuorum'
      /\ \A k \in Nodes, i \in BlockIds : \A v \in votes'[k][i] :
           v \in votes[k][i] \/ (k = n /\ i = BlockId(b) /\ v = n)
  BY <1>1, <1>2, Counting
<1>4. TypeOK'
  BY <1>1, <1>2, <1>3 DEF IInv, TypeOK
<1>5. /\ \A k \in Nodes : proposed[k] \subseteq proposed'[k]
      /\ b \in proposed'[n]
  BY <1>1 DEF IInv, TypeOK
<1>6. \A k \in Nodes : Received(k) \subseteq Received(k)'
  BY <1>5 DEF Received
<1>7. VotesStandForBlocks'
  <2> SUFFICES ASSUME NEW k \in Nodes, NEW i \in BlockIds
               PROVE  /\ k \in votes'[k][i] => \E c \in proposed'[k] : BlockId(c) = i
                      /\ Remote \in votes'[k][i] => \E c \in Received(k)' : BlockId(c) = i
    BY <1>1, SameEngine DEF VotesStandForBlocks
  <2>1. n # Remote
    BY ConsensusAssumption
  <2> QED  BY <1>1, <1>3, <1>5, <1>6, <2>1 DEF IInv, VotesStandForBlocks
<1> QED  BY <1>1, <1>3, <1>4, <1>7, VotingHasNoWork DEF IInv

LEMMA RemoteVotePreserves ==
  ASSUME IInv, NEW n \in Nodes, NEW b \in Received(n), RemoteVote(n, b)
  PROVE  IInv'
<1>1. /\ Voting /\ engine' = engine /\ proposed' = proposed
      /\ seen' = [seen EXCEPT ![n] = @ \union {b}]
      /\ Count(n, BlockId(b), Remote)
  BY DEF RemoteVote
<1>2. b \in Blocks /\ BlockId(b) \in BlockIds
  BY ReceivedType, IdType DEF IInv
<1>3. /\ votes' \in [Nodes -> [BlockIds -> SUBSET Voters]]
      /\ finalized' \in [Nodes -> SUBSET BlockIds]
      /\ TwoVoters'
      /\ FinalIffQuorum'
      /\ \A k \in Nodes, i \in BlockIds : \A v \in votes'[k][i] :
           v \in votes[k][i] \/ (k = n /\ i = BlockId(b) /\ v = Remote)
  BY <1>1, <1>2, Counting
<1>4. TypeOK'
  BY <1>1, <1>2, <1>3 DEF IInv, TypeOK
<1>5. \A k \in Nodes : Received(k)' = Received(k)
  BY <1>1 DEF Received
<1>6. VotesStandForBlocks'
  <2> SUFFICES ASSUME NEW k \in Nodes, NEW i \in BlockIds
               PROVE  /\ k \in votes'[k][i] => \E c \in proposed'[k] : BlockId(c) = i
                      /\ Remote \in votes'[k][i] => \E c \in Received(k)' : BlockId(c) = i
    BY <1>1, SameEngine DEF VotesStandForBlocks
  <2>1. k # Remote
    BY ConsensusAssumption
  <2> QED  BY <1>1, <1>3, <1>5, <2>1 DEF IInv, VotesStandForBlocks
<1> QED  BY <1>1, <1>3, <1>4, <1>6, VotingHasNoWork DEF IInv

\* Recording the id of a block that has the work, and adding the block to those
\* the node proposed or accepted
LEMMA Recording ==
  ASSUME IInv, ~Voting, engine' = engine, NEW n \in Nodes, NEW b \in Blocks,
         HasWork(b), Record(n, BlockId(b)),
         proposed' \in [Nodes -> SUBSET Blocks], seen' \in [Nodes -> SUBSET Blocks],
         \A k \in Nodes : \A c \in proposed'[k] \union seen'[k] :
           c \in proposed[k] \union seen[k] \/ (k = n /\ c = b)
  PROVE  IInv'
<1> USE DEF IInv
<1>1. /\ finalized' = [finalized EXCEPT ![n] = @ \union {BlockId(b)}]
      /\ votes' = votes
      /\ BlockId(b) \in BlockIds
  BY IdType DEF Record
<1>2. TypeOK'
  BY <1>1 DEF TypeOK
<1>3. \A k \in Nodes : finalized'[k] =
        IF k = n THEN finalized[k] \union {BlockId(b)} ELSE finalized[k]
  BY <1>1 DEF TypeOK
<1>4. TwoVoters' /\ VotesStandForBlocks' /\ FinalIffQuorum'
  BY <1>1, SameEngine DEF TwoVoters, VotesStandForBlocks, FinalIffQuorum
<1>5. EveryIdWorked'
  <2> SUFFICES ASSUME NEW k \in Nodes, NEW id \in finalized'[k]
               PROVE  \E c \in Blocks : BlockId(c) = id /\ HasWork(c)
    BY SameEngine DEF EveryIdWorked
  <2>1. CASE id \in finalized[k]
    BY <2>1 DEF EveryIdWorked
  <2>2. CASE id \notin finalized[k]
    BY <2>2, <1>3
  <2> QED  BY <2>1, <2>2
<1>6. MinedIsFinal'
  <2> SUFFICES ASSUME NEW k \in Nodes, NEW c \in proposed'[k] \union seen'[k]
               PROVE  c.extra # NotANumber /\ BlockId(c) \in finalized'[k]
    BY SameEngine DEF MinedIsFinal, IsFinal
  <2>1. CASE c \in proposed[k] \union seen[k]
    BY <2>1, <1>3 DEF MinedIsFinal, IsFinal
  <2>2. CASE k = n /\ c = b
    BY <2>2, <1>3 DEF HasWork
  <2> QED  BY <2>1, <2>2
<1> QED  BY <1>2, <1>4, <1>5, <1>6

LEMMA MinePreserves ==
  ASSUME IInv, NEW n \in Nodes, NEW prev \in Known(n), NEW root \in Roots,
         Mine(n, prev, root)
  PROVE  IInv'
<1>1. PICK nonce \in Nonces :
        /\ HasWork(NextBlock(prev, root, nonce))
        /\ proposed' = [proposed EXCEPT ![n] = @ \union {NextBlock(prev, root, nonce)}]
        /\ Record(n, BlockId(NextBlock(prev, root, nonce)))
  BY DEF Mine
<1> DEFINE b == NextBlock(prev, root, nonce)
<1>2. b \in Blocks
  BY NextBlockType DEF IInv, Mine, WithinBounds, Extras
<1>3. ~Voting /\ engine' = engine /\ seen' = seen
  BY DEF Mine
<1> HIDE DEF b
<1>4. /\ proposed' \in [Nodes -> SUBSET Blocks] /\ seen' \in [Nodes -> SUBSET Blocks]
      /\ \A k \in Nodes : \A c \in proposed'[k] \union seen'[k] :
           c \in proposed[k] \union seen[k] \/ (k = n /\ c = b)
  BY <1>1, <1>2, <1>3 DEF IInv, TypeOK, b
<1>5. HasWork(b) /\ Record(n, BlockId(b))
  BY <1>1 DEF b
<1> QED  BY <1>2, <1>3, <1>4, <1>5, Recording

LEMMA RemoteWorkPreserves ==
  ASSUME IInv, NEW n \in Nodes, NEW b \in Received(n), RemoteWork(n, b)
  PROVE  IInv'
<1>1. /\ ~Voting /\ engine' = engine /\ proposed' = proposed
      /\ seen' = [seen EXCEPT ![n] = @ \union {b}]
      /\ HasWork(b) /\ Record(n, BlockId(b))
  BY DEF RemoteWork
<1>2. b \in Blocks
  BY ReceivedType DEF IInv
<1>3. /\ proposed' \in [Nodes -> SUBSET Blocks] /\ seen' \in [Nodes -> SUBSET Blocks]
      /\ \A k \in Nodes : \A c \in proposed'[k] \union seen'[k] :
           c \in proposed[k] \union seen[k] \/ (k = n /\ c = b)
  BY <1>1, <1>2 DEF IInv, TypeOK
<1> QED  BY <1>1, <1>2, <1>3, Recording

LEMMA Inductive == IInv /\ [Next]_vars => IInv'
<1> SUFFICES ASSUME IInv, [Next]_vars PROVE IInv'
  OBVIOUS
<1>1. ASSUME NEW n \in Nodes, NEW prev \in Known(n), NEW root \in Roots,
             ProposeVote(n, prev, root)
      PROVE  IInv'
  BY <1>1, ProposeVotePreserves
<1>2. ASSUME NEW n \in Nodes, NEW prev \in Known(n), NEW root \in Roots,
             Mine(n, prev, root)
      PROVE  IInv'
  BY <1>2, MinePreserves
<1>3. ASSUME NEW n \in Nodes, NEW b \in Received(n), RemoteVote(n, b)
      PROVE  IInv'
  BY <1>3, RemoteVotePreserves
<1>4. ASSUME NEW n \in Nodes, NEW b \in Received(n), RemoteWork(n, b)
      PROVE  IInv'
  BY <1>4, RemoteWorkPreserves
<1>5. CASE UNCHANGED vars
  BY <1>5 DEF vars, IInv, TypeOK, TwoVoters, VotesStandForBlocks, FinalIffQuorum,
              EveryIdWorked, MinedIsFinal, Voting, Quorum, BlockId, HasWork,
              IsFinal, Received
<1> QED  BY <1>1, <1>2, <1>3, <1>4, <1>5 DEF Next

-----------------------------------------------------------------------------

\* The strengthened invariant of the engines holds in every behaviour.
THEOREM Invariant == Spec => []IInv
BY Initially, Inductive, PTL DEF Spec

\* Every variable of the engines keeps its type.
THEOREM TypeCorrect == Spec => []TypeOK
<1>1. IInv => TypeOK
  BY DEF IInv
<1> QED  BY Invariant, <1>1, PTL

\* Whatever the order of proposals and remote blocks, finality is exactly the
\* quorum of PBFTImpl::propose() and onRemoteBlock() and of those of PoSImpl.
THEOREM FinalityIsQuorum == Spec => []FinalIffQuorum
<1>1. IInv => FinalIffQuorum
  BY DEF IInv
<1> QED  BY Invariant, <1>1, PTL

\* A quorum of a voting engine holds at most the two voters it knows.
LEMMA VotesOfFinal ==
  ASSUME IInv, Voting, NEW n \in Nodes, NEW id \in finalized[n]
  PROVE  /\ id \in BlockIds
         /\ Quorum <= Cardinality(votes[n][id])
         /\ Cardinality(votes[n][id]) \in 0..2
         /\ Cardinality(votes[n][id]) = 2 => n \in votes[n][id] /\ Remote \in votes[n][id]
<1>1. id \in BlockIds /\ Cardinality(votes[n][id]) >= Quorum
  BY DEF IInv, TypeOK, FinalIffQuorum
<1>2. n # Remote
  BY ConsensusAssumption
<1>3. votes[n][id] \subseteq {n, Remote}
  BY <1>1 DEF IInv, TwoVoters
<1>4. /\ Cardinality(votes[n][id]) \in 0..2
      /\ Cardinality(votes[n][id]) = 2 => n \in votes[n][id] /\ Remote \in votes[n][id]
  BY <1>2, <1>3, PairOfVoters
<1>5. Quorum \in Nat
  BY QuorumPositive DEF IInv
<1> QED  BY <1>1, <1>4, <1>5

\* No number of nodes and blocks makes an engine with a quorum above two
\* finalize anything.
THEOREM NothingIsFinal == Spec => []NothingFinalAboveTwo
<1>1. IInv => NothingFinalAboveTwo
  <2> SUFFICES ASSUME IInv, Voting, Quorum > 2, NEW n \in Nodes, NEW id \in finalized[n]
               PROVE  FALSE
    BY DEF NothingFinalAboveTwo
  <2>1. Quorum \in Nat
    BY QuorumPositive DEF IInv
  <2> QED  BY <2>1, VotesOfFinal
<1> QED  BY Invariant, <1>1, PTL

\* With a quorum of two, finality at a node takes a block it proposed and one
\* it could receive.
THEOREM BothSidesAgree == Spec => []FinalNeedsBothSides
<1>1. IInv => FinalNeedsBothSides
  <2> SUFFICES ASSUME IInv, Voting, Quorum = 2, NEW n \in Nodes, NEW id \in finalized[n]
               PROVE  /\ \E b \in proposed[n] : BlockId(b) = id
                      /\ \E b \in Received(n) : BlockId(b) = id
    BY DEF FinalNeedsBothSides
  <2>1. /\ id \in BlockIds /\ Cardinality(votes[n][id]) \in 0..2
        /\ Cardinality(votes[n][id]) >= 2
        /\ Cardinality(votes[n][id]) = 2 => n \in votes[n][id] /\ Remote \in votes[n][id]
    BY VotesOfFinal
  <2>2. n \in votes[n][id] /\ Remote \in votes[n][id]
    BY <2>1
  <2> QED  BY <2>1, <2>2 DEF IInv, VotesStandForBlocks
<1> QED  BY Invariant, <1>1, PTL

\* PoWImpl::propose() and onRemoteBlock() let no id in without its work.
THEOREM WorkIsChecked == Spec => []EveryIdWorked
<1>1. IInv => EveryIdWorked
  BY DEF IInv
<1> QED  BY Invariant, <1>1, PTL

\* PoWImpl::isFinal() is true of everything mined or accepted.
THEOREM WorkIsKept == Spec => []MinedIsFinal
<1>1. IInv => MinedIsFinal
  BY DEF IInv
<1> QED  BY Invariant, <1>1, PTL
=============================================================================
