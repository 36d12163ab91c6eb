----------------------------- MODULE Consensus -----------------------------
(***************************************************************************)
(* The consensus engines under src/src/consensus: PBFT.cpp and PoS.cpp count *)
(* votes per block id and finalize an id with a quorum, PoW.cpp searches and *)
(* checks nonces and calls final what it mined or accepted.  Each node of a  *)
(* chain has an engine of its own, all of the kind the chain is configured   *)
(* with.                                                                    *)
(*                                                                          *)
(* Nodes propose blocks and hand the blocks of others to onRemoteBlock(), as *)
(* Consensus.h says they do; the run loop of Node makes neither call yet.    *)
(* The engines' methods hold their mutex: each is one step.  The hash covers *)
(* height, prevHash, stateRoot and nonce; its leading zeros are a parameter. *)
(***************************************************************************)
EXTENDS Naturals, FiniteSets

CONSTANTS
  Nodes,       \* the nodes of one chain
  Engines,     \* the engines a chain may be configured with
  Roots,       \* the state roots of the blocks that are proposed
  Genesis,     \* the (empty) state root of the genesis block
  MaxHeight,   \* bound: no block is proposed above it
  MaxProposals,  \* bound: no node proposes more blocks
  MaxNonce,    \* the last nonce propose() tries (1000000 in the code)
  Zeros,       \* the leading zeros of each hash
  NotANumber,  \* an "extra" that stoull() throws at
  Foreign      \* blocks that nodes receive and no engine of theirs proposed

Remote == "remote"
Nonces == 0..MaxNonce
Extras == Nonces \union {NotANumber}
Prevs == Roots \union {Genesis}

\* prevHash is the state root of the block before.
Blocks == [height : 1..MaxHeight, prev : Prevs, root : Roots, extra : Extras]
BlockIds == (1..MaxHeight) \X Prevs \X Extras
GenesisBlock == [height |-> 0, prev |-> Genesis, root |-> Genesis, extra |-> NotANumber]

\* size is pbftFaultTolerance, validatorSetSize or powDifficulty.
ASSUME ConsensusAssumption ==
  /\ Engines \subseteq [kind : {"PBFT", "PoS", "PoW"}, size : Nat]
  /\ MaxHeight \in Nat
  /\ MaxNonce \in Nat
  /\ MaxProposals \in Nat
  /\ Zeros \in [(1..MaxHeight) \X Prevs \X Roots \X Nonces -> Nat]
  /\ NotANumber \notin Nonces
  /\ Foreign \subseteq Blocks
  /\ Remote \notin Nodes

VARIABLES
  engine,     \* what ConsensusFactory::make() was given
  votes,      \* commitVotes_ or signatures_ of each engine
  finalized,  \* finalizedBlocks_ or minedBlocks_ of each engine
  proposed,   \* history: the blocks each node proposed
  seen        \* history: the blocks onRemoteBlock() of each engine accepted

vars == <<engine, votes, finalized, proposed, seen>>

Voting == engine.kind # "PoW"

\* quorum() of the two voting engines
Quorum == IF engine.kind = "PBFT" THEN 2 * engine.size + 1
                                  ELSE (engine.size * 2) \div 3 + 1

\* blockId(): neither the transactions nor their root are part of it, and the
\* nonce only in proof of work.
BlockId(b) == <<b.height, b.prev, IF Voting THEN NotANumber ELSE b.extra>>

\* hasLeadingZeros(computeBlockHash())
HasWork(b) ==
  /\ b.extra # NotANumber
  /\ Zeros[<<b.height, b.prev, b.root, b.extra>>] >= engine.size

Voters == Nodes \union {Remote}

Init ==
  /\ engine \in Engines
  /\ votes = [n \in Nodes |-> [id \in BlockIds |-> {}]]
  /\ finalized = [n \in Nodes |-> {}]
  /\ proposed = [n \in Nodes |-> {}]
  /\ seen = [n \in Nodes |-> {}]

\* Mutant: a proposal votes and does not count.
CountRemote(n, id, voter) ==
  LET voted == votes[n][id] \union {voter}
  IN  /\ votes' = [votes EXCEPT ![n][id] = voted]
      /\ finalized' = IF voter = Remote /\ Cardinality(voted) >= Quorum
                      THEN [finalized EXCEPT ![n] = @ \union {id}] ELSE finalized

\* Mutant: a quorum is reached one vote early.
CountEarly(n, id, voter) ==
  LET voted == votes[n][id] \union {voter}
  IN  /\ votes' = [votes EXCEPT ![n][id] = voted]
      /\ finalized' = IF Cardinality(voted) + 1 >= Quorum
                      THEN [finalized EXCEPT ![n] = @ \union {id}] ELSE finalized

\* A vote is recorded, and the id finalized if the votes are enough.
Count(n, id, voter) ==
  LET voted == votes[n][id] \union {voter}
  IN  /\ votes' = [votes EXCEPT ![n][id] = voted]
      /\ finalized' = IF Cardinality(voted) >= Quorum
                      THEN [finalized EXCEPT ![n] = @ \union {id}] ELSE finalized

\* The id of a mined or checked block is recorded.
Record(n, id) ==
  /\ finalized' = [finalized EXCEPT ![n] = @ \union {id}]
  /\ UNCHANGED votes

\* The blocks a node can build on, and the ones it can receive
Known(n) == {GenesisBlock} \union proposed[n] \union seen[n]
Received(n) == Foreign \union UNION {proposed[m] : m \in Nodes \ {n}}

\* The bounds on what is proposed
WithinBounds(n, prev) ==
  prev.height < MaxHeight /\ Cardinality(proposed[n]) < MaxProposals

\* The block propose() makes; a voting engine writes no number into "extra".
NextBlock(prev, root, extra) ==
  [height |-> prev.height + 1, prev |-> prev.root, root |-> root, extra |-> extra]

\* propose() of a voting engine: the node's own vote counts.
ProposeVote(n, prev, root) ==
  LET b == NextBlock(prev, root, NotANumber)
  IN  /\ Voting
      /\ WithinBounds(n, prev)
      /\ proposed' = [proposed EXCEPT ![n] = @ \union {b}]
      /\ Count(n, BlockId(b), n)
      /\ UNCHANGED <<engine, seen>>

\* Mutant: the id is made before the nonce is found.
MineEarly(n, prev, root) ==
  /\ ~Voting
  /\ WithinBounds(n, prev)
  /\ \E nonce \in Nonces :
       /\ HasWork(NextBlock(prev, root, nonce))
       /\ \A less \in 0..(nonce - 1) : ~HasWork(NextBlock(prev, root, less))
       /\ proposed' = [proposed EXCEPT ![n] = @ \union {NextBlock(prev, root, nonce)}]
       /\ Record(n, BlockId(NextBlock(prev, root, 0)))
  /\ UNCHANGED <<engine, seen>>

\* propose() of proof of work: the first nonce that works; when there is none
\* the engine returns ConsensusFault and nothing changes.
Mine(n, prev, root) ==
  /\ ~Voting
  /\ WithinBounds(n, prev)
  /\ \E nonce \in Nonces :
       /\ HasWork(NextBlock(prev, root, nonce))
       /\ \A less \in 0..(nonce - 1) : ~HasWork(NextBlock(prev, root, less))
       /\ proposed' = [proposed EXCEPT ![n] = @ \union {NextBlock(prev, root, nonce)}]
       /\ Record(n, BlockId(NextBlock(prev, root, nonce)))
  /\ UNCHANGED <<engine, seen>>

\* Mutant: a remote vote counts for a node that proposed the block.
RemoteVoteFrom(n, b) ==
  /\ Voting
  /\ seen' = [seen EXCEPT ![n] = @ \union {b}]
  /\ \E m \in Nodes \ {n} : b \in proposed[m] /\ Count(n, BlockId(b), m)
  /\ UNCHANGED <<engine, proposed>>

\* onRemoteBlock() of a voting engine: every remote vote is one of the same voter.
RemoteVote(n, b) ==
  /\ Voting
  /\ seen' = [seen EXCEPT ![n] = @ \union {b}]
  /\ Count(n, BlockId(b), Remote)
  /\ UNCHANGED <<engine, proposed>>

\* Mutant: the nonce is parsed and its work not checked.
RemoteWorkUnchecked(n, b) ==
  /\ ~Voting
  /\ b.extra # NotANumber
  /\ seen' = [seen EXCEPT ![n] = @ \union {b}]
  /\ Record(n, BlockId(b))
  /\ UNCHANGED <<engine, proposed>>

\* onRemoteBlock() of proof of work: an "extra" that is no number, or a hash
\* without the zeros, is an error and changes nothing.
RemoteWork(n, b) ==
  /\ ~Voting
  /\ HasWork(b)
  /\ seen' = [seen EXCEPT ![n] = @ \union {b}]
  /\ Record(n, BlockId(b))
  /\ UNCHANGED <<engine, proposed>>

\* isFinal()
IsFinal(n, b) ==
  /\ ~Voting => b.extra # NotANumber
  /\ BlockId(b) \in finalized[n]

Next ==
  \E n \in Nodes :
    \/ \E prev \in Known(n), root \in Roots : ProposeVote(n, prev, root)
    \/ \E prev \in Known(n), root \in Roots : Mine(n, prev, root)
    \/ \E b \in Received(n) : RemoteVote(n, b)
    \/ \E b \in Received(n) : RemoteWork(n, b)

Spec == Init /\ [][Next]_vars

-----------------------------------------------------------------------------
(* Properties *)

\* Every variable has its type.
TypeOK ==
  /\ engine \in Engines
  /\ votes \in [Nodes -> [BlockIds -> SUBSET Voters]]
  /\ finalized \in [Nodes -> SUBSET BlockIds]
  /\ proposed \in [Nodes -> SUBSET Blocks]
  /\ seen \in [Nodes -> SUBSET Blocks]

\* Whichever comes first, the node's own proposal or the block of another, an id
\* is final at a node exactly when the votes it recorded are a quorum.
FinalIffQuorum ==
  Voting => \A n \in Nodes, id \in BlockIds :
              id \in finalized[n] <=> Cardinality(votes[n][id]) >= Quorum

\* An engine records two voters at most, itself and "remote": with a quorum of
\* three or more, as for every f > 0 and for more than two validators, nothing
\* is ever final, however many nodes agree.
NothingFinalAboveTwo ==
  Voting /\ Quorum > 2 => \A n \in Nodes : finalized[n] = {}

\* With a quorum of two a node finalizes only what it proposed a block for and
\* received a block for too.
FinalNeedsBothSides ==
  Voting /\ Quorum = 2 =>
    \A n \in Nodes : \A id \in finalized[n] :
      /\ \E b \in proposed[n] : BlockId(b) = id
      /\ \E b \in Received(n) : BlockId(b) = id

\* Every id a proof-of-work engine holds stands for some block that has the
\* work: nothing gets in unchecked, through mining or from another node.
EveryIdWorked ==
  ~Voting => \A n \in Nodes : \A id \in finalized[n] :
               \E b \in Blocks : BlockId(b) = id /\ HasWork(b)

\* What propose() of proof of work returned, and what onRemoteBlock() accepted,
\* is final for that engine ever after.
MinedIsFinal ==
  ~Voting => \A n \in Nodes : \A b \in proposed[n] \union seen[n] : IsFinal(n, b)
=============================================================================
