\* Three nodes that propose a block each, up to two heights, for each engine.
SPECIFICATION Spec
CONSTANTS
  Nodes = {n1, n2, n3}
  Engines <- Kinds
  easyRoot = easyRoot
  hardRoot = hardRoot
  Roots = {easyRoot, hardRoot}
  Genesis = genesis
  MaxHeight = 2
  MaxProposals = 1
  MaxNonce = 2
  Zeros <- SomeZeros
  NotANumber = NotANumber
  Foreign <- Strays
INVARIANTS
  FinalIffQuorum
  NothingFinalAboveTwo
  FinalNeedsBothSides
  EveryIdWorked
  MinedIsFinal
\* Everything may have been proposed and received.
CHECK_DEADLOCK FALSE
