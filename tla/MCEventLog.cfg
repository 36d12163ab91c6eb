SPECIFICATION Spec
CONSTANTS
  A = A
  B = B
  Chains = {A, B}
  Routes <- OneWay
  Senders = {main, traffic}
  RelayerCount = 2
  Dropping = {1}
  Free = Free
  NoJob = NoJob
  MaxSend = 1
  MaxTx = 1
  MaxTime = 1
INVARIANTS
  HandlersLive
  SameOrder
  CountsAgree
  RelayerStatesTrue
  TxOrdered
PROPERTIES
  ImplementsTrail
  Recorded
