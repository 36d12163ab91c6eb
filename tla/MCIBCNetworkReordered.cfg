\* Four workers and two relayers (Window: 4 + 2 - 1) break the round trip: expected to be violated.
SPECIFICATION FairSpec
CONSTANTS
  chainA = chainA
  chainB = chainB
  chainC = chainC
  Chains = {chainA, chainB}
  Ends = {"A", "B"}
  Routes <- OneWay
  Managed <- Nothing
  Relayers = {r1, r2}
  Unconnected = {}
  RouteDrop <- AllReliable
  Window = 5
  MaxSend = 2
PROPERTIES
  SendRecvAck
