\* Two sources share a receiving end: expected to be violated.
SPECIFICATION Spec
CONSTANTS
  chainA = chainA
  chainB = chainB
  chainC = chainC
  Chains = {chainA, chainB, chainC}
  Ends = {"A", "B"}
  Routes <- TwoSources
  Managed <- Nothing
  Relayers = {r1}
  Unconnected = {}
  RouteDrop <- AllReliable
  Window = 1
  MaxSend = 2
PROPERTIES
  RefusedOnlyEarly
