\* One route over two competing relayers, one of them dropping; the receiving end
\* is bound and unbound.  Window: four workers and two relayers, less one.
SPECIFICATION FairSpec
CONSTANTS
  chainA = chainA
  chainB = chainB
  chainC = chainC
  Chains = {chainA, chainB}
  Ends = {"A", "B"}
  Routes <- OneWay
  Managed <- Receiving
  Relayers = {r1, r2}
  Unconnected = {}
  RouteDrop <- OneReliable
  Window = 5
  MaxSend = 2
INVARIANTS
  AcceptedInOrder
  AcksBounded
  NothingLost
PROPERTIES
  ImplementsService
  RefusedForCause
  RoundTrip
