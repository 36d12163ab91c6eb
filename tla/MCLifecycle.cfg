\* Two nodes, a relayer and two messages, stop() at any moment.
SPECIFICATION FairSpec
CONSTANTS
  Nodes = {n1, n2}
  Relayers = {r1}
  MaxTraffic = 2
INVARIANTS
  QuietAfterDrain
  RefusedInOrder
  NothingVanishes
PROPERTIES
  StopTerminates
  SentIsHandled
