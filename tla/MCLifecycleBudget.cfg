\* The time budget elapses and nobody presses Ctrl-C.
SPECIFICATION FairSpec
CONSTANTS
  Nodes = {n1, n2}
  Relayers = {r1}
  MaxTraffic = 1
PROPERTIES
  RunCompletionStops
