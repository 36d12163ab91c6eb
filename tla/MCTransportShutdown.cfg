\* The shutdown of an idle pool can hang: expected to be violated.
SPECIFICATION FairSpec
CONSTANTS
  Workers = {w1, w2}
  Senders = {s1}
  Messages = {m1}
  Addresses = {a1}
  Latency = 0
  DropRate = 0
  MaxTime = 1
  NoTask = NoTask
PROPERTIES
  ShutdownTerminates
