\* Two workers race for three messages: one that overtakes, one it may overtake
\* and one it may not.
SPECIFICATION FairSpec
CONSTANTS
  Workers = {w1, w2}
  Senders = {s1}
  Messages = {m1, m2, m3}
  Addresses = {a1}
  Latency = 1
  DropRate = 30
  MaxTime = 2
  NoTask = NoTask
INVARIANTS
  CountersExact
  DrainMeansDelivered
  SafeDelivery
  FewOvertaken
  NoLostWakeup
PROPERTIES
  NoEarlyDelivery
  ImplementsNetwork
  DrainTerminates
  DeliversEverything
