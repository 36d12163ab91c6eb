\* Three consumers and a poller compete for four items.
SPECIFICATION FairSpec
CONSTANTS
  Consumers = {c1, c2, c3}
  Items = {i1, i2, i3, i4}
INVARIANTS
  NoLostWakeup
  FIFO
  DrainedBeforeDone
PROPERTIES
  ConsumersLeave
  ItemsLeave
