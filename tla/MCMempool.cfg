\* The traffic thread and the thread of a node.
SPECIFICATION Spec
CONSTANTS
  Threads = {traffic, node}
  Transactions = {tx1, tx2}
INVARIANTS
  AddedIsPending
CHECK_DEADLOCK FALSE
