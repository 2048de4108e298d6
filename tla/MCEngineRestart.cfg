\* One write, then the process ends and the node is opened again.
SPECIFICATION Spec
CONSTANTS
  Keys = {k1}
  Workers = {w1, w2}
  MEMTABLE_LIMIT = 2
  QUEUE_CAPACITY = 2
  L0_TRIGGER_COUNT = 4
  MaxSeq = 3
  MaxLives = 2
INVARIANT DurableAcrossLives
CHECK_DEADLOCK FALSE
