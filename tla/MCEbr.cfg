\* One retiring thread and one reader; bags of one node, so that defer
\* overflows; two guards of a slot at a time.  Liveness: no symmetry.
SPECIFICATION FairSpec
CONSTANTS
  Threads = {w, r1}
  Retirers = {w}
  MaxNodes = 3
  MAX_THREADS = 2
  BAG_CAPACITY = 1
  MaxGuards = 2
INVARIANTS TypeOK
PROPERTIES ImplementsGracePeriod RetiredIsFreed
CHECK_DEADLOCK FALSE
