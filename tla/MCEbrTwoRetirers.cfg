\* Two threads that both read and retire; bags never overflow.
SPECIFICATION Spec
CONSTANTS
  Threads = {w1, w2}
  Retirers = {w1, w2}
  MaxNodes = 2
  MAX_THREADS = 2
  BAG_CAPACITY = 3
  MaxGuards = 2
SYMMETRY Symmetry
INVARIANTS NoUseAfterFree
CHECK_DEADLOCK FALSE
