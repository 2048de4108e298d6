SPECIFICATION Spec
CONSTANTS
  Threads = {t1, t2}
  Keys = {k1, k2}
  Hash <- MCHash
  Capacity = 2
  MaxEntries = 3
SYMMETRY Symmetry
INVARIANTS TypeOK DuplicateOnlyOverTombstone OnlyRemoveTakesInUse OwnedOnce ProbesMissNothing
CHECK_DEADLOCK FALSE
