\* Two keys, two workers, two lives of three writes: a memtable and one write
\* to the next log.  Liveness: no symmetry.
SPECIFICATION FairSpec
CONSTANTS
  Keys = {k1, k2}
  Workers = {w1, w2}
  MEMTABLE_LIMIT = 2
  QUEUE_CAPACITY = 2
  L0_TRIGGER_COUNT = 2
  MaxSeq = 3
  MaxLives = 2
INVARIANTS TypeOK AckedInFilesUnlessCut GetFindsNewestLayer
PROPERTIES FrozenIsFlushed
CHECK_DEADLOCK FALSE
