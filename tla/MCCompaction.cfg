\* Three keys, compaction at every second flush, two compactions.  A
\* block holds at most two entries.
SPECIFICATION Spec
CONSTANTS
  TARGET_BLOCK_SIZE = 3
  hash64 <- MCHash64
  SALTS <- MCSalts
  LowWidth = 3
  RotWidth = 2
  BITS_PER_KEY = 3
  MaxKey = 3
  L0_TRIGGER_COUNT = 2
  Memtables <- MCMemtables
  MaxVersions = 2
  MaxTables = 4
INVARIANTS TypeOK LookupIsLatest L1IsPartitioned FilesHoldLatest
CHECK_DEADLOCK FALSE
