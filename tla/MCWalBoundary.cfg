\* Records of one cell in sectors of two: the second record fills the sector.
SPECIFICATION Spec
CONSTANTS
  SECTOR_SIZE = 2
  STAGING_SIZE = 4
  Sizes = {1}
  MaxSectors = 2
  MaxSeq = 3
  MaxEpoch = 1
  MaxFailures = 0
INVARIANT AckedReadBack
CHECK_DEADLOCK FALSE
