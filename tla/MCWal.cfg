\* Three sectors of three cells, a staging buffer of two sectors, records of
\* one, two and five cells, and two writers in turn.
SPECIFICATION Spec
CONSTANTS
  SECTOR_SIZE = 3
  STAGING_SIZE = 6
  Sizes = {1, 2, 5}
  MaxSectors = 3
  MaxSeq = 3
  MaxEpoch = 2
  MaxFailures = 1
INVARIANTS TypeOK AckedReadBackOffBoundary CrashLeavesPrefixOffBoundary StagingMirrorsFile
CHECK_DEADLOCK FALSE
