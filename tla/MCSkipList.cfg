\* Two threads, two keys, three nodes, towers of one or two levels.
SPECIFICATION FairSpec
CONSTANTS
  Threads = {t1, t2}
  MaxKey = 2
  MAX_HEIGHT = 2
  MaxNodes = 3
INVARIANTS TypeOK LevelsAreSortedChains GetFindsLinked
PROPERTIES InsertEnds
