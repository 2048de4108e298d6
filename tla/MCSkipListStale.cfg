\* One thread: two inserts of one key and a get.
SPECIFICATION Spec
CONSTANTS
  Threads = {t1}
  MaxKey = 1
  MAX_HEIGHT = 2
  MaxNodes = 2
INVARIANT GetIsFresh
