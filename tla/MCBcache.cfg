SPECIFICATION FairSpec
CONSTANTS
  Proc = {p1, p2}
  Block = {0, 1, 2}
  Data = {0, 1}
  NBUF = 2
  Logged = {0}
  BadBlock = {2}
  None = None
CHECK_DEADLOCK FALSE
INVARIANTS OneBufferPerBlock CacheSound
PROPERTIES CallsReturn
