SPECIFICATION FairSpec
CONSTANTS
  Proc = {p1, p2}
  First = p1
  Byte = {0, 1}
  PIPESIZE = 2
  UINT = 4
  MaxN = 2
  None = None
CHECK_DEADLOCK FALSE
INVARIANTS PipeIntact NoMissedWakeup
PROPERTIES RingIsQueue CallsEnd
