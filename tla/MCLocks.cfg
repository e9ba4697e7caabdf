SPECIFICATION MCSpec
CONSTANTS
  Proc = {p1, p2, p3, p4}
  None = None
  numofthread = 3
  passnum = 3
  Caller = {c1, c2}
  Block = {b1, b2}
  Val = {v1}
  NoBuf = NoBuf
INVARIANTS MutualExclusion NoLostWakeup PassingSound
PROPERTIES AllEnd SleepersWoken
