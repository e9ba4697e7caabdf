SPECIFICATION MCSpec
CONSTANTS
  Proc = {p1, p2, p3}
  Block = {b1, b2}
  Val = {v1, v2}
  NoBuf = NoBuf
  MAXOPBLOCKS = 3
  LOGSIZE = 6
  NLOG = 6
  OPBLOCKS = 2
  Writers = {1, 2}
  BSIZE = 2
  NDIRECT = 1
  NSECTOR = 12
  BPB = 1
  OPMAX = 6
  MaxWrite = 3
  MaxWrites = 2
  MaxBoots = 1
  Images <- MCImages
SYMMETRY Symmetry
INVARIANTS Durable Reserved FilesIntact
PROPERTIES AtomicTransactions FileIsBytes
