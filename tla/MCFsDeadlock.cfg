SPECIFICATION Spec
CONSTANTS
  Proc = {p1, p2}
  Name = {"a", "b"}
  NINODES = 3
  NBLOCKS = 3
  NFILE = 1
  NOFILE = 2
  Calls = {"create", "unlink"}
  MaxCalls = 3
  Paths <- MCPaths
  None = None
SYMMETRY Symmetry
CHECK_DEADLOCK FALSE
INVARIANTS NoCircularWait
