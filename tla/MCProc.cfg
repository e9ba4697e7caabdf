SPECIFICATION Spec
CONSTANTS
  NPROC = 4
  CPU = {c1, c2}
  NPAGE = 6
  Workloads = {{"fork", "exit", "wait", "kill", "close"}, {"clone", "exit", "wait", "close"}, {"fork", "clone", "exit"}}
  KillPids = {2}
  MaxPid = 4
  MaxThread = 1
  NoCpu = NoCpu
SYMMETRY Symmetry
INVARIANTS RunningOnce KernelStacks ParentAlive WaiterWoken ProcAccounted
