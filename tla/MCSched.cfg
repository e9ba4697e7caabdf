SPECIFICATION FairSpec
CONSTANTS
  CPU = {c1, c2}
  NPROC = 2
  max = 3
  TOTAL_MAX_TICKETS = 2
  INT_MAX = 7
  Tickets <- MCTickets
  MaxCalls = 2
  None = None
INVARIANTS RunsOnce PassesSound
PROPERTIES NobodyStarves
