SPECIFICATION Spec
CONSTANTS
    CPU = {c0, c1}
    Cpu0 = c0
    NPROC = 2
    None = None
    Calls <- MCCalls
    Ticks = 1
    Victims = {1}
INVARIANTS InterruptsSound NoMissedWakeup
