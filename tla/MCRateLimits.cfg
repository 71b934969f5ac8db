SPECIFICATION Spec
CONSTANTS
    Worker = {w1, w2}
    Minute = minute
    Quarter = quarter
    Limiter = {minute, quarter}
    Most <- MCMost
    Window <- MCWindow
    Keep = 3
    MemoryMost = 0
    MaxTime = 4
    None = None
INVARIANTS
    EveryLimitHolds
CHECK_DEADLOCK FALSE
