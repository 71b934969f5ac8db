SPECIFICATION Spec
CONSTANTS
    Cmd = {c1}
    Kind = {"lost_mode"}
    Source = {"owner"}
    Short = 1
    Medium = 1
    Long = 3
    Retention = 1
    MaxBatch = 1
    Flushers = {"commands"}
    MaxLate = 0
    MaxTime = 4
    MaxCrashes = 0
    MaxLost = 0
INVARIANTS
    AtMostOnce
