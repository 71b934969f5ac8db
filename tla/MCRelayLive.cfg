SPECIFICATION FairSpec
CONSTANTS
    Cmd = {c1}
    Kind = {"capture", "wipe"}
    Source = {"sentinel", "owner"}
    Short = 1
    Medium = 1
    Long = 3
    Retention = 1
    MaxBatch = 1
    Flushers = {"commands", "heartbeat"}
    MaxLate = 1
    MaxTime = 2
    MaxCrashes = 1
    MaxLost = 0
PROPERTIES
    UnexpiringSettles
