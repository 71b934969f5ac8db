SPECIFICATION PartSpec
CONSTANTS
    Cmd = {c1}
    Cmds = {c2, c3}
    Kind = {"alarm", "capture", "wipe", "unlock"}
    Source = {"owner", "whatsapp"}
    Short = 1
    Medium = 1
    Long = 3
    Retention = 1
    MaxBatch = 1
    Flushers = {"commands", "heartbeat"}
    MaxLate = 1
    MaxTime = 4
    MaxCrashes = 1
    MaxLost = 0
INVARIANTS
    TypeOK
    AtMostOnce
    KeptApart
    HonestExecuted
PROPERTIES
    OutcomeFinal
    RunsInsideWindow
    KeepsPromise
SYMMETRY
    Swaps
