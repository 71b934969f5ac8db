SPECIFICATION Spec
CONSTANTS
    Worker = {w1}
    Ping = {p1, p2}
    Window = 1
    ArchiveAfter = 2
    MaxSends <- Once
    MaxTime = 1
PROPERTIES
    StopLosesNothing
