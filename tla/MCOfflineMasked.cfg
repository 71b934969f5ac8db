CONSTANTS
    Worker = {w1}
    Token = {t1, t2}
    Device = {d1}
    TTL = 2
    Connected = {w1}
    MaxTask = 2
    MaxFaults = 0
    Threshold = 3
    Channels = 2
    MaxLapses = 1
SPECIFICATION FairSpec
PROPERTY SilenceTold
