SPECIFICATION FairSpec
CONSTANTS
    Worker = {w1, w2}
    Connected = {w1, w2}
    Token = {t1, t2, t3}
    Device = {d1}
    TTL = 1
    MaxTask = 2
    MaxFaults = 1
    Threshold = 1
    Channels = 2
    MaxLapses = 2
INVARIANTS
    TypeOK
    OneLeader
    OncePerIncident
PROPERTIES
    SilenceReported
    NeverStuck
    KeyIsOwn
