SPECIFICATION FairSpec
CONSTANTS
    Task = {t1, t2}
    TargetLists <- LiveFirst
    MaxFailures = 3
    Cooldown = 3
    Threshold = 2
    Recovery = 2
    Successes = 2
    Timeout = 1
    Backoff = 1
    None = None
INVARIANTS
    TypeOK
    BackInTime
    JudgedByProbes
PROPERTIES
    Resumes
