SPECIFICATION FairSpec
CONSTANTS
    Task = {t1, t2}
    TargetLists <- DeadFirst
    MaxFailures = 3
    Cooldown = 3
    Threshold = 2
    Recovery = 2
    Successes = 2
    Timeout = 1
    Backoff = 1
    None = None
PROPERTIES
    Resumes
