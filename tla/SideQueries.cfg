SPECIFICATION FairSpec
CONSTANTS
    Query = {q1, q2}
    User = {u1, u2}
    MaxConcurrency = 2
    MaxGen = 2
    MaxFaults = 1
    Env = {"crash", "die", "lost", "refuse", "cleanup", "storage", "timeout"}
CHECK_DEADLOCK FALSE
INVARIANT ForksAreTended EvictedIsIdle
PROPERTY QueriesEnd
