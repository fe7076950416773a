CONSTANTS
    Schedule = {s1}
    Draft = {d1}
    OncePolicy = {"skip"}
    CronPolicy = {"skip", "latest", "all"}
    Horizon = 3
    MaxEdit = 2
    MaxDue = 2
    MaxFaults = 1
    Env = {"crash", "target", "zone", "dead"}
SPECIFICATION FairSpec
CHECK_DEADLOCK FALSE
INVARIANT NoneMissed
PROPERTY FiresAtCursor DueSettles
