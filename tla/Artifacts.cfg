\* One Turn with an attachment and an image call that is delivered twice.
SPECIFICATION FairSpec
CONSTANTS
    Turns = {t1}
    Author = t1
    Calls = {c1, c2}
    t1 = t1
    c1 = c1
    c2 = c2
    MaxFaults = 2
    Env = {"crash", "download", "archive", "tamper", "image", "timeout", "unlink", "storage"}
INVARIANT InputKept ImageKept
PROPERTY NothingStays
CHECK_DEADLOCK FALSE
