CONSTANTS
    Intent = {i1, i2}
    Command = {"new", "resume", "fork", "archive", "rename", "compact", "websearch", "clear", "set"}
    MaxRev = 4
    MaxFaults = 2
    Env = {"crash", "lost", "identity", "commit", "unknown", "monitor", "turn", "delete"}
    none = none
SPECIFICATION FairSpec
CHECK_DEADLOCK FALSE
INVARIANT DriftIsBarred AnswersAreTrue
PROPERTY AnswersStand CommandsAreAnswered CompactionReleases
