SPECIFICATION FairSpec
CONSTANTS
  Worker = {w1, w2}
  NoWorker = NoWorker
  MaxTurn = 1
  Starter = {}
  MaxUpdate = 1
  MaxToggle = 1
  MaxPart = 2
  MaxFaults = 1
  Env = {"lost", "refuse", "forbid", "stall", "restart", "window", "burst", "remove"}
CHECK_DEADLOCK FALSE
INVARIANT NoSilentDuplicate
PROPERTY SentIsWhole PostsInOrder RowsSettle
