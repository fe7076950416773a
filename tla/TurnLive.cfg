SPECIFICATION FairSpec
CONSTANTS
  Conv = {c1, c2}
  NoConv = NoConv
  MaxTurn = 2
  MaxGen = 2
  MaxRev = 2
  Canceller = {}
  MaxBoot = 0
  Fresh = {}
  Env = {"dies", "stream"}
CHECK_DEADLOCK FALSE
PROPERTY QueuedTurnLeaves ActiveTurnEnds
