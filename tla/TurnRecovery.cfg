SPECIFICATION Spec
CONSTANTS
  Conv = {c1, c2}
  NoConv = NoConv
  MaxTurn = 2
  MaxGen = 4
  MaxRev = 2
  Canceller = {}
  MaxBoot = 0
  Fresh = {}
  Env = {"systemError", "reload", "bootFail", "clear"}
CHECK_DEADLOCK FALSE
INVARIANT IInv
