SPECIFICATION Spec
CONSTANTS
  Conv = {c1}
  NoConv = NoConv
  MaxTurn = 2
  MaxGen = 2
  MaxRev = 2
  Canceller = {}
  MaxBoot = 1
  Fresh = {c1}
  Env = {"schedule", "backfill", "operator", "crash", "timeout", "unreplayable", "external"}
CHECK_DEADLOCK FALSE
INVARIANT CompletedByProvider
PROPERTY ImplementsTurnOrder
