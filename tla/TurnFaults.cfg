SPECIFICATION Spec
CONSTANTS
  Conv = {c1}
  NoConv = NoConv
  MaxTurn = 2
  MaxGen = 2
  MaxRev = 2
  Canceller = {u1}
  MaxBoot = 0
  Fresh = {c1}
  Env = {"unhealthy", "dbFault", "refuse", "identity", "unknownEffect", "unreadable", "compact"}
CHECK_DEADLOCK FALSE
INVARIANT NoOrphanProviderTurn ActiveTurnIsDriven ActiveOnReadyLease NoLostCancel OneProviderTurn 
PROPERTY ImplementsTurnOrder
