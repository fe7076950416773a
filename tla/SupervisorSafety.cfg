SPECIFICATION Spec
CONSTANTS
  Slot = {s1, s2}
  User = {u1, u2}
  MaxActive = 1
  MaxCalls = 1
  MaxFaults = 2
  Lost = {}
  Env = {"closeFail", "dies", "bootFail", "probeFail", "retire", "shutdown"}
SYMMETRY Symmetry
CHECK_DEADLOCK FALSE
INVARIANT AppServersBounded OneAppServer CleanShutdown
