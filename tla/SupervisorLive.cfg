SPECIFICATION FairSpec
CONSTANTS
  Slot = {s1}
  User = {u1, u2}
  MaxActive = 1
  MaxCalls = 1
  MaxFaults = 2
  Lost = {}
  Env = {"closeFail", "dies", "bootFail", "shutdown"}
CHECK_DEADLOCK FALSE
INVARIANT LiveWorkSpared
PROPERTY EnsureAnswers LostRuntimeIsFound ShutdownEnds
