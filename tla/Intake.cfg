SPECIFICATION FairSpec
CHECK_DEADLOCK FALSE
CONSTANTS
  N = 2
  PageSize = 1
  Blank = {1}
  Scopes = {"thread", "parent"}
  InThread = 4
  InParent = 3
  Env = {"crash", "disconnect", "http", "forbidden", "internal", "refused", "lease", "edit", "remove"}
INVARIANT NoneSkipped BufferedInOrder
PROPERTY MessagesAreAnswered
