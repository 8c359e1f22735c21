SPECIFICATION Spec
CONSTANTS
  Thread <- Team
  Master = "master"
  DepthMax = 2
  MaxCalls = 1
  MaxStmts = 2
  MaxTasks = 4
  MaxStack = 4
INVARIANTS
  NestBounded
  DescendantsDone
  DepthInv
PROPERTIES
  Returns
CHECK_DEADLOCK FALSE
