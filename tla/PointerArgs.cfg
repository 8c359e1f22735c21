CONSTANTS
  Var <- MCVar
  Level <- MCLevel
  Ref <- MCRef
  Statements <- PointerArguments
  Skippable <- NoBranches
SPECIFICATION FootprintSpec
INVARIANTS
  FootprintSound
CHECK_DEADLOCK FALSE
