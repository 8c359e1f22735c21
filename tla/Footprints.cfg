CONSTANTS
  Var <- MCVar
  Level <- MCLevel
  Ref <- MCRef
  Statements <- StraightLine
  Skippable <- Conditional
SPECIFICATION FootprintSpec
INVARIANTS
  FootprintTypeOK
  PointsToKnown
  FootprintSound
  NamesMeet
CHECK_DEADLOCK FALSE
