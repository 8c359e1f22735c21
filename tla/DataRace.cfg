SPECIFICATION OmpSpec
CONSTANTS
  Alias <- PairAlias
  Decl <- PairDecl
  Indexes <- PairIndexes
  Programs <- StraightPrograms
  OnlyCovered = FALSE
INVARIANTS
  NoDataRace
CHECK_DEADLOCK FALSE
