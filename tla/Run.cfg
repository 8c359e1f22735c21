SPECIFICATION OmpSpec
CONSTANTS
  Alias <- PairAlias
  Decl <- PairDecl
  Indexes <- PairIndexes
  Programs <- RunPrograms
  OnlyCovered = TRUE
INVARIANTS
  OmpTypeOK
  NothingLost
PROPERTIES
  ImplementsOrder
  Finishes
CHECK_DEADLOCK FALSE
