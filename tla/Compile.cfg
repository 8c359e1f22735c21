SPECIFICATION OrderSpec
CONSTANTS
  Alias <- LineAlias
  Decl <- LineDecl
  Indexes <- LineIndexes
  Programs <- CompilePrograms
INVARIANTS
  GroupsPartition
  OrderKept
  LinksBetweenGroups
  WrittenLinksCovered
  LoopWritesCovered
  OrderTypeOK
  GroupsAreNodes
  ConflictsWrittenInOrder
  DeclarationsFirst
PROPERTIES
  ReductionKeepsPaths
  OptimizationEnds
CHECK_DEADLOCK FALSE
