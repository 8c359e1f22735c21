SPECIFICATION BuildSpec
CONSTANTS
  Alias <- LineAlias
  Decl <- LineDecl
  Indexes <- LineIndexes
  Programs <- BuildPrograms
INVARIANTS
  ConflictsOrdered
  LinksJustified
  OverlapsOrdered
  BuildInv
CHECK_DEADLOCK FALSE
