CONSTANTS
  Expr <- MCExpr
  Decl <- MCDecl
  Indexes <- MCIndexes
  MaxId = 12
SPECIFICATION TableSpec
INVARIANTS
  TableTypeOK
  OneAliasPerElement
  WalkFindsElements
CHECK_DEADLOCK FALSE
