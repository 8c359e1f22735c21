SPECIFICATION ConstSpec
CONSTANTS
  NoEntity = NoEntity
  Entity <- MCEntity
  Name <- MCName
  Units <- MCUnits
INVARIANTS
  ConstInv
  OutputTyped
PROPERTY
  ConstifyEnds
CHECK_DEADLOCK FALSE
