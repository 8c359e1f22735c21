SPECIFICATION Spec
CONSTANTS
  NbFunctions = 3
  Param <- TwoParams
  Codes <- PlainFiles
INVARIANTS
  AnalyzerInv
  ReadOnlyNeverWritten
  ReadOnlyFound
CHECK_DEADLOCK FALSE
