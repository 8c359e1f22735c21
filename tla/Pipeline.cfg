SPECIFICATION Spec
CONSTANTS
  Path <- Paths
  files <- TwoFiles
  outputFile <- Prefixed
INVARIANT
  DocumentedChain
CHECK_DEADLOCK FALSE
