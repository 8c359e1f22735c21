SPECIFICATION PrepSpec
CONSTANTS
  Sources <- MCSources
  Oracles <- MCOracles
  functionsToIgnore = {"g"}
  functionsToParse = {}
  mainName = "main"
INVARIANTS
  
  SequentialKept
  ReadyForTasks
CHECK_DEADLOCK FALSE
