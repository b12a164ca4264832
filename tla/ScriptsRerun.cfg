SPECIFICATION ScriptsSpec
CONSTANTS
  MaxScripts = 2
  MaxRecreated = 0
INVARIANTS
  NoSecondPipeline
CHECK_DEADLOCK FALSE
