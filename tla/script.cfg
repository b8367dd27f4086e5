SPECIFICATION ScriptSpec
CONSTANTS
  MaxShards = 3
  MaxEntries = 7
  MaxRandom = 7
INVARIANTS ReadsReachedShards FailsOnlyOnSize
