SPECIFICATION Spec
CONSTANTS
  MaxShards = 3
  MaxEntries = 7
PROPERTY ImplementsShardReads
