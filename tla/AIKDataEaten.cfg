SPECIFICATION ReadSpec
CONSTANTS
  Key = {k1, k2}
  NoKey = NoKey
  AIK_DATA_BUFFER_SIZE = 3
INVARIANT OnlyFirstEntryEaten
