SPECIFICATION FairSpec
CONSTANTS
  Samples = 5
  BlockSize = 3
INVARIANTS
  ResourcesSafe
  MixIsExclusive
  BlockIsConsecutive
PROPERTIES
  PausedKeepsCursor
  MixReturns
  CallsReturn
