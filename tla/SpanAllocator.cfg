SPECIFICATION Spec
CONSTANTS
  a1 = a1
  a2 = a2
  t1 = t1
  t2 = t2
  Address <- TwoAddresses
  Thread <- TwoThreads
  NoAddress = NoAddress
  Junk = Junk
  Sizes <- SomeSizes
  SizeMax = 7
  Threshold = 2
  Header = 1
  Page = 2
  CacheSlots = 2
  CacheSpanLimit = 4
  CacheBytesLimit = 8
  TableRoom = 2
SYMMETRY Symmetry
INVARIANTS
  SpansSafe
  ContentsKept
  RecordsTrue
