SPECIFICATION FairSpec
CONSTANTS
  Grain = 2
  Capacity = 4
  MaxFrames = 5
  MaxWrite = 5
INVARIANTS
  IInv
  RingHoldsPending
PROPERTIES
  StreamSpec
  CallsReturn
  AcceptedIsSettled
