SPECIFICATION TableSpec
CONSTANTS
  p1 = p1
  p2 = p2
  p3 = p3
  p4 = p4
  Pointer <- MCPointer
  NoPointer = NoPointer
  Bytes = {1, 2}
  Route = {"native"}
  Capacity = 3
  Hash <- MCHash
  MaxEvents = 1
SYMMETRY Symmetry
INVARIANTS
  TableInv
  StatsTrue
PROPERTIES
  SetSpec
