SPECIFICATION Spec
CONSTANTS
  eboot = eboot
  param = param
  libc = libc
  library = library
  Others <- MCOthers
  Image = eboot
  Metadata = param
  Signed <- MCSigned
  Runtime = libc
  Carrying <- MCCarrying
  MaxBuilds = 3
INVARIANTS
  PartialNeverLooksComplete
