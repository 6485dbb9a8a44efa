SPECIFICATION Spec
CONSTANTS
  Keys = 2
  Directions = {2}
  Triggers = {}
  FirstRepeat = 2
  NextRepeat = 1
  MaxDepth = 2
PROPERTIES
  ReleasesAreReal
