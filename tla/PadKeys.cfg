SPECIFICATION FairSpec
CONSTANTS
  Keys = 2
  Directions = {2}
  Triggers = {1}
  FirstRepeat = 2
  NextRepeat = 1
  MaxDepth = 2
INVARIANTS
  KeysAgree
PROPERTIES
  ClearReleasesAll
  RepeatsAreSpaced
  KeysFollow
