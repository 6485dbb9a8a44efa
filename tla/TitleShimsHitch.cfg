SPECIFICATION Spec
CONSTANTS
  Thread = {1, 2, 3, 4}
  Initial = 1
  MaxPosts = 4
  Handle = {1, 2}
  Status = {0, 1}
  ClockThread = {1, 2, 3}
  MaxTime = 2
  Folder <- MCFolder
  Batch = 2
  EnvName = {"A", "B", "C", "D"}
  EnvValue = {"x", "y", "long"}
  TooLong = {"long"}
  EnvMax = 3
  Dso = {"one", "two"}
  Finalizing = {"first", "second"}
  MaxRegistered = 3
  MaxDepth = 2
  DisplayModes <- MCDisplayModes
  PlaneDisplays <- MCPlaneDisplays
  MaxPictures = 4
  MaxFlips = 2
  Caller = {"main", "worker"}
  InstanceAnswers = {"vkCmdDraw"}
  MaxPresents = 5
  MaxAsked = 3
  MaxMarks = 1
  IntervalTicks = 12
  HitchMax = 2
INVARIANT HitchIsItsOwn
CHECK_DEADLOCK FALSE
