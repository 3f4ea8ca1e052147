SPECIFICATION Spec
CONSTANTS
  NumChannels = 2
  FailLimit = 2
  MaxMsgs = 2
  MaxDiags = 1
  MaxScans = 1
  MaxOutages = 1
  MaxBrownouts = 1
INVARIANTS
  SettledPoseShown
PROPERTIES
  UndisturbedDiagPasses
  NeverBack
