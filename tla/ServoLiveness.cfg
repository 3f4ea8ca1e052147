SPECIFICATION FairSpec
CONSTANTS
  NumChannels = 2
  FailLimit = 2
  MaxMsgs = 2
  MaxDiags = 2
  MaxScans = 0
  MaxOutages = 1
  MaxBrownouts = 0
PROPERTIES
  AcceptedPoseShown
  DiagEnds
  SleepingChipWakes
