SPECIFICATION Spec
CONSTANTS
  Circle = 4
  Places <- TwoPlaces
  Dist <- MCDist
  Bearing <- MCBearing
  LatErr <- MCLatErr
  Commands <- SomeCommands
  Origin = 0
  MaxLinVel = 1
  MaxYawRate = 1
  PositionHold = TRUE
  Deadband = 1
  FaceTol = 0
  HoldSpeed = 1
  StandVx = 0
  HeadingHold = TRUE
  HeadingLock = FALSE
  LockYaw = 0
  ErrClamp = 1
  StationKeep = TRUE
  LateralHold = TRUE
  TurnThresh = 0
  LatKp = 1
  LatMax = 1
  SteerKp = 1
  SteerKi = 1
  ILim = 1
  SteerMax = 2
  MaxDelta = 1
  SlowErr = 2
  MinScale = 2
  FullScale = 2
  Decimation = 2
  HasWarmup = TRUE
  StandYaw = 0
  MaxMissed = 2
INVARIANTS
  NoRawTarget
PROPERTIES
  SmoothSteering
  StandsWhenCommandsStop
  WalksWhenCommanded
