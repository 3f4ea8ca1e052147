SPECIFICATION NodeSpec
CONSTANTS
  MaxCalls = 3
  gyro_samples = 1
  accel_samples = 2
  MaxSamples = 4
INVARIANTS
  NoReplyMissed
  DiagSuccessIsHeard
  OneWindow
CHECK_DEADLOCK FALSE
