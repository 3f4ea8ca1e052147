SPECIFICATION Spec
CONSTANTS
  Methods <- MCMethods
  MaxStream = 6
  MaxFaults = 1
  MaxBuffer = 6
  MaxStalled = 1
PROPERTIES StaysOnFrames HearsAgain NobodyHangs
CHECK_DEADLOCK FALSE
