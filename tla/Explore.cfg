SPECIFICATION Spec
CONSTANTS
  Places <- MCPlaces
  Home = 0
  Seen <- MCSeen
  Reveals <- MCReveals
  blacklist_radius = 2
  MaxGoals = 5
INVARIANTS TypeOK FailsOnce
PROPERTIES Ends QuietAfterExit
CHECK_DEADLOCK FALSE
