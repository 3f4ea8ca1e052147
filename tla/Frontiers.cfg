SPECIFICATION Spec
CONSTANTS
  Width = 3
  Height = 3
  Grids <- MCGrids
  min_size = 2
  min_clear = 1
INVARIANTS TypeOK EmptyMeansDone
PROPERTY ImplementsClusters
CHECK_DEADLOCK FALSE
