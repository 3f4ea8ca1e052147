SPECIFICATION FairSpec
CONSTANTS
  Depth = 2
  MaxPolicyStarts = 2
  MaxLegStarts = 3
  MaxWebStarts = 1
INVARIANTS
  HandshakeOpen
PROPERTIES
  FeedbackStaysCommanded
  LoopCloses
