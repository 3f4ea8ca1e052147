SPECIFICATION WebSpec
CONSTANTS
  Pages = {laptop, phone}
  MaxPosts = 3
PROPERTY PoseSettles
CHECK_DEADLOCK FALSE
