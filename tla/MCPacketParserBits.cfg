CONSTANTS
  Packets <- MCPackets
  AnyLength <- MCAnyLength
  Memory = 200
SPECIFICATION Spec
INVARIANT CommentedBits
CHECK_DEADLOCK FALSE
