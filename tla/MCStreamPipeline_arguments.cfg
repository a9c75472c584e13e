SPECIFICATION FairSpec
CONSTANTS
  Surfaces <- MCResponsesOnly
  Frames <- MCFrames
  MaxFrames = 4
  MaxCaptured = 1
INVARIANTS
  ArgumentsReachTheirCall
CHECK_DEADLOCK FALSE
