SPECIFICATION FairSpec
CONSTANTS
  Surfaces <- AllSurfaces
  Frames <- MCFrames
  MaxFrames = 4
  MaxCaptured = 1
INVARIANTS
  TranscriptWellFormed
  CompletedOnce
PROPERTIES
  StreamEnds
CHECK_DEADLOCK FALSE
