SPECIFICATION Spec
CONSTANTS
  N = 7
  VarintMax = 3
  FixedSizes <- MCFixedSizes
  Lens <- MCLens
  Offsets <- MCOffsets
  Word = 16
  MaxDepth = 4
INVARIANTS
  DepthBound
  OkConsumesAll
PROPERTIES
  OverrunIsFatal
  MovesBackOnlyByWrapping
  Termination
CHECK_DEADLOCK FALSE
