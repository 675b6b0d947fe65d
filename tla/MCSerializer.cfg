SPECIFICATION Spec
CONSTANTS
  Base = 4
  VarintMax = 10
  Messages <- MCMessages
  Depth <- MCDepth
  Roots <- MCRoots
  Caps <- MCCaps
INVARIANTS
  ChunksEndWhereAnnounced
  SizeIsExact
  SizeCheckSuffices
  RefusedOnlyWhenTooSmall
CHECK_DEADLOCK FALSE
