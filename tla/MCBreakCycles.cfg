SPECIFICATION BreakSpec
CONSTANTS
  A = A
  B = B
  C = C
  Msgs <- MCMsgs
  Schemas <- AtMostFourRenamed
INVARIANTS
  Sized
  OnlyCyclesAreBoxed
  DecidedHoldsEarlierOnly
  InfiniteSchemasRejected
  AcyclicSchemasAccepted
CHECK_DEADLOCK FALSE
