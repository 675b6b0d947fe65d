SPECIFICATION Spec
CONSTANTS
  Schemas <- MCSchemas
  Structs <- MCStructs
  Foreign <- MCForeign
  Variants <- MCVariants
  Value = {0, 1, 2, 3, 4}
  NoDefault = NoDefault
  None = None
INVARIANTS
  RoundTrip
  LastOccurrenceCounts
CHECK_DEADLOCK FALSE
