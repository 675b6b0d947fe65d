SPECIFICATION Spec
CONSTANTS
  Schemas <- MCExample
  Structs <- MCStructs
  Foreign <- MCForeign
  Variants <- MCVariants
  Value = {0, 1, 2, 3, 4}
  NoDefault = NoDefault
  None = None
INVARIANT
  ExactSameMessage
CHECK_DEADLOCK FALSE
