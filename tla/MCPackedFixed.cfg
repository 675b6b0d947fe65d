SPECIFICATION Spec
CONSTANTS
  Byte <- MCByte
  Width = 2
  Vecs <- MCVecs
  Chunks <- MCChunks
  Indices <- MCIndices
  Stray = Stray
  Panic = Panic
  None = None
INVARIANT
  SizeAnnounced
PROPERTY
  ImplementsFixedItems
CHECK_DEADLOCK FALSE
