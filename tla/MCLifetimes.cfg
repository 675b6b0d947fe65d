SPECIFICATION TypesSpec
CONSTANTS
  Files <- MCFiles
  Sees <- MCSees
  Messages <- MCMessages
  FileOf <- MCFileOf
  Nested <- MCNested
  Protos <- MCProtos
INVARIANTS
  DeclaredAsMentioned
  UsedAsDeclared
  LifetimeMeansBorrowed
CHECK_DEADLOCK FALSE
