SPECIFICATION CodecSpec
CONSTANTS
  Group = 2
  Word = 5
  Long = 9
  Foreign <- MCForeign
  Tails <- MCTails
INVARIANTS
  ReadAsCast
  DecodesModulo
CHECK_DEADLOCK FALSE
