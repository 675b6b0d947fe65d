SPECIFICATION ParserSpec
CONSTANTS
  Files <- MCFiles
  Statements <- MCStatements
  Depth = 4
INVARIANTS
  OkMeansAllThere
  SyntaxGoverns
  ReservedHonoured
CHECK_DEADLOCK FALSE
