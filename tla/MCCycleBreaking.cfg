SPECIFICATION Spec
CONSTANTS
  N = 4
  Graphs <- MCGraphs
  Schemas <- MCSchemas
INVARIANTS
  EmittedAreComponents
  EmittedAfterWhatTheyEmbed
  EachOnce
  StaleComponentsSuffice
PROPERTIES
  ImplementsBreakCycles
  Terminates
CHECK_DEADLOCK FALSE
