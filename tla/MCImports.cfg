SPECIFICATION Spec
CONSTANTS
  Files <- MCFiles
  Root = "p"
  Trees <- MCTrees
  MaxDepth = 4
INVARIANTS
  CopyPerImport
  ModulesKept
  FailsForItsFiles
  NotFoundIsNotThere
CHECK_DEADLOCK FALSE
