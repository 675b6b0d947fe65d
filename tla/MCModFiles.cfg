SPECIFICATION Spec
CONSTANTS
  Jobs <- MCJobs
  Given <- MCGiven
  MaxRuns = 4
  MaxFaults = 2
INVARIANTS
  OkMeansDeclared
  OneLinePerInterruption
PROPERTIES
  HandwrittenUntouched
  DeclarationsStay
CHECK_DEADLOCK FALSE
