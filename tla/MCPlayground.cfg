SPECIFICATION Spec
CONSTANTS
  MaxRuns = 3
  MaxDeltas = 2
INVARIANTS
  TypeOK
  ShowsTheLastRun
  SpinnerHasALoop
PROPERTY RunsEnd
CHECK_DEADLOCK FALSE
