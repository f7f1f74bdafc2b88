SPECIFICATION FairSpec
CONSTANTS
  CallIds = {c1, c2}
  ToolCap = 1
  MaxTurns = 4
  Budget = 4
  KeepTurns = 2
  MaxSteps = 1
  MaxCalls = 2
  MaxCrashes = 1
  MaxFails = 1
CHECK_DEADLOCK FALSE
INVARIANTS
  ResultsFindTheirCall HistoryHolds SavedWhenIdle TrimKeepsLatest
PROPERTIES
  TurnsFinish
