SPECIFICATION FairSpec
CONSTANTS
  MaxRestarts = 3
  MaxEdits = 2
  MaxExits = 2
  MaxFaults = 1
  MaxStarts = 5
CHECK_DEADLOCK FALSE
INVARIANTS TypeOK  CrashLoopBounded
PROPERTIES TakeTurns StopIsObeyed KeepsItsBroker
