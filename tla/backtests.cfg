SPECIFICATION FairSpec
CONSTANTS
  Backtests = {"b1", "b2"}
  High = {"b1", "b2"}
  Nobody = "nobody"
  MaxFaults = 1
  MaxRestarts = 1
CHECK_DEADLOCK FALSE
INVARIANTS TypeOK 
PROPERTIES   QueueDrains
