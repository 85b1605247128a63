SPECIFICATION LongSpec
CONSTANTS
  Backtests = {"b1"}
  High = {}
  Nobody = "nobody"
  MaxFaults = 0
  MaxRestarts = 0
CHECK_DEADLOCK FALSE
PROPERTIES StopEnds
