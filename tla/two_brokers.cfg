SPECIFICATION Spec
CONSTANTS
  MaxRestarts = 3
  MaxEdits = 2
  MaxExits = 2
  MaxFaults = 0
  MaxStarts = 5
CHECK_DEADLOCK FALSE
INVARIANTS SingleBroker
