SPECIFICATION Spec
CONSTANTS
  Equities = {86, 90, 100}
  SoftPct = 5
  HardPct = 9
  KillPct = 12
  Entries = {"e1"}
  Exits = {"x1"}
  Leveraged = {"e1", "x1"}
  Paper = FALSE
  MaxTicks = 2
  MaxFaults = 1
  MaxCrashes = 1
CHECK_DEADLOCK FALSE
INVARIANTS TypeOK MemoryCatchesUp
PROPERTIES CommitsInTurn PeakNeverFalls AdmittedOnItsTick 
