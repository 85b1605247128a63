SPECIFICATION FairSpec
CONSTANTS
  Keys = {"k1", "k2"}
  Values = {"a", "b"}
  Absent = "none"
  Initially = {"a", "none"}
  Watchers = {"report", "silent", "squash"}
  MaxWrites = 2
  MaxLost = 1
CHECK_DEADLOCK FALSE
INVARIANTS TypeOK HeardIsTold
PROPERTIES CallsChain HearsTheLatest
