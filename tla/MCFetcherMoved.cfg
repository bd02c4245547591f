SPECIFICATION FairSpec
CONSTANTS
  t1 = t1
  t2 = t2
  Tasks = {t1, t2}
  Grants = {1}
  NegativeTtl = 1
  MaxRetries = 1
  Store = TRUE
  Persistent = TRUE
  Faults = {"lost", "busy", "bogus", "cancel", "forget", "move"}
  MaxClock = 1
  MaxRev = 1
  MaxGen = 1
  MaxCalls = 2
  MaxTheirs = 0
PROPERTIES
  RevalidationSound
  CallsEnd
CHECK_DEADLOCK FALSE
