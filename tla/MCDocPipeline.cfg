SPECIFICATION FairSpec
CONSTANTS
  t1 = t1
  t2 = t2
  r1 = r1
  r2 = r2
  Tasks = {t1, t2}
  Releases = {r1, r2}
  Permits = 1
  Faults = {"fetch", "parse", "write", "cancel", "evict", "forget", "restart", "prune", "read", "others"}
  MaxCalls = 3
  MaxGate = 1
INVARIANTS
  NoNeedlessParse
PROPERTY
  CallsEnd
CHECK_DEADLOCK FALSE
