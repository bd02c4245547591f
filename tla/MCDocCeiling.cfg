SPECIFICATION Spec
CONSTANTS
  t1 = t1
  t2 = t2
  r1 = r1
  r2 = r2
  Tasks = {t1, t2}
  Releases = {r1, r2}
  Permits = 1
  Faults = {"cancel"}
  MaxCalls = 3
  MaxGate = 0
INVARIANT
  ParseCeiling
CHECK_DEADLOCK FALSE
