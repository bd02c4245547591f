SPECIFICATION Spec
CONSTANTS
  t1 = t1
  t2 = t2
  Tasks = {t1, t2}
  Versions <- MCVersions
  Overlong <- MCOverlong
  FirstIndexes <- MCFirstIndexes
  Requests <- MCRequests
  MaxLimit = 3
  Faults <- MCFaults
  IndexTtl = 1
  MetadataTtl = 1
  StatusTtl = 2
  NegativeTtl = 1
  MaxClock = 2
  MaxChanges = 1
  MaxCalls = 2
SYMMETRY TaskSymmetry
PROPERTIES
  PicksInTime
  AnswersCohere
  BuildFlagHonest
  ErrorsHonest
CHECK_DEADLOCK FALSE
