SPECIFICATION Spec
CONSTANTS
  t1 = t1
  t2 = t2
  Tasks = {t1, t2}
  Grants = {1, 2}
  NegativeTtl = 1
  MaxRetries = 0
  Store = TRUE
  Persistent = TRUE
  Faults = {"evict", "diskfail", "restart", "remove", "refused", "shed", "cancel", "others"}
  MaxClock = 1
  MaxRev = 2
  MaxGen = 0
  MaxCalls = 3
  MaxTheirs = 1
SYMMETRY TaskSymmetry
VIEW Ahead
INVARIANTS
  NoNeedlessRequest
  AbsenceIsBrief
PROPERTIES
  AnswerJustified
  NeverGoesBack
CHECK_DEADLOCK FALSE
