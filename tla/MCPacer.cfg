SPECIFICATION FairSpec
CONSTANTS
  t1 = t1
  t2 = t2
  Tasks = {t1, t2}
  Interval = 2
  MaxWait = 3
  Horizon = 7
  Backoffs = {3}
  MaxClock = 6
  MaxRequests = 3
INVARIANTS
  SlotsSpaced
  BudgetKept
PROPERTIES
  ClaimsAfterPause
  ImplementsRateLimit
  EverySlotServed
  ReserveReturns
CHECK_DEADLOCK FALSE
