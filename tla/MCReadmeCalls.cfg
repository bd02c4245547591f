SPECIFICATION Spec
CONSTANTS
  t1 = t1
  t2 = t2
  Relative = Relative
  Unusable = Unusable
  NoHeader = NoHeader
  Unparsable = Unparsable
  Undeclared = Undeclared
  Tasks = {t1, t2}
  Asked <- MCAsked
  Locations <- MCLocations
  Contended = {"cdn"}
  Interval <- MCInterval
  MaxWait = 2
  MaxRedirects = 2
  MaxRetries = 1
  RetryHeaders = {NoHeader, Unparsable, 9}
  LongestPause = 2
  UsualPause = 1
  Limit = 1
  Sizes = {1, 2}
  Statuses = {200, 302, 304, 403, 404, 429}
  Pages <- MCPages
  ServedPages <- MCServedPages
  ErrorBodies <- MCErrorBodies
  Budgets = {0, 1, 5, 12}
INVARIANTS
  ChainBounded
  BudgetIsOwn
  ShowsSomething
  FrameHolds
  OnlyLinksChange
  ErrorsAreMessages
PROPERTIES
  EveryHopPaced
  OwnPauseHonoured
