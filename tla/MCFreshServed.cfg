SPECIFICATION Spec
CONSTANTS
  Second = 2
  Configured = 7
  Headers <- Controls
  Steps <- Jumps
  WallStart = 5
  MaxTime = 11
  MaxSteps = 2
  MaxPending = 1
  Nothing = Nothing
INVARIANTS
  ServedWithinGrant
PROPERTY
  RestartsAreCheap
VIEW
  Lives
CHECK_DEADLOCK FALSE
