SPECIFICATION PruneSpec
CONSTANTS
  k1 = k1
  k2 = k2
  k3 = k3
  p1 = p1
  p2 = p2
  Pruners = {p1, p2}
  Keys = {k1, k2, k3}
  Sizes = {1, 2}
  Capacity = 2
  Stuck = {k1}
  Veiled = {k2}
  MaxStores = 1
INVARIANTS
  Fits
PROPERTIES
  OldestFirst
  OnlyWhenOver
CHECK_DEADLOCK FALSE
