SPECIFICATION Spec
CONSTANTS
  Nothing = Nothing
  small = small
  large = large
  p1 = p1
  p2 = p2
  a = a
  b = b
  Processes = {p1, p2}
  Crews <- OneProcess
  LayoutOf <- MCLayoutOf
  Artifacts = {small, large}
  Parts <- MCParts
  Found = {"whole"}
  Faults = {}
INVARIANT
  PathWhole
