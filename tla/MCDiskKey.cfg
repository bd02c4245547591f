SPECIFICATION Spec
CONSTANTS
  Nothing = Nothing
  small = small
  large = large
  p1 = p1
  p2 = p2
  a = a
  b = b
  Processes = {p1, p2}
  Crews <- AnyCrew
  LayoutOf <- MCLayoutOf
  Artifacts = {small, large}
  Parts <- MCParts
  Found = {"cut", "alien"}
  Faults = {"fail", "stuck", "crash", "prune"}
INVARIANTS
  NoWrongAnswer
  LoadsAtomically
PROPERTIES
  ImplementsCell
  StoresLand
VIEW Linkage
