SPECIFICATION BuildSpec
CONSTANTS
  p1 = p1
  p2 = p2
  Parses = {p1, p2}
  Documents <- MCDocumentsAndForeign
  MaxItems = 6
  Queries <- MCQueries
  MaxSuggestions = 2
  Slots = 32
  SpanMax = 39
  AnyArrival = FALSE
INVARIANTS
  SameIndex
  Complete
  SpansHold
  LookupAgrees
CHECK_DEADLOCK FALSE
