SPECIFICATION FairSpec
CONSTANTS
  Procs = {p1, p2}
  k1 = k1
  f1 = f1
  f2 = f2
  Keyed = {k1}
  Unkeyed = {f1, f2}
  MaxRequests = 2
  MaxFlows = 1
  Timed = {1}
  Groups <- TwoPlaces
  Unhandled = {"d"}
  Undoable = {"a", "b"}
  Slow = {"b"}
  Attempts = 2
  MaxStops = 1
  None = None
INVARIANTS
  FailedIsCompensated
  CompletionRuns
  CallersAreTracked
PROPERTIES
  Answered
CHECK_DEADLOCK FALSE
