SPECIFICATION FairSpec
CONSTANTS
  Procs = {p1, p2}
  Jobs = {k1}
  MaxRequests = 2
  Timed = {1}
  Attempts = 2
  MaxStops = 1
  None = None
INVARIANTS
  CallersAreKnown
PROPERTIES
  Answered
CHECK_DEADLOCK FALSE
