SPECIFICATION FairSpec
CONSTANTS
  Keys = {k1, k2}
  MaxEmissions = 2
  MaxHandlers = 2
  MaxStops = 1
  Delays = {2}
  TTL = 2
  Throws = {2}
  None = None
INVARIANTS
  DelayedIsCancellable
PROPERTIES
  ImplementsRequest
  Answered
CHECK_DEADLOCK FALSE
