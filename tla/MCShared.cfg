SPECIFICATION SharedSpec
CONSTANTS
  MaxFlights = 4
  Callers = {c1, c2, c3, c4}
  ErrorTtl = 2
  SyncThrows = TRUE
  MaxForgets = 2
  NoFlight = NoFlight
  Budgets <- LogBudgets
  FlushAt = 2
  MaxBuffer = 2
  MaxSize = 3
  Keep = 1
  Breaker = 2
  MaxEmissions = 3
  EventKeys = {k1, k2}
  ProcessingDelay = 1
  MaxDelay = 1
  NoKey = NoKey
INVARIANTS
  HerdBound
  JoinsRunning
  LinesAreKept
  PendingIsKnown
PROPERTIES
  EverythingMovesOn
CHECK_DEADLOCK FALSE
