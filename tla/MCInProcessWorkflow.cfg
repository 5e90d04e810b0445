SPECIFICATION FairSpec
CONSTANTS
  Flows = {f1}
  Workflows = {"whole", "partial"}
  NumSteps = 5
  GroupOf <- MCGroupOf
  ParallelGroups = {2}
  ParallelConcurrency = 2
  Registered <- MCRegistered
  Undoable = {1, 2, 3}
  ThrowsSync = {5}
  HasOnError = TRUE
  Timeouts = {TRUE, FALSE}
  MaxExecs = 2
  MaxStops = 1
  None = None
INVARIANTS
  CompensationComplete
  OneLiveExecution
  OutcomeAgrees
PROPERTIES
  Settles
  ImplementsSaga
CHECK_DEADLOCK FALSE
