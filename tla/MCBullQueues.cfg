SPECIFICATION Spec
CONSTANTS
  p1 = p1
  p2 = p2
  k1 = k1
  i1 = i1
  cron = cron
  every = every
  badCron = badCron
  none = none
  None = none
  Procs <- MCProcs
  Keys <- MCKeys
  Ids <- MCIds
  Options <- MCOptions
  BadOptions <- MCBadOptions
  Attempts = 2
  MaxWorkers = 3
  Budgets <- MCBudgets
INVARIANTS
  ReceiptsAreSound
  WorkersAreOwned
  BookIsTrue
CHECK_DEADLOCK FALSE
