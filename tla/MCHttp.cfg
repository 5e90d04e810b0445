CONSTANTS
  Gg = Gg
  Gx = Gx
  Ga = Ga
  Ig = Ig
  Ix = Ix
  Ia = Ia
  S1 = S1
  S2 = S2
  S3 = S3
  S4 = S4
  E1 = E1
  E2 = E2
  Execs = {E1, E2}
  Groups <- MCGroups
  Handled <- MCHandled
  Undoable = {S1, S3}
  Global <- MCGlobal
  Extra <- MCExtra
  Given <- MCGiven
  Paths = {p}
  RouteKinds <- MCRouteKinds
  MaxCalls = 4
  MaxAwaits = 1
  MaxAgain = 1
SPECIFICATION HttpSpec
INVARIANT GuardsHold
INVARIANT AnswersAreComplete
PROPERTY DirectImplementsSaga
CHECK_DEADLOCK FALSE
