CONSTANTS
  A = A
  B = B
  C = C
  L = L
  E = E
  W = W
  T = T
  NoParent = NoParent
  Controller = L
  EventConsumer = E
  WorkflowConsumer = W
  Token = T
  Services <- Classes
  Arity <- MCArity
  Wirings <- MCWirings
  Extensions = {e1}
  StartupHooks = 1
  ReadyHooks = 1
  ShutdownHooks = 2
  Budget = 3
SPECIFICATION AppSpec
INVARIANTS
  ContainerIsSound
  Orderly
PROPERTIES
  EveryCallEnds
CHECK_DEADLOCK FALSE
