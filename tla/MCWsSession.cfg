SPECIFICATION SessionSpec
CONSTANTS
  MaxSockets = 2
  Rooms = {"r1"}
  Topics <- MCTopics
  MaxReconnectAttempts = 2
  Budget = 4
INVARIANTS
  ConnectedIsUsable
  ServerIsSound
PROPERTIES
  DisconnectIsFinal
  RoomsJoined
CHECK_DEADLOCK FALSE
