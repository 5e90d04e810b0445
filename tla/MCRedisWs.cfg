SPECIFICATION RedisFairSpec
CONSTANTS
  Topics = {t1, t2}
  Sockets = {s1, s2}
  MaxAttempts = 2
  MaxFaults = 3
  MaxStops = 1
INVARIANTS
  NeverDeaf
  NoOrphans
PROPERTIES
  Hears
CHECK_DEADLOCK FALSE
