SPECIFICATION FairSpec
CONSTANTS
  Handlers = {h1, h2}
  MaxMessages = 2
  MaxPlain = 1
  MaxAttempts = 2
  Slots = 2
  MaxSize = 1
  MaxStarts = 2
  MaxLeaves = 1
  None = None
INVARIANTS
  StartedMeansSubscribed
  OncePerMark
PROPERTY EverythingEnds
CHECK_DEADLOCK FALSE
