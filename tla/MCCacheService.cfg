SPECIFICATION FairSpec
CONSTANTS
  Entities = {"Order", "Report"}
  Params = {"account", "project", "order", "report"}
  Depth = 2
  OwnParams <- MCOwnParams
  ScopeOf <- MCScopeOf
  UniqueKeys <- MCUniqueKeys
  NamedAfter <- MCNamedAfter
  NotGiven = NotGiven
  Procs = {p1, p2}
  Configs = {"self", "dependent"}
  Uses <- MCUses
  Own = {"self"}
  MetaKeys <- MCMetaKeys
  MetaOf <- MCMetaOf
  BaseMeta <- MCBaseMeta
  TrackedMeta <- MCTrackedMeta
  Ttl <- MCTtl
  Grace <- MCGrace
  Buffer = 0
  MaxUpdates = 1
  None = None
INVARIANTS
  OldOnlyByOverlap
PROPERTIES
  EventuallyCurrent
CHECK_DEADLOCK FALSE
