SPECIFICATION Spec
CONSTANTS
  u1 = u1
  u2 = u2
  c1 = c1
  c2 = c2
  c3 = c3
  Uuids = {u1}
  Conns = {c1, c2}
  Orphans = {}
  LegacyConns = {c2}
  UuidOf <- OneIdentity
  SentKeys = {"marker"}
  CommandKeys = {"mute"}
  StrCap = 2
  QueueCap = 9
  MaxSources = 2
  None = None
CHECK_DEADLOCK FALSE
INVARIANTS
  TypeOK
  MapsFollowRegistry
  TombstonesLast
  EpochsInOrder
