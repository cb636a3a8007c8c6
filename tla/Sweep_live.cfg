SPECIFICATION FairSweepSpec
CONSTANTS
  u1 = u1
  c1 = c1
  c2 = c2
  o1 = o1
  o2 = o2
  Uuids = {u1}
  Conns = {c1}
  Orphans = {o1}
  LegacyConns = {}
  UuidOf <- OneIdentity
  SentKeys = {"marker"}
  CommandKeys = {"mute"}
  Marker = "marker"
  StrCap = 2
  QueueCap = 2
  MaxSources = 2
  None = None
CHECK_DEADLOCK FALSE
PROPERTIES
  ResidueSwept
