\* Ends in a counterexample: README, section 4.
SPECIFICATION FairSpec
CONSTANTS
  u1 = u1
  u2 = u2
  c1 = c1
  c2 = c2
  c3 = c3
  Uuids = {u1}
  Conns = {c1}
  Orphans = {}
  LegacyConns = {}
  UuidOf <- OneIdentity
  SentKeys = {"marker"}
  CommandKeys = {}
  StrCap = 1
  QueueCap = 9
  MaxSources = 1
  None = None
CHECK_DEADLOCK FALSE
PROPERTIES EncoderFreed
