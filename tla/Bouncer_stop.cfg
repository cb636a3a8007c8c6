SPECIFICATION FairBouncerSpec
CONSTANTS
  s1 = s1
  s2 = s2
  Senders = {s1}
  Departers = {"owner", "kick", "orphan"}
  InCap = 1
  OutCap = 1
  None = None
CHECK_DEADLOCK FALSE
INVARIANTS
  StopIsOutboundBarrier
PROPERTIES
  StopIsInboundBarrier
  DepartureCompletes
  NoSendBlocksPastStop
