SPECIFICATION Spec
CONSTANTS
  c1 = c1
  c2 = c2
  annKicked = annKicked
  crewKicked = crewKicked
  Conns = {c1}
  Keys = {annKicked, crewKicked}
  Concerned <- MCConcerned
  Minutes = {0, 1}
  ChanCap = 1
  MaxOps = 2
  MaxTime = 2
  Nothing = Nothing
CHECK_DEADLOCK FALSE
INVARIANTS
  GateReflectsCache
PROPERTIES
  KickedByNews
  KickedGoesOut
  ExpiredKickReleased
  StopReturns
