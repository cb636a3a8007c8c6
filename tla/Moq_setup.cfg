SPECIFICATION Spec
CONSTANTS
  s1 = s1
  s2 = s2
  Sessions = {s1, s2}
  Addr <- MCAddr
  Tries <- MCTries
  Inputs <- MCInputs
  Outputs = {"audio"}
  Nothing = Nothing
CHECK_DEADLOCK FALSE
INVARIANTS
  InputForwarded
  ClosedSessionsDepart
  StopClosesSessions
  BacklogAwaited
PROPERTIES
  SetupReturns
