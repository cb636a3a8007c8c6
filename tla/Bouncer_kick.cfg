\* Ends in a counterexample: README, section 4.
SPECIFICATION FairBouncerSpec
CONSTANTS
  s1 = s1
  s2 = s2
  Senders = {s1}
  Departers = {"owner", "kick"}
  InCap = 1
  OutCap = 1
  None = None
CHECK_DEADLOCK FALSE
PROPERTIES
  KickedDeparts
