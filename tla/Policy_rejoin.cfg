\* Ends in a counterexample: README, section 4.
SPECIFICATION Spec
CONSTANTS
  adm = adm
  ann = ann
  bob = bob
  hall = hall
  Uuids = {adm, ann, bob}
  Roles = {"admin", "crew"}
  Nobody = Nobody
  HolderRoles <- MCHolderRoles
  MaxLevel = 2
  SubSpaces = {hall}
  Config <- MCConfig
  Requests <- MCRequests
  ReverbOn = TRUE
  MaxSources = 2
  MaxMessages = 2
  MaxAdmits = 3
  MaxDeparts = 1
  None = None
CHECK_DEADLOCK FALSE
INVARIANTS
  MuteSurvivesRejoin
