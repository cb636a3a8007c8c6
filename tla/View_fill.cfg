SPECIFICATION Spec
CONSTANTS
  ann = ann
  hall = hall
  Sources = {ann}
  Me = me
  SubSpaces = {hall}
  SubSpacesOf <- MCSubSpacesOf
  MyOptions <- MCMyOptions
  PendingMax = 2
  MaxOps = 5
  None = None
CHECK_DEADLOCK FALSE
INVARIANTS
  WriterAgrees
  AttributesComplete
  NoGhosts
  SubSpaceClosed
  OwnPolicyKnown
