SPECIFICATION Spec
CONSTANTS
  c1 = c1
  c2 = c2
  Users = {owner, guest}
  Owner = owner
  Admins = {}
  Calls = {c1, c2}
  Old = old
  NoOne = none
  Kinds <- SocketAndRevoke
  Sizes = {2}
  MaxUploadBytes = 2
  Faults = {}
INVARIANTS OpenSocketsEntitled
CHECK_DEADLOCK FALSE
