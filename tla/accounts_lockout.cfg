SPECIFICATION Spec
CONSTANTS
  c1 = c1
  c2 = c2
  free = free
  Calls = {c1, c2}
  Ids = {alice, bob}
  FirstAdmins = {alice, bob}
  FirstLocal = {alice, bob}
  NewEmails = {free}
  Passwords = {p1}
  Changes <- RoleChanges
  Kinds <- OnlyUpdates
  Faults = {}
  NoOne = none
INVARIANTS SomeAdminRemains
CHECK_DEADLOCK FALSE
