SPECIFICATION Spec
CONSTANTS
  c1 = c1
  c2 = c2
  free = free
  Calls = {c1, c2}
  Ids = {alice, bob}
  FirstAdmins = {alice}
  FirstLocal = {alice, bob}
  NewEmails = {free}
  Passwords = {p1, p2}
  Changes <- AnyChange
  Kinds <- EveryKind
  Faults = {"database", "answerLost", "storage", "crash", "expiry"}
  NoOne = none
SYMMETRY Symmetry
INVARIANTS TypeOK OneAccountPerIdentity EffectsAuthorised AvatarsExist AvatarsAccounted AuditFollowsEffects
PROPERTIES ImplementsAccountPolicy LastAdminStays SessionsEndByTheirOwners
CHECK_DEADLOCK FALSE
