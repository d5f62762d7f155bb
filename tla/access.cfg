SPECIFICATION Spec
CONSTANTS
  c1 = c1
  c2 = c2
  Users = {owner, guest}
  Owner = owner
  Admins = {guest}
  Calls = {c1, c2}
  Old = old
  NoOne = none
  Kinds <- TakeAndAny
  Sizes = {2, 3}
  MaxUploadBytes = 2
  Faults = {"database", "answerLost", "storage", "crash", "expiry"}
INVARIANTS TypeOK Justified RolesToldAreHeld AuditFollowsEffects WholeBodies
PROPERTIES ImplementsPolicy
CHECK_DEADLOCK FALSE
