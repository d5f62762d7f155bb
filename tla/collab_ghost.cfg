SPECIFICATION Spec
CONSTANTS
  Sessions = {s1, s2}
  Cap = 16
  SnapshotInterval = 2
  Requests = {}
  Faults = {"disconnect"}
  MaxRequests = 0
  MaxCrashes = 0
SYMMETRY Symmetry
INVARIANTS PresenceIsCleared
CHECK_DEADLOCK FALSE
