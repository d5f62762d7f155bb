SPECIFICATION Spec
CONSTANTS
  Sessions = {s1, s2}
  Cap = 2
  SnapshotInterval = 2
  Requests = {"update", "presence", "cursor"}
  Faults = {"link", "upgrade", "disconnect"}
  MaxRequests = 2
  MaxCrashes = 0
SYMMETRY Symmetry
INVARIANTS TypeOK UpdatesFollowInit NoUpdateForgotten
CHECK_DEADLOCK FALSE
