SPECIFICATION Spec
CONSTANTS
  Sessions = {s1, s2}
  Cap = 16
  SnapshotInterval = 2
  Requests = {"update"}
  Faults = {"dbError"}
  MaxRequests = 1
  MaxCrashes = 0
SYMMETRY Symmetry
INVARIANTS RestartRecoversRoom
CHECK_DEADLOCK FALSE
