SPECIFICATION Spec
CONSTANTS
  Sessions = {s1, s2}
  Cap = 2
  SnapshotInterval = 2
  Requests = {"update", "get"}
  Faults = {"refused", "dbError", "crash"}
  MaxRequests = 3
  MaxCrashes = 1
SYMMETRY Symmetry
INVARIANTS NoSeqCollision SnapshotsRepeatLog BroadcastIsDurable UnsavedIsReported
PROPERTIES LoadsNewest ImplementsSharedText
CHECK_DEADLOCK FALSE
