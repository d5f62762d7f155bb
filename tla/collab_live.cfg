SPECIFICATION FairSpec
CONSTANTS
  Sessions = {s1, s2}
  Cap = 1
  SnapshotInterval = 1
  Requests = {"update"}
  Faults = {"link", "disconnect"}
  MaxRequests = 2
  MaxCrashes = 0
PROPERTIES ClientsCatchUp BroadcastsFinish SessionsEnd
CHECK_DEADLOCK FALSE
