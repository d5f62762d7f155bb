SPECIFICATION Spec
CONSTANTS
  Calls = {c1, c2, c3}
  Kinds = {"upload", "save"}
  Faults = {"commitLost"}
  NoCall = none
SYMMETRY Symmetry
INVARIANTS VersionsDownloadable
CHECK_DEADLOCK FALSE
