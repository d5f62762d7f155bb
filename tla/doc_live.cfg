SPECIFICATION FairSpec
CONSTANTS
  Calls = {c1, c2, c3, c4}
  Kinds = {"upload", "save", "delete"}
  Faults = {"database"}
  NoCall = none
PROPERTIES CallsFinish
CHECK_DEADLOCK FALSE
