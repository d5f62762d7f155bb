SPECIFICATION Spec
CONSTANTS
  Calls = {c1, c2, c3}
  Kinds = {"upload", "save", "office", "restore", "read", "readVersion", "delete", "adminDelete"}
  Faults = {"database", "storage", "commitLost", "hangUp", "crash", "purge"}
  NoCall = none
SYMMETRY Symmetry
INVARIANTS TypeOK NumbersConsecutive CurrentIsNewest SuccessIsStored OneDeletionSucceeds VersionsHaveObjects NoForgottenObject ReadersFindObjects BlockersGoOn
PROPERTIES ImplementsHistory
CHECK_DEADLOCK FALSE
