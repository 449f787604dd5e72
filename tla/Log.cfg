SPECIFICATION Spec
CONSTANTS
  WalHeights = {9, 10, 13}
  Records <- TwoRecords
  WalFaults = {"set_len", "write_index", "sync", "open", "remove", "write", "short"}
  MaxSaves = 2
  MaxMishaps = 2
  OutOfReach = OutOfReach
INVARIANTS
  TypeOK
  SavedIsLoaded
  IndexHonest
PROPERTIES
  IsDurable
  FilesBounded
CHECK_DEADLOCK FALSE
