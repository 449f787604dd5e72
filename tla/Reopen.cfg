SPECIFICATION Spec
CONSTANTS
  WalHeights = {9, 10}
  Records = {}
  WalFaults = {}
  MaxSaves = 0
  MaxMishaps = 2
  OutOfReach = OutOfReach
INVARIANTS
  Reopens
CHECK_DEADLOCK FALSE
