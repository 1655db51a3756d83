CONSTANTS
  IpLens = {1, 2}
  Bytes = {0, 1}
  PrefixLens = {0, 1}
  MaxEntries = 5
SPECIFICATION Spec
INVARIANTS
  SortedInSpecOrder
  NoDistinctEntryLost
CHECK_DEADLOCK FALSE
