CONSTANTS
  Readers = {r1, r2}
  NoReader = none
  Capacity = 11
  Lengths <- OneOrTwo
  MaxRecords = 3
SPECIFICATION Spec
INVARIANTS FetchedWhole
CHECK_DEADLOCK FALSE
