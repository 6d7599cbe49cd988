CONSTANTS
  Readers = {r1, r2}
  NoReader = none
  Capacity = 11
  Lengths <- OneOrTwo
  MaxRecords = 3
SPECIFICATION FairSpec
INVARIANTS TypeOK FetchesRecords
PROPERTIES QueueSpec Drained
CHECK_DEADLOCK FALSE
