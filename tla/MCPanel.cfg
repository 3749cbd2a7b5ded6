SPECIFICATION Spec
CONSTANTS
  Users = {"owner", "operator", "viewer"}
  MaxWrites = 2
  MaxActs = 2
INVARIANTS
  TypeOK
  OwnWritesShown
  NothingIsRefused
  WaitsForAFetch
CHECK_DEADLOCK FALSE
