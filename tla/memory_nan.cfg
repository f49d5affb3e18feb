SPECIFICATION Spec
CONSTANTS
  i1 = i1
  i2 = i2
  e1 = e1
  e2 = e2
  NaN = NaN
  Ids <- MCIds
  SCHEMA_VERSION = 1
  Entries = {e1, NaN}
  Storable = {e1}
  TornTails = {}
  MaxOps = 1
  MaxFaults = 0
  MaxCrashes = 1
CHECK_DEADLOCK FALSE
INVARIANTS
  SafeToReopen
