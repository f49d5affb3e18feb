SPECIFICATION Spec
CONSTANTS
  i1 = i1
  i2 = i2
  e1 = e1
  e2 = e2
  NaN = NaN
  Ids <- MCIds
  SCHEMA_VERSION = 1
  Entries = {e1, e2}
  Storable = {e1, e2}
  TornTails = {"part", "unended"}
  MaxOps = 4
  MaxFaults = 1
  MaxCrashes = 2
CHECK_DEADLOCK FALSE
INVARIANTS
  LogMirrorsMap
PROPERTIES
  ImplementsMap
