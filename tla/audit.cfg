CONSTANTS
  w = w
  v = v
  Writers = {w}
  MaxSize = 3
  MaxFiles = 3
  EntrySizes = {1, 2, 4}
  MaxEntries = 5
  MaxFaults = 2
  MaxCrashes = 1
SPECIFICATION Spec
INVARIANTS FilesInOrder OnlyOldestDropped DiskBounded
CHECK_DEADLOCK FALSE
