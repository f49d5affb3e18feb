CONSTANTS
  w = w
  v = v
  Writers = {w}
  MaxSize = 3
  MaxFiles = 3
  EntrySizes = {1, 2}
  MaxEntries = 5
  MaxFaults = 1
  MaxCrashes = 0
SPECIFICATION Spec
INVARIANTS OkMeansWritten
CHECK_DEADLOCK FALSE
