SPECIFICATION Spec
CONSTANTS
  Procs = {1, 2}
  Ids <- MCIds
  Entries <- MCFewEntries
  Configured = {"v1", "v2"}
  Comparable = {"v1", "v2", "old"}
  SlotIds <- MCOwnSlots
  Limits = {1}
  MaxDrops = 0
INVARIANTS
  ReadyMirrors
