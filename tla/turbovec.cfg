SPECIFICATION Spec
CONSTANTS
  Procs = {1, 2}
  Ids <- MCIds
  Entries <- MCFewEntries
  Configured = {"v1", "v2"}
  Comparable = {"v1", "v2", "old"}
  SlotIds <- MCSlotIds
  Limits = {1, 2}
  MaxDrops = 1
INVARIANTS
  MirrorsWithoutRaces
PROPERTIES
  SearchMissesNothing
  WorkspaceRespected
  ScoredByOwnVector
