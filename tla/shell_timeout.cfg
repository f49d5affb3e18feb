SPECIFICATION WorkspaceSpec
CONSTANTS
  t1 = t1
  t2 = t2
  none = none
  NoTarget = none
  AllowMatch <- MCAllowMatch
  DenyMatch <- MCDenyMatch
  Inputs <- MCInputs
  ToolPolicies <- MCToolPolicies
  WorkspaceConfigs <- MCWorkspaceConfigs
  working_dir <- MCWorkingDir
  Disks <- MCDisks
  Meddling <- MCMeddling
  DEFAULT_TIMEOUT = 2
  MaxElapsed = 3
INVARIANT TimeoutEnforced
CHECK_DEADLOCK FALSE
