CONSTANTS
  ls = ls
  rm = rm
  none = none
  NoTarget = none
  AllowMatch <- MCAllowMatch
  DenyMatch <- MCDenyMatch
  Registry <- MCRegistry
  Calls <- MCCalls
  Permissions <- MCPermissions
  SessionConfig <- MCSession
  Tasks <- MCTasks
  MaxToolRounds = 3
  MaxTasks = 1
  MaxCalls = 1
  MaxAsked = 3
  EndlessCalls = {}
  MaxEndless = 0
SPECIFICATION Spec
INVARIANT ToolResultHasAntecedent
