CONSTANTS
  ls = ls
  rm = rm
  none = none
  NoTarget = none
  AllowMatch <- MCAllowMatch
  DenyMatch <- MCDenyMatch
  Registry <- MCRegistry
  Calls <- MCCalls
  Permissions <- MCPermissions
  SessionConfig <- MCSession
  Tasks <- MCTasks
  MaxToolRounds = 3
  MaxTasks = 2
  MaxCalls = 2
  MaxAsked = 3
  EndlessCalls <- MCEndlessCalls
  MaxEndless = 4
SPECIFICATION FairSpec
INVARIANTS
  IndInv
  ExecutedOnlyIfPermitted
  NoPromptAfterAllowAll
  CallsRunOnceInOrder
  EveryCallAnsweredOnce
  AuditTellsWhatRan
PROPERTIES
  ImplementsToolGate
  TaskReturns
