CONSTANTS
  t1 = t1
  t2 = t2
  none = none
  NoTarget = none
  AllowMatch <- MCAllowMatch
  DenyMatch <- MCDenyMatch
  StartsWith <- MCStartsWith
  GlobPatterns = {"git", "push"}
  PolicyWords = {"allowed", "deny", "alow"}
  DefaultPolicies = {"allow", "ask"}
  EntryKeys <- MCEntryKeys
  Calls <- MCCalls
  Registries <- MCRegistries
  ProviderSections = {"ollama", "nvidia"}
  RuleLists <- MCRuleLists
  Fallbacks <- MCFallbacks
  Tasks <- MCTasks
  Contracts <- MCContracts
  Plans <- MCPlans
  Events = {"e", "f"}
  MaxEvents = 3
  MaxEdits = 2
  StartupFiles <- MCFiles
  Environments <- MCEnvironments
  Sensitive = {"api_token"}
  Inputs <- MCInputs
  ToolPolicies <- MCToolPolicies
  WorkspaceConfigs <- MCWorkspaceConfigs
  working_dir <- MCWorkingDir
  Disks <- MCDisks
  Meddling <- MCMeddling
  DEFAULT_TIMEOUT = 3
  MaxElapsed = 4
SPECIFICATION Spec
INVARIANTS
  AllowIsExplicit
  RoutesToUsable
  BoundaryKeepsDataLocal
  DefaultDenialsReach
  TamperingShows
  PatternsMean
  ChunksCover
  AnswersSurviveReplay
  LocalUnlessEnabled
  RedactionReaches
  TouchesOnlyAllowed
  ResultTellsWhatHappened
PROPERTIES
  PatternEditsAreMonotone
  UnusedProviderIrrelevant
  OmissionFailsClosed
  SearchRanks
  ShownReloads
CHECK_DEADLOCK FALSE
