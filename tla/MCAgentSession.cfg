CONSTANTS
  Prompts <- MCPrompts
  MaxRetries = 1
  HandlersArePrompt = TRUE
  PromptsTakeTurns = TRUE
  CompactionIsFast = TRUE
  RunsOutlastTimers = TRUE
  SwitchesAreClean = TRUE
  ThrowsMeetRetries = FALSE
  MaxCommands = 1
SPECIFICATION FairSpec
INVARIANTS
  RetriesBounded
  RetryUnderWay
  ContextFollowsFile
  NothingSaidCrosses
PROPERTIES
  SessionSettles
CHECK_DEADLOCK FALSE
