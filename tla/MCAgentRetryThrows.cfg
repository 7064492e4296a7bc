CONSTANTS
  Prompts <- MCPrompts
  MaxRetries = 1
  HandlersArePrompt = TRUE
  PromptsTakeTurns = TRUE
  CompactionIsFast = TRUE
  RunsOutlastTimers = TRUE
  SwitchesAreClean = TRUE
  ThrowsMeetRetries = TRUE
  MaxCommands = 0
SPECIFICATION FairSpec
INVARIANT RetryIsCaught
CHECK_DEADLOCK FALSE
