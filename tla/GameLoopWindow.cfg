\* Three turns of context, the assistant limit alone, in the game of MarioEnv.
SPECIFICATION RolloutSpec
CONSTANTS
  MaxAssistantTurns = 6
  MaxUserTurns = 0
  ContextTurns = 3
  ResponseLength = 2
  MessageTokens = 3
  ReplyLengths = {1}
  StepRewards = {}
  FormatPenalty <- MC_Penalty
  Discount = 2
  NormInAgentLoop = FALSE
  StartLives = {2, 3}
  Moves = {1}
  MaxStep = 3
  MaxEvents = 2
INVARIANTS
  PromptIsLastTurns
  RewardsAligned
  EarnedIsProgress
  PlaysOnlyAlive
