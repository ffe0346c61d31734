\* The presets' configuration in small: one turn of context, equal limits.
SPECIFICATION FairSpec
CONSTANTS
  MaxAssistantTurns = 8
  MaxUserTurns = 8
  ContextTurns = 1
  ResponseLength = 2
  MessageTokens = 3
  ReplyLengths <- MC_ReplyLengths
  StepRewards <- MC_StepRewards
  FormatPenalty <- MC_Penalty
  Discount = 2
  NormInAgentLoop = FALSE
INVARIANTS
  ReturnsIncludeTrimmedTail
  ResponseIsOwnReply
PROPERTIES
  RolloutEnds
