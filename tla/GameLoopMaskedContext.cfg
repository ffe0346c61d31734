\* Two turns of context: the mask accumulates over replies.
SPECIFICATION Spec
CONSTANTS
  MaxAssistantTurns = 6
  MaxUserTurns = 0
  ContextTurns = 2
  ResponseLength = 2
  MessageTokens = 3
  ReplyLengths <- MC_ReplyLengths
  StepRewards <- MC_StepRewards
  FormatPenalty <- MC_Penalty
  Discount = 2
  NormInAgentLoop = FALSE
INVARIANT
  MaskedTokensAreGenerated
