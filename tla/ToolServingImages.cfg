\* Answers with several images, against what ToolResponse says of them.
SPECIFICATION ServingSpec
CONSTANTS
  ResponseLength = 7
  MaxAssistantTurns = 0
  MaxUserTurns = 0
  MaxParallelCalls = 1
  Interacts = FALSE
  HasProcessor = TRUE
  ImageCounts = {1, 2}
  MaxReply = 2
  MaxCalls = 1
  TP = 1
  LoadLora = FALSE
  Colocated = TRUE
  MaxRpc = 14
INVARIANTS
  EveryImageHasAPlace
CHECK_DEADLOCK FALSE
