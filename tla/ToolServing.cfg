SPECIFICATION ServingSpec
CONSTANTS
  ResponseLength = 7
  MaxAssistantTurns = 0
  MaxUserTurns = 0
  MaxParallelCalls = 2
  Interacts = TRUE
  HasProcessor = TRUE
  ImageCounts = {1, 2}
  MaxReply = 2
  MaxCalls = 3
  TP = 2
  LoadLora = TRUE
  Colocated = TRUE
  MaxRpc = 14
INVARIANTS
  ResponseMatchesMask AnswersInCallOrder InstancesReleased ImagesHavePlaces
  AnswersOfTheCall RanksInStep
PROPERTIES ToolRolloutEnds OnlyRefusedStayOpen HangsOnlyOnStopped
CHECK_DEADLOCK FALSE
