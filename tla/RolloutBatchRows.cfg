\* Two prompts, two rollouts of each, up to five rows and one copy.
SPECIFICATION Spec
CONSTANTS
  Modes <- MC_TrainOrValidate
  Estimators <- MC_Estimators
  Prompts = 2
  Repeats = 2
  Workers = 2
  WorldSize = 2
  Rewards <- MC_Rewards
  CriticValue = 0
  MaxTurns = 2
  MaxRows = 5
INVARIANTS
  RowsKeepTheirPrompt
  EveryTurnOnce
  AdvantageOfRollout
  ActorBatchIsUseful
