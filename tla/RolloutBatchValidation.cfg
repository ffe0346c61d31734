\* A validation batch that has to be padded for the workers.
SPECIFICATION Spec
CONSTANTS
  Modes <- MC_Validate
  Estimators <- MC_Estimators
  Prompts = 3
  Repeats = 1
  Workers = 2
  WorldSize = 2
  Rewards <- MC_Rewards
  CriticValue = 0
  MaxTurns = 2
  MaxRows = 8
INVARIANTS
  ValidationExpands
