\* Crashes at every point, up to three launches, two checkpoints kept.
SPECIFICATION Spec
CONSTANTS
  Ranks <- MC_Ranks
  EpochLength = 2
  Epochs = 2
  TotalSteps = 5
  SaveFreq = 2
  CriticWarmup = 2
  MaxToKeep = 2
  ResumeMode = "auto"
  UseCritic = TRUE
  EsiPossible = TRUE
  MaxStep = 7
  MaxLaunches = 3
  Missing = Missing
  Torn = Torn
INVARIANTS
  TrackedIsWhole
  TrackedIsOneMoment
  EachBatchOnce
  LastStepIsSaved
CHECK_DEADLOCK FALSE
