\* A crash while the tracker is written.
SPECIFICATION Spec
CONSTANTS
  Ranks <- MC_Ranks
  EpochLength = 2
  Epochs = 2
  TotalSteps = 4
  SaveFreq = 2
  CriticWarmup = 2
  MaxToKeep = 0
  ResumeMode = "auto"
  UseCritic = TRUE
  EsiPossible = TRUE
  MaxStep = 6
  MaxLaunches = 2
  Missing = Missing
  Torn = Torn
INVARIANTS
  AutoResumeSucceeds
CHECK_DEADLOCK FALSE
