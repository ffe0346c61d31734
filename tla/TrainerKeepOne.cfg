\* max_actor_ckpt_to_keep = 1: rotation before writing.
SPECIFICATION Spec
CONSTANTS
  Ranks <- MC_Ranks
  EpochLength = 2
  Epochs = 2
  TotalSteps = 4
  SaveFreq = 2
  CriticWarmup = 2
  MaxToKeep = 1
  ResumeMode = "auto"
  UseCritic = TRUE
  EsiPossible = TRUE
  MaxStep = 6
  MaxLaunches = 2
  Missing = Missing
  Torn = Torn
INVARIANTS
  TrackedIsWhole
CHECK_DEADLOCK FALSE
