SPECIFICATION Spec
CONSTANTS
  DpSize = 2
  SpSize = 1
  MiniBatch = 2
  Epochs = 1
  CriticEpochs = 1
  DynamicBsz = {TRUE, FALSE}
  MicroBatch = 1
  MaxTokens = 3
  CriticWarmup = 2
  Filters = TRUE
  Batches <- MCBatches
  MaxSteps = 2
  MaxRelaunches = 1
INVARIANTS CollectivesMatch ShardsInStep GradientOfMiniBatch LogProbsOfRows
