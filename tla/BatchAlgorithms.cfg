\* Up to four rows, two or four ranks, four operations or batches in a row.
SPECIFICATION Spec
CONSTANTS
  Lengths <- MC_Lengths
  Parts = {2, 3}
  MaxTokenLen = {3, 5, 9}
  MicroBatchRows <- MC_MicroBatchRows
  SpSizes = {1, 2, 4}
  HeadCounts <- MC_HeadCounts
  Groups <- MC_Groups
  TopP <- MC_TopP
  Batches = {3, 4}
  Meshes <- MC_Meshes
  World = 4
  Levels <- MC_Levels
  Rollouts = 2
  MaxRows = 3
  MaxSteps = 4
INVARIANTS
  PartsAreExact
  LogProbsOfNextTokens
  EstimatesMatch
  RowsStayWhole
  NoLevelStarves
