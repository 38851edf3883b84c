SPECIFICATION MCSpec
CONSTANTS
  Parameters <- MCParameters
  Batches <- MCBatches
  MayRepeat = FALSE
  Labels <- MCLabels
  Settings <- MCSettings
  Sources <- MCSources
  BatchSize = 2
  Cases <- MCCases
  MaxLayers = 4
\* A net that has all its layers grows no more, and passes are counted
CHECK_DEADLOCK FALSE
INVARIANTS
  MatchesStable
  HardestMined
  RefusedIffWrong
  WholeGradient
  DetectionsBest
  SavedExact
PROPERTY GradientsGoHome
