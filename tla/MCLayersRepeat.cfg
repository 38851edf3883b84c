SPECIFICATION MCSpec
CONSTANTS
  Parameters <- MCParameters
  Batches <- FullBatches
  MayRepeat = TRUE
  Labels <- MCLabels
  Settings <- MCSettings
  Sources <- MCSources
  BatchSize = 2
  Cases <- MCCases
  MaxLayers = 2
CHECK_DEADLOCK FALSE
INVARIANT LossOfThisBatch
