SPECIFICATION GainSpec
CONSTANTS
  U32Max = 4
  MinThreadCount = 1
  MaxThreadCount = 2
  MaxPool = 2
  ScaleUpThreshold = 90
  ScaleUpMinGain = 5
  ScaleDownRevertDrop = 5
  MaxScaleDownStep = 0
  BlockScaleUpWhenThrottled = FALSE
  ScaleDownSustain = 1
  ScaleValidationDelay = 0
  ScaleValidationDelayPerThread = 1
  PostRevertUpGrace = 1
  PostRevertUpRecovery = 0
  PostRevertUpBackoffMax = 4
  ScaleDownBackoffMax = 0
  Utils <- MCUtils
  Rates <- MCRates
INVARIANT
  RetriedUpsGained
