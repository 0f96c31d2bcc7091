SPECIFICATION FairSpec
CONSTANTS
  U32Max = 7
  MinThreadCount = 1
  MaxThreadCount = 3
  MaxPool = 4
  ScaleUpThreshold = 90
  ScaleUpMinGain = 5
  ScaleDownRevertDrop = 5
  MaxScaleDownStep = 2
  BlockScaleUpWhenThrottled = TRUE
  ScaleDownSustain = 2
  ScaleValidationDelay = 1
  ScaleValidationDelayPerThread = 0
  PostRevertUpGrace = 1
  PostRevertUpRecovery = 2
  PostRevertUpBackoffMax = 7
  ScaleDownBackoffMax = 5
  Utils <- MCUtils
  Rates <- MCRates
INVARIANTS
  TypeOK
  MeasuringExcludesHold
  HoldAccounting
  UpWaitsOutHold
  DownIsSustained
  BackoffDoubles
  RevertRestores
  DownCarriesLoad
PROPERTY
  EveryHoldEnds
