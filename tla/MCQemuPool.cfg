SPECIFICATION FairSpec
CONSTANTS
  MaxId = 3
  Key <- MCKey
  VqCount = 3
  MaxTarget = 3
  MaxFaults = 2
  MaxMeddling = 1
INVARIANTS
  TypeOK
  EveryQueueServed
  EndsAsPromised
  SuccessSpreads
  OneFaultIsClean
PROPERTY
  CallsEnd
