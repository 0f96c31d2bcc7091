SPECIFICATION FairSpec
CONSTANTS
  NumSockets = 2
  Domains <- MCDomains
  Pids = {1, 2}
  MaxEvents = 3
INVARIANTS
  TypeOK
  ReportsServers
PROPERTIES
  CacheIsPruned
  InventoryConverges
  BacklogIsSpared
