SPECIFICATION FairSpec
CONSTANTS
  a = a
  b = b
  VMs = {a, b}
  MinThreadCount = 1
  MaxThreadCount = 2
  MaxPool = 2
  VcpuCount <- MCVcpuCount
  ManagedPools = {1}
  AdjustCap = 1
  CooldownSpan = 1
  FleetAware = TRUE
  DryRunMode = TRUE
  MaxExits = 1
INVARIANTS
  TypeOK
  CapHolds
PROPERTY
  TrackedIsClassified
