SPECIFICATION PinnedSpec
CONSTANTS
  a = a
  VMs = {a}
  MinThreadCount = 1
  MaxThreadCount = 2
  MaxPool = 2
  VcpuCount <- MCVcpuCount
  ManagedPools = {1, 2}
  AdjustCap = 0
  CooldownSpan = 0
  FleetAware = FALSE
  DryRunMode = FALSE
  MaxExits = 1
INVARIANT
  PinnedIsLeftAlone
