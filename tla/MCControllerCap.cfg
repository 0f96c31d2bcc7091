SPECIFICATION Spec
CONSTANTS
  a = a
  b = b
  VMs = {a, b}
  MinThreadCount = 1
  MaxThreadCount = 3
  MaxPool = 3
  VcpuCount <- MCWideVcpuCount
  ManagedPools = {1, 2}
  AdjustCap = 1
  CooldownSpan = 0
  FleetAware = TRUE
  DryRunMode = FALSE
  MaxExits = 1
SYMMETRY MCSymmetry
INVARIANT
  CapCoversEveryResize
