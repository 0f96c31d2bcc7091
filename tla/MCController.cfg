SPECIFICATION Spec
CONSTANTS
  a = a
  b = b
  VMs = {a, b}
  MinThreadCount = 1
  MaxThreadCount = 3
  MaxPool = 3
  VcpuCount <- MCVcpuCount
  ManagedPools = {1, 2}
  AdjustCap = 0
  CooldownSpan = 0
  FleetAware = TRUE
  DryRunMode = FALSE
  MaxExits = 1
SYMMETRY MCSymmetry
INVARIANTS
  OwnershipAgrees
  ScaledAreManaged
  NeverOvershoots
PROPERTY
  KeepsPromise
