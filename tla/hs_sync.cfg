CONSTANTS
  v1 = v1
  v2 = v2
  b1 = b1
  b2 = b2
  c1 = c1
  c2 = c2
  p0 = p0
  pM = pM
  None = None
  Partial = Partial
  BootVersion = v1
  BootBinary = b1
  Versions = {v1, v2}
  Binaries = {b1, b2}
  Configs = {c1}
  Plans = {p0}
  MitmPlans = {}
  Crashing = {}
  Faults = {"exit", "spawn"}
  Overlap = TRUE
  ReuseVersions = FALSE
  StartPairs <- MCStartPairs
  Release <- MCRelease
  Network = TRUE
  MaxBoots = 2
  MaxBacklog = 2
SPECIFICATION HostFairSpec
CHECK_DEADLOCK FALSE
INVARIANTS
  HostTypeOK
  SyncedIsCommitted
  OverlapRunsActive
  UpgradeReportTrue
PROPERTIES
  ActivatesIdle
  NoSecondDowngrade
  SyncEnds
