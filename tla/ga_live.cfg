CONSTANTS
  v1 = v1
  v2 = v2
  b1 = b1
  b2 = b2
  c1 = c1
  c2 = c2
  p0 = p0
  pM = pM
  None = None
  Partial = Partial
  BootVersion = v1
  BootBinary = b1
  Versions = {v1, v2}
  Binaries = {b1}
  Configs = {c1, c2}
  Plans = {p0, pM}
  MitmPlans = {pM}
  Crashing = {c2}
  Faults = {"exit", "spawn", "wait"}
  Overlap = FALSE
  ReuseVersions = FALSE
SPECIFICATION FairSpec
CHECK_DEADLOCK FALSE
INVARIANTS
  RollbackSlotUsable
  ReadyReplyIsCommitted
PROPERTIES
  PendingResolves
