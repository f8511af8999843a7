CONSTANTS
  v1 = v1
  v2 = v2
  b1 = b1
  b2 = b2
  c1 = c1
  c2 = c2
  p0 = p0
  pM = pM
  None = None
  Partial = Partial
  BootVersion = v1
  BootBinary = b1
  Versions = {v1}
  Binaries = {b1}
  Configs = {c1, c2}
  Plans = {pM}
  MitmPlans = {pM}
  Crashing = {c2}
  Faults = {"exit", "kill", "spawn", "wait", "write", "flap", "drop"}
  Overlap = FALSE
  ReuseVersions = FALSE
SPECIFICATION Spec
CHECK_DEADLOCK FALSE
INVARIANTS
  TypeOK
  NoStrayProcess
  ReadyServesFiles
  ExplicitStopIsFinal
  SessionAtomic
PROPERTIES
  Implements
