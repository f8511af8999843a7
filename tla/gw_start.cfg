CONSTANTS
  Launchd = {TRUE, FALSE}
  ChildFaults = {"spawn", "exit", "denied", "stuck", "wait", "launchctl"}
  Trouble = {"plan", "cleanup", "session"}
  MaxStarts = 3
  MaxCrashes = 2
  None = None
SPECIFICATION FairSpec
CHECK_DEADLOCK FALSE
INVARIANTS
  TypeOK
  NothingLost
  DirOutlivesProcesses
  VfkitBehindHelpers
  
  ResidueStoppable
PROPERTIES
  Ends
