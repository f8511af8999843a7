CONSTANTS
  s1 = s1
  s2 = s2
  s3 = s3
  t1 = t1
  t2 = t2
  t3 = t3
  Main = Main
  Exit = Exit
  None = None
  Starters = {s1, s2}
  Stoppers = {t1}
  Runtimes <- GatewayOnly
  MaxAttempts = 3
  Faults = {"boot", "reap"}
  Quits = 1
  Overtaking = TRUE
SPECIFICATION FairSpec
CHECK_DEADLOCK FALSE
INVARIANTS
  TypeOK
  RunningIsOwned
PROPERTIES
  StartEnds
  StopEnds
  QuitEnds
