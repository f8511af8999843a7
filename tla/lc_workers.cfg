CONSTANTS
  s1 = s1
  s2 = s2
  s3 = s3
  t1 = t1
  t2 = t2
  t3 = t3
  Main = Main
  Exit = Exit
  None = None
  Starters = {s1, s2, s3}
  Stoppers = {t1, t2}
  Runtimes <- AllRuntimes
  MaxAttempts = 3
  Faults = {"prepare", "boot", "reap", "crash"}
  Quits = 0
  Overtaking = FALSE
SYMMETRY WorkerSymmetry
SPECIFICATION Spec
CHECK_DEADLOCK FALSE
INVARIANTS
  NoOrphan
  SingleRuntime
  StoppedIsQuiet
  StatusAgrees
  StoppedIsNotPolled
  RunningIsPolled
