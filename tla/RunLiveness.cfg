CONSTANTS
  r1 = r1 r2 = r2 t1 = t1 t2 = t2 t3 = t3
  Runs = {r1, r2}
  Tasks = {t1, t2}
  NoRun = NoRun
  NoTask = NoTask
  Kind <- OneElevated
  Parallel = TRUE
  ClaimLimit = 1
  MaxBackoff = 2
  MaxCrashes = 1
  MaxTimeouts = 2
  Environment = {}
SPECIFICATION FairSpec
INVARIANTS  ReexecutionNeedsCrash
PROPERTIES RecordedRunSettles CancellationCompletes
