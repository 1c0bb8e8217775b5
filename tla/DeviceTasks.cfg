CONSTANTS
  t1 = t1 t2 = t2 t3 = t3 bg = bg ui = ui ui2 = ui2
  Tasks = {t1, t2}
  Threads = {bg, ui}
  Background = bg
  NoTask = NoTask
  MaxCrashes = 1
  MaxRequests = 2
SPECIFICATION FairSpec
INVARIANTS TablesAreTrue ChecksAreMissedOnlyInOverlap
PROPERTIES VerdictsAreFinal LaunchesAreWatched TasksSettle
