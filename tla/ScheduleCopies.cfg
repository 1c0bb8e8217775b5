CONSTANTS
  w1 = w1 w2 = w2 d1 = d1 d2 = d2 s1 = s1 s2 = s2 r1 = r1 r2 = r2
  Workspaces = {w1}
  Devices = {d1, d2}
  Schedules = {s1, s2}
  Releases = {r1}
  Workspace <- OneWorkspace
  MaxRevision = 2
  MaxTime = 0
  NoDevice = NoDevice
  Whole = Whole
  TTL = 1
  Period = 1
  Occurrences = {1}
  Enrollable = {d1}
SPECIFICATION FairSpec
CHECK_DEADLOCK FALSE
INVARIANT LogTellsTheTable
PROPERTIES ImplementsScheduleReplica 
