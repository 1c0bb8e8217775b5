CONSTANTS
  r1 = r1 r2 = r2 A = A B = B
  Releases = {r1, r2}
  ReleaseOf <- SameThenOther
  Replays = TRUE
  MaxViews = 3
  MaxAttempts = 4
  MaxFaults = 2
  Scopes = {A, B}
  FrameScope <- ScopesInTurn
  FrameKind <- KindsInTurn
  Capable = {1, 2, 3}
  MaxLocale = 3
  MaxReloads = 1
  Languages = {"en-US", "zh-CN"}
  DefaultLanguage = "en-US"
  SyncAttempts = 2
  MaxChoices = 2
  MaxFailures = 2
  MaxRestarts = 1
  MaxPages = 2
  MaxOperations = 4
  MaxVersion = 3
SPECIFICATION UserSpec
CHECK_DEADLOCK FALSE
INVARIANT PageIsTheApplication HostTellsTheTruth  UpdatesAreHonest
PROPERTY InterfacesSettle
