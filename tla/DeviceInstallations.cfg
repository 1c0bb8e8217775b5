CONSTANTS
  i1 = i1 i2 = i2 key = key
  Device <- Windows
  TrustedKey = key
  NoKey = NoKey
  AnyPlatform = AnyPlatform
  EntryLimit = 4
  WorkerBytes = 5
  AgentBytes = 4
  FoldsCase = TRUE
  NoName = NoName
  SigningKeys <- Keys
  CliEntries = 10
  CliBytes = 100
  ZipBytes = 8
  SbomBytes = 3
  Catalogs <- Mixed
  Installations = {i1, i2}
  MaxRequests = 2
  MaxChanges = 2
  MaxFaults = 2
  Backoff = 3
SPECIFICATION FairSpec
INVARIANTS CommittedMeansAnswered VerdictIsOfThisRequest
 
