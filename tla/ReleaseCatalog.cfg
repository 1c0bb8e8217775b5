CONSTANTS
  r1 = r1 r2 = r2 a1 = a1 a2 = a2 s1 = s1 s2 = s2 c1 = c1 c2 = c2 p1 = p1 p2 = p2
  Releases = {r1}
  Artifacts = {a1, a2}
  Declared <- AllDeclared
  Genuine = {r1}
  Clients = {c1, c2}
  Slots = {s1, s2}
  NoRelease = NoRelease
  MaxAttempts = 3
  MaxStalls = 2
  MaxFaults = 2
  Channels = {stable}
  Admins = {p1, p2}
  AnyRelease = AnyRelease
  MaxPromotions = 3
SPECIFICATION FairSpec
INVARIANTS StoresAgree PromotionsReplaceWhatTheyRead
PROPERTIES  ImplementsReleaseLife
