CONSTANTS
  o1 = o1 o2 = o2 w1 = w1 w2 = w2 x1 = x1 x2 = x2
  Owners = {o1, o2}
  Workspaces = {x1, x2}
  Windows = {w1, w2}
  NoOwner = NoOwner
  NoWorkspace = NoWorkspace
  MaxIssued = 3
  MaxFaults = 1
SPECIFICATION FairEnrollmentSpec
CHECK_DEADLOCK FALSE
PROPERTIES   RefusedRegistrationEnds
