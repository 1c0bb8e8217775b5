SPECIFICATION Spec
CONSTANTS
  u1 = u1
  u2 = u2
  w1 = w1
  w2 = w2
  d1 = d1
  d2 = d2
  a1 = a1
  r1 = r1
  s1 = s1
  n1 = n1
  None = None
  Users <- MCUsers
  Reviewers <- MCReviewers
  Workspaces <- MCWorkspaces
  Devices <- MCDevices
  Applications <- MCApplications
  Releases <- MCReleases
  Schedules <- MCSchedules
  Runs <- MCRuns
  MaxAnswers = 1
  MaxOrders = 4
INVARIANTS DeviceObeysItsOwner NoWorkWithoutGrant CopiesTellTheTable RequestsAreSeen
SYMMETRY Symmetry
CHECK_DEADLOCK FALSE
