CONSTANTS
  r1 = r1 r2 = r2 t1 = t1 t2 = t2 t3 = t3
  Runs = {r1, r2}
  Tasks = {t1, t2}
  NoRun = NoRun
  NoTask = NoTask
  Kind <- OneForeground
  Parallel = TRUE
  ClaimLimit = 1
  MaxBackoff = 1
  MaxCrashes = 0
  MaxTimeouts = 1
  Environment = {"user_stop", "spawn_error", "uninstall", "expire_lease", "revoke_grant", "expire_grant", "revoke_device"}
SPECIFICATION Spec
INVARIANT AuthorityFollowsTheRun
 
CHECK_DEADLOCK FALSE
SYMMETRY TaskSymmetry
