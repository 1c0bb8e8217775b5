SPECIFICATION SignInSpec
CONSTANTS
  b1 = b1
  b2 = b2
  t1 = t1
  o1 = o1
  None = None
  Configurations <- MCConfigurations
  Browsers <- MCBrowsers
  Commands <- MCCommands
  Challenges <- MCChallenges
  Transactions <- MCTransactions
  Users <- MCUsers
  EmailLimit = 1
  Window = 2
  Cooldown = 1
  Lifetime = 2
  MaxAttempts = 2
  MaxFailures = 1
INVARIANTS EachProofOnce OneUserPerIdentity CredentialIsOfItsApprover
SYMMETRY Symmetry
CHECK_DEADLOCK FALSE
