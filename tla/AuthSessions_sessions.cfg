\* One account: sessions, tokens, codes; see MCWorkloads for who does what.
SPECIFICATION Spec
CONSTANTS
  Requests = {1, 2}
  Workloads <- MCWorkloads
  NSessions = 3
  MaxSessions = 2
  TokenLife = 2
  MarkerLife = 3
  MaxTime = 3
  MaxPasswords = 3
  NCodes = 2
  MaxFailures = 2
  MaxCrashes = 1
INVARIANTS
  TypeOK
  SessionsCounted
  PurgedIsOver
  CodesHold
PROPERTY RejectedStaysRejected
CHECK_DEADLOCK FALSE
