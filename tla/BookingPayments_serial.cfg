SPECIFICATION FairSpec
CONSTANTS
  MaxAttempts = 2
  Methods = {"card"}
  Requests = {r1}
  Ops <- SerialOps
  Price = 2
  UserRefunds = {0, 1, 2}
  AdminRefunds = {1, 2}
  MaxCrashes = 0
INVARIANT CancellationAddsUp
PROPERTY CapturedIsSettled
CHECK_DEADLOCK FALSE
