SPECIFICATION Spec
CONSTANTS
  MaxAttempts = 1
  Methods = {"card"}
  Requests = {r1, r2}
  Ops <- RacingOps
  Price = 2
  UserRefunds = {1}
  AdminRefunds = {1}
  MaxCrashes = 1
SYMMETRY Symmetry
INVARIANTS TypeOK NothingUnpaid CreditMatchesRecord
CHECK_DEADLOCK FALSE
