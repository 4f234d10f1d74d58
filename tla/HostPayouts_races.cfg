SPECIFICATION Spec
CONSTANTS
  Earnings = {e1}
  Payouts = {p1, p2}
  Requests = {r1, r2}
  Ops <- RaceOps
  Events <- AllEvents
  Net = 1
  Deposits = 1
  Amounts = {1}
  MaxCrashes = 0
SYMMETRY Symmetry
INVARIANTS TypeOK NoFreeCredit
PROPERTY CompletedWasTransferred
CHECK_DEADLOCK FALSE
