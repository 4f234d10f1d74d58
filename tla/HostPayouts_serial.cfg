SPECIFICATION FairSpec
CONSTANTS
  Earnings = {e1, e2}
  Payouts = {p1, p2}
  Requests = {r1}
  Ops <- SerialOps
  Events <- SerialEvents
  Net = 1
  Deposits = 1
  Amounts = {1}
  MaxCrashes = 1
INVARIANT MoneyOnce
PROPERTY PayoutSettled
CHECK_DEADLOCK FALSE
