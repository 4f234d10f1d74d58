\* One driver's wallet, trip, vehicles and payment methods; see MCWorkloads for who does what.
SPECIFICATION AccountSpec
CONSTANTS
  Requests = {1, 2}
  Workloads <- MCWorkloads
  NTopUps = 2
  NSplits = 2
  CardPart = 1
  WalletPart = 1
  MaxAdjusts = 2
  MaxFaults = 2
  NOrders = 3
  NRefunds = 3
  MaxHours = 2
  NVehicles = 3
  NMethods = 4
INVARIANTS
  AccountTypeOK
  BalanceIsSum
  TopUpApplied
  SplitDebited
  TripAsPaid
  RefundSettles
  OneDefault
CHECK_DEADLOCK FALSE
