\* One host's bank accounts; see MCWorkloads for who does what.
SPECIFICATION BankSpec
CONSTANTS
  Requests = {1, 2}
  Workloads <- MCWorkloads
  NAccounts = 2
  NPayouts = 2
  MaxCrashes = 1
INVARIANTS
  BankTypeOK
  PayoutHasAccount
  PendingIsUnderWay
CHECK_DEADLOCK FALSE
