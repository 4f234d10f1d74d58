\* Making a booking; see MCWorkloads for who does what.
SPECIFICATION Spec
CONSTANTS
  Requests = {1, 2}
  Workloads <- MCWorkloads
  Keys = {k1, k2}
  NBookings = 2
  MaxFaults = 2
INVARIANTS
  TypeOK
  OnceByKey
  PromoCounted
  OpenWhileParked
  PriceRight
CHECK_DEADLOCK FALSE
