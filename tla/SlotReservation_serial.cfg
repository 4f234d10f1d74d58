SPECIFICATION Spec
CONSTANTS
  Drivers = {d1, d2}
  Slots = {s1}
  Bookings = {b1, b2}
  Requests = {r1}
  NoDriver = NoDriver
  Windows <- ShortWindows
  Ops <- SerialOps
  Capacity = 1
  Buffer = 1
  NoShowGrace = 0
  LastTick = 2
  MaxOrders = 1
  LockOutlivesHandler = FALSE
  Width = 2
  Span = 3
SYMMETRY Symmetry
INVARIANT LiveApart
CHECK_DEADLOCK FALSE
