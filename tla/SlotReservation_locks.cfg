SPECIFICATION Spec
CONSTANTS
  Drivers = {d1, d2}
  Slots = {s1, s2}
  Bookings = {b1, b2}
  Requests = {r1, r2}
  NoDriver = NoDriver
  Windows <- LockWindows
  Ops <- LockOps
  Capacity = 2
  Buffer = 0
  NoShowGrace = 0
  LastTick = 0
  MaxOrders = 0
  LockOutlivesHandler = TRUE
  Width = 2
  Span = 2
SYMMETRY Symmetry
INVARIANTS OneDriverPerWindow
CHECK_DEADLOCK FALSE
