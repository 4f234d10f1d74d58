SPECIFICATION Spec
CONSTANTS
  Drivers = {d1}
  Slots = {s1}
  Bookings = {b1, b2}
  Requests = {r1, r2}
  NoDriver = NoDriver
  Windows <- ExtensionWindows
  Ops <- CalendarOps
  Capacity = 1
  Buffer = 0
  NoShowGrace = 0
  LastTick = 1
  MaxOrders = 1
  LockOutlivesHandler = FALSE
  Width = 2
  Span = 2
SYMMETRY Symmetry
INVARIANTS TypeOK NoDoubleBooking
PROPERTY ImplementsCalendar
CHECK_DEADLOCK FALSE
