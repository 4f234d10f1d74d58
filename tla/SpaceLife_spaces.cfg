\* One host and one space; see MCWorkloads for who does what.
SPECIFICATION LifeSpec
CONSTANTS
  Requests = {1, 2}
  Workloads <- MCWorkloads
  NDocs = 2
  DocTypes = {"aadhaar", "pan"}
  MinPhotos = 1
  MaxCapacity = 2
  NSlots = 3
  Numbers = {1, 2, 3}
  NBookings = 2
  MaxCrashes = 1
  NTickets = 2
  Ratings = {1, 5}
  Price = 2
  Given = {1, 2, 3}
INVARIANTS
  LifeTypeOK
  SpaceIsFit
  DisputeIsFair
  RatingIsCurrent
PROPERTY SlotsWithinCapacity
CHECK_DEADLOCK FALSE
