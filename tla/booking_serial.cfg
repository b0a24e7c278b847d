SPECIFICATION Spec
CONSTANTS
  None = None
  v1 = v1
  m1 = m1
  u1 = u1
  u2 = u2
  r1 = r1
  b1 = b1
  b2 = b2
  h1 = h1
  s1 = s1
  Venues = {v1}
  Rooms = {m1}
  Seats = {s1}
  RoomVenue <- OneRoomVenue
  SeatRoom <- OneSeatRoom
  UtcOffset <- InUtc
  BookingRules <- PaidRoom
  RoomHours <- ShortDay
  DayLength = 5
  DefaultHoldTtl = 1
  Users = {u1, u2}
  Requests = {r1}
  BookingIds = {b1, b2}
  HoldIds = {h1}
  Windows <- NestedWindows
  MaxClock = 1
  Workload <- SerialHandlers
SYMMETRY Interchangeable
CHECK_DEADLOCK FALSE
INVARIANTS
  NoDoubleBooking
  ListingMatchesBooking
PROPERTIES
  BookedAsHeld
  ImplementsLedger
