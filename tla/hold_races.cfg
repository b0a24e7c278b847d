SPECIFICATION FairSpec
CONSTANTS
  None = None
  v1 = v1
  m1 = m1
  u1 = u1
  r1 = r1
  r2 = r2
  b1 = b1
  b2 = b2
  h1 = h1
  h2 = h2
  Venues = {v1}
  Rooms = {}
  Seats = {}
  RoomVenue <- OneRoomVenue
  SeatRoom <- OneSeatRoom
  UtcOffset <- InUtc
  BookingRules <- PaidVenue
  RoomHours <- AlwaysOpen
  DayLength = 10
  DefaultHoldTtl = 1
  Users = {u1}
  Requests = {r1, r2}
  BookingIds = {b1, b2}
  HoldIds = {h1, h2}
  Windows <- OneWindow
  MaxClock = 2
  Workload = {"create_hold", "cancel_hold", "create_booking"}
CHECK_DEADLOCK FALSE
INVARIANTS
  ClashNeedsRace
  HoldUsedOnce
PROPERTIES
  HoldsLapse
