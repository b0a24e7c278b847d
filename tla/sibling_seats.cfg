SPECIFICATION Spec
CONSTANTS
  None = None
  v1 = v1
  m1 = m1
  u1 = u1
  r1 = r1
  b1 = b1
  b2 = b2
  s1 = s1
  s2 = s2
  Venues = {v1}
  Rooms = {m1}
  Seats = {s1, s2}
  RoomVenue <- OneRoomVenue
  SeatRoom <- OneSeatRoom
  UtcOffset <- InUtc
  BookingRules <- PaidVenue
  RoomHours <- AlwaysOpen
  DayLength = 10
  DefaultHoldTtl = 1
  Users = {u1}
  Requests = {r1}
  BookingIds = {b1, b2}
  HoldIds = {}
  Windows <- OneWindow
  MaxClock = 0
  Workload = {"create_booking"}
CHECK_DEADLOCK FALSE
PROPERTIES
  RefusedSlotIsTaken
