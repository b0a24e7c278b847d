SPECIFICATION Spec
CONSTANTS
  None = None
  v1 = v1
  m1 = m1
  u1 = u1
  r1 = r1
  r2 = r2
  b1 = b1
  b2 = b2
  Venues = {v1}
  Rooms = {}
  Seats = {}
  RoomVenue <- OneRoomVenue
  SeatRoom <- OneSeatRoom
  UtcOffset <- InUtc
  BookingRules <- PaidVenue
  RoomHours <- AlwaysOpen
  DayLength = 10
  DefaultHoldTtl = 1
  Users = {u1}
  Requests = {r1, r2}
  BookingIds = {b1, b2}
  HoldIds = {}
  Windows <- OneWindow
  MaxClock = 0
  Workload = {"create_booking", "reschedule_booking", "cancel_booking", "create_payment", "create_checkin"}
SYMMETRY Interchangeable
CHECK_DEADLOCK FALSE
INVARIANTS
  TypeOK
  CheckinSticks
  ConfirmedIsPaid
PROPERTIES
  RevivalNeedsRace
