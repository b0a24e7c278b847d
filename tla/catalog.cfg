SPECIFICATION FairSpec
CONSTANTS
  None = None
  m1 = m1
  m2 = m2
  A = A
  B = B
  C = C
  p = p
  q = q
  r1 = r1
  r2 = r2
  Rooms = {m1, m2}
  SeatIds = {1, 2, 3}
  Labels = {A, B, C}
  Places = {p, q}
  SeatsAtFirst <- TwoSeats
  Layouts <- EditorLayouts
  Requests = {r1, r2}
  Copies = 12
  Calls <- TwoOrThree
  Permissions <- TwoPermissions
  Roles <- TwoRoles
  RolePermissions <- ThreePairs
  Names = {"Loft"}
  FeatureLists <- TwoOrders
  FeatureCode <- Codes
  DemoVenue = "Demo"
  DemoFeatures <- OneFeature
  DemoRooms <- MeetingRoom
  DemoUsers <- ClientAndOwner
  Weekdays <- Monday
  WholeRooms = {"Meeting Room B"}
  RuleRoom = "Meeting Room B"
  Days = {1}
  RowsAtFirst <- EmptyOrOlder
  Workloads <- CalledTogether
CHECK_DEADLOCK FALSE
INVARIANTS
  TypeOK
  DuplicateNeedsRace
  FailureNeedsRace
  HalfDemoNeedsCrash
  DeadlockNeedsDisorder
  LayoutTypeOK
  RefusalNeedsCause
  TornSeatNeedsRace
PROPERTIES
  ForeignSeatsUntouched
  RequestsEnd
