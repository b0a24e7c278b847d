SPECIFICATION Spec
CONSTANTS
  None = None
  u1 = u1
  u2 = u2
  v1 = v1
  t1 = t1
  ios = ios
  android = android
  d1 = d1
  d2 = d2
  d3 = d3
  r1 = r1
  r2 = r2
  push = push
  promo = promo
  Users = {u1, u2}
  Venues = {v1}
  PushTokens = {t1}
  Platforms = {ios, android}
  DeviceIds = {d1, d2, d3}
  Fields = {push, promo}
  OnByDefault = {push}
  Requests = {r1, r2}
  Workloads <- OneTableAtATime
SYMMETRY Interchangeable
CHECK_DEADLOCK FALSE
INVARIANTS
  TypeOK
  FailureNeedsRace
  DeviceIsAsRegistered
  PrefsAsAsked
PROPERTIES
  RegistrationLossNeedsRace
