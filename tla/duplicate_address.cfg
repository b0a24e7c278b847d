SPECIFICATION Spec
CONSTANTS
  None = None
  r1 = r1
  u1 = u1
  u2 = u2
  p1 = p1
  n1 = n1
  Requests = {r1}
  UserIds = {u1, u2}
  Tokens = {}
  Resets = {}
  Addresses <- TwoSpellings
  Lower <- LowerCase
  Passwords = {p1}
  Names = {n1}
  RefreshTtl = 1
  ResetTtl = 1
  MaxClock = 0
  Workload = {"register"}
CHECK_DEADLOCK FALSE
INVARIANTS
  DuplicateAddressIsConflict
