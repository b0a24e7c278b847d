SPECIFICATION Spec
CONSTANTS
  None = None
  r1 = r1
  r2 = r2
  u1 = u1
  t1 = t1
  t2 = t2
  t3 = t3
  x1 = x1
  p1 = p1
  p2 = p2
  n1 = n1
  Requests = {r1, r2}
  UserIds = {u1}
  Tokens = {t1, t2, t3}
  Resets = {x1}
  Addresses <- TwoSpellings
  Lower <- LowerCase
  Passwords = {p1, p2}
  Names = {n1}
  RefreshTtl = 1
  ResetTtl = 1
  MaxClock = 1
  Workload = {"register", "login", "refresh", "logout", "reset"}
SYMMETRY Interchangeable
CHECK_DEADLOCK FALSE
INVARIANTS
  OldSessionNeedsRace
  ForkNeedsRace
  LogoutSticks
