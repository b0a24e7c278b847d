SPECIFICATION FairSpec
CONSTANTS
  None = None
  r1 = r1
  r2 = r2
  u1 = u1
  u2 = u2
  t1 = t1
  t2 = t2
  x1 = x1
  p1 = p1
  p2 = p2
  n1 = n1
  n2 = n2
  Requests = {r1, r2}
  UserIds = {u1, u2}
  Tokens = {t1, t2}
  Resets = {x1}
  Addresses <- TwoSpellings
  Lower <- LowerCase
  Passwords = {p1, p2}
  Names = {n1, n2}
  RefreshTtl = 1
  ResetTtl = 1
  MaxClock = 0
  Workload = {"register", "login", "refresh", "reset", "profile"}
CHECK_DEADLOCK FALSE
INVARIANTS
  TypeOK
  OneAccountPerAddress
PROPERTIES
  PasswordChangeTakesToken
  RequestsEnd
