SPECIFICATION Spec
CONSTANTS
  p1 = p1
  p2 = p2
  c1 = c1
  h1 = h1
  ip1 = ip1
  s1 = s1
  admin = admin
  owner = owner
  r1 = r1
  r2 = r2
  r3 = r3
  Portal = {p1, p2}
  Console = {c1}
  Chat = {h1}
  Addresses = {ip1}
  Sessions = {s1}
  Names = {admin, owner}
  Admin = admin
  Editor = owner
  Existing = {owner}
  Blocked = {owner}
  Requests = {r1, r2, r3}
  Limit <- MCLimit
  Kept = 2
  Second = 2
  Minute = 1
  Window = 3
  MaxFails = 2
  MaxTime = 5
  MaxAttempts = 3
  MaxRestarts = 1
SYMMETRY Interchangeable
CHECK_DEADLOCK FALSE
INVARIANTS
  IndInv
  RateKept
  LockStops
  SeedTakes
PROPERTIES
  LockEarned
