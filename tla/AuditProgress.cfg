SPECIFICATION FairSpec
CONSTANTS
  r1 = r1
  r2 = r2
  r3 = r3
  u1 = u1
  u2 = u2
  A = A
  B = B
  C = C
  D = D
  E = E
  m1 = m1
  m2 = m2
  d1 = d1
  d2 = d2
  NULL = NULL
  Requests = {r1, r2}
  Users = {u1, u2}
  Files = {A, B}
  Mids = {m1}
  Dates = {d1, d2}
  Typed <- Misfiled
  Figures = {100, 104, 120}
  Statement <- Shown
  Readings <- Merged
  Configured = 2
  MaxEngine = 2
  R2On = TRUE
  Edits = {120}
  MaxLost = 1
CHECK_DEADLOCK FALSE
INVARIANTS
  IndInv
  OwnRecordsOnly
  NoOrphanProcessing
PROPERTIES
  JobsSettle
