SPECIFICATION Spec
CONSTANTS
  r1 = r1
  r2 = r2
  r3 = r3
  u1 = u1
  u2 = u2
  A = A
  B = B
  C = C
  D = D
  E = E
  m1 = m1
  m2 = m2
  d1 = d1
  d2 = d2
  NULL = NULL
  Requests = {r1, r2}
  Users = {u1}
  Files = {A, B, C}
  Mids = {m1}
  Dates = {d1}
  Typed <- Mistyped
  Figures = {100, 104, 120}
  Statement <- Shown
  Readings <- Merged
  Configured = 2
  MaxEngine = 1
  R2On = TRUE
  Edits = {}
  MaxLost = 0
SYMMETRY RequestSymmetry
CHECK_DEADLOCK FALSE
PROPERTIES
  ReuseNeverDuplicates
