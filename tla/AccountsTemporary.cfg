SPECIFICATION Spec
CONSTANTS
  r1 = r1
  r2 = r2
  r3 = r3
  r4 = r4
  a1 = a1
  NULL = NULL
  Requests = {r1, r2, r3}
  Emails = {a1}
SYMMETRY RequestSymmetry
CHECK_DEADLOCK FALSE
INVARIANTS
  TemporaryMustChange
