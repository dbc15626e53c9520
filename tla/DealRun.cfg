SPECIFICATION MCSpec
CONSTANTS
  r1 = r1
  r2 = r2
  ann = ann
  bob = bob
  NULL = NULL
  Tokens <- MCTokens
  Requests = {r1, r2}
  Ids = {1, 2}
  Statuses = {"draft", "sent"}
  Deals <- MCDeals
  Opinions <- MCOpinions
SYMMETRY Interchangeable
CHECK_DEADLOCK FALSE
INVARIANTS
  AnswersTrue
  StaffSeeOwnTerms
  FloorsNested
  ProgramBacked
PROPERTIES
  WritesKeepOthers
