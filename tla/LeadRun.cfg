SPECIFICATION Spec
CONSTANTS
  p1 = p1
  p2 = p2
  p3 = p3
  NULL = NULL
  TEXT = TEXT
  Providers = {p1, p2, p3}
  Fields <- MCFields
  Fine = 2
  Rule <- MCRule
  Rollups = {"total charges"}
  GrandTotals = {"total fees due"}
  Readings <- MCReadings
  Printed = {"total_fees", "effective_rate", "monthly_volume"}
  Columns = {"total_fees", "interchange_cost", "effective_rate", "monthly_volume"}
SYMMETRY Interchangeable
CHECK_DEADLOCK FALSE
INVARIANTS
  FiguresBetweenReadings
  ArrivalDecidesNothing
  ArrivalDecidesNoTotal
  CertifiedNearAll
  LeadWhole
