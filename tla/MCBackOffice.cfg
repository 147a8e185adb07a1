SPECIFICATION MCSpec
CONSTANTS
  c1 = c1
  c2 = c2
  l1 = l1
  b1 = b1
  Log = {l1}
  Brief = {b1}
  Cleaner = {c1, c2}
  Days = {0, 1}
  DefaultDays = 2
  MaxTime = 3
  MaxEdits = 2
  PatternIncidents = 1
  PatternDays = 1
  TrendIncidents = 2
  TrendDays = 2
  Deploys = 1
  MaxRetries = 1
  Data <- MCData
  MaxRuns = 2
  MaxDeaths = 1
  MaxMarks = 1
  Tenant = {"t1", "t2"}
  Plan = {"free", "growth"}
  MaxSent = 4
  MaxPlanChanges = 2
  q1 = q1
  q2 = q2
  Thing = {"t"}
  Request = {q1, q2}
  Window = 0
  MaxEvents = 4
  MaxRepeats = 1
  MaxFailures = 1
  MaxTicks = 2
SYMMETRY Symmetry
CHECK_DEADLOCK FALSE
INVARIANTS
  ErasureExplained
  InsightsEarned
  BillingExplained
  TimelineExplained
PROPERTIES
  KeptLongEnough
