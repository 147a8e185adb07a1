CONSTANTS
  w1 = w1
  w2 = w2
  x = x
  y = y
  a = a
  r1 = r1
  r2 = r2
  v1 = v1
  v2 = v2
  Worker = {w1, w2}
  Team = {x, y}
  Title = {a}
  FirstLine = a
  Cooldown = 1
  MaxAlerts = 1
  MaxTime = 3
  MaxFaults = 1
  MaxEdits = 2
  Request = {r1, r2}
  Investigator = {v1, v2}
SPECIFICATION Spec
SYMMETRY Symmetry
CHECK_DEADLOCK FALSE
INVARIANTS
  ChannelsTruthful
  
  OrphansExplained
  InquiryExplained
