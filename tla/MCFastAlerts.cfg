CONSTANTS
  t1 = t1
  t2 = t2
  s1 = s1
  p1 = p1
  p2 = p2
  w1 = w1
  w2 = w2
  Tenant = {t1, t2}
  Sig = {s1}
  Proc = {p1}
  Route <- MCRoute
  Fallback <- MCFallback
  DefaultCooldown = 2
  Floor = 2
  Escalation = 1
  SentinelRule = TRUE
  MaxTime = 3
  MaxAlerts = 2
  MaxFaults = 1
  MaxEdits = 1
SPECIFICATION FairSpec
CHECK_DEADLOCK FALSE
INVARIANTS
  CooldownHeld
  AckStopsPage
  Escalated

  
