CONSTANTS
  a = a
  b = b
  q1 = q1
  q2 = q2
  d = d
  e = e
  Person = {a, b}
  Call = {q1, q2}
  HasEmail = {a}
  Domain = {d, e}
  DomainOf <- MCDomainOf
  UniqueUsers = FALSE
  MaxRows = 3
  MaxInvites = 1
  MaxTurns = 3
SPECIFICATION MembershipSpec
SYMMETRY Symmetry
CHECK_DEADLOCK FALSE
INVARIANTS
  TwinsOverlap
  OwnerKept
  
