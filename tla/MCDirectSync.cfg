SPECIFICATION Spec
CONSTANTS
  a = a
  b = b
  s1 = s1
  s2 = s2
  Doc = {a, b}
  Content = {1, 2}
  Source <- MCSource
  Groups <- MCGroups
  Blank = {}
  Unparsable = {}
  Oversize = {}
  MaxAttempts = 1
  Sync = {s1, s2}
  Types = {"elasticsearch", "datadog", "gcp", "slack"}
  Cap = 2
SYMMETRY Symmetry
INVARIANTS
  CursorCovers
  DoneIsIndexed
  FiredOnce
  PendingExplained
