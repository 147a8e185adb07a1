SPECIFICATION Spec
CONSTANTS
  log = log
  page = page
  w1 = w1
  w2 = w2
  Doc = {log, page}
  Content = {1, 2, 3}
  Source <- MCSource
  Groups <- MCGroups
  Blank = {}
  Unparsable = {3}
  Oversize = {}
  MaxAttempts = 1
  Worker = {w1, w2}
  MaxTaskRetries = 0
  RetryLimit = 2
  MaxGroups = 2
SYMMETRY Symmetry
INVARIANTS
  ImmutableVectorised
  SearchableWhenDone
  
CHECK_DEADLOCK FALSE
