SPECIFICATION FairSpec
CONSTANTS
  MinLevel = "WARNING"
  u1 = u1
  w1 = w1
  Doc <- MCDoc
  Content = {1, 2}
  Source <- MCSource
  Groups <- MCGroups
  Blank = {}
  Unparsable = {}
  Oversize = {}
  MaxAttempts = 1
  Record = {1, 2, 3}
  Payload <- MCPayload
  Run = {u1}
  BatchLimit = 2
  MaxRetries = 1
  Worker = {w1}
  RetryLimit = 1
  MaxGroups = 2
  MaxTaskRetries = 1
INVARIANTS
  NewestWins
PROPERTIES
  EmbeddingImplemented
  
CHECK_DEADLOCK FALSE
