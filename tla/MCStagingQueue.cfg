SPECIFICATION FairSpec
CONSTANTS
  MinLevel = "WARNING"
  u1 = u1
  u2 = u2
  Doc <- MCDoc
  Content = {1, 2}
  Source <- MCSource
  Groups <- MCGroups
  Blank = {}
  Unparsable = {}
  Oversize = {}
  MaxAttempts = 1
  Record = {1, 2, 3, 4}
  Payload <- MCPayload
  Run = {u1, u2}
  BatchLimit = 2
  MaxRetries = 2
  MaxTaskRetries = 0
INVARIANTS
  TypeOK
  StoredWhenSettled
  ContentHasRecord
  RetryOvershoot

  
CHECK_DEADLOCK FALSE
