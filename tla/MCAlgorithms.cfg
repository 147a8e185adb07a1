SPECIFICATION AlgorithmsSpec
CONSTANTS
  d1 = d1
  d2 = d2
  d3 = d3
  f = f
  g = g
  File = {f, g}
  Remotes <- MCRemotes
  Disks <- MCDisks
  MaxFrames = 2
  MaxTrace = 4
  MinLevel = "WARNING"
  Doc = {d1, d2, d3}
  Blank = {d3}
  SourceOf <- MCSourceOf
  MaxSubs = 3
  TopK = 1
  RrfK = 60
  SourceCap = 1
  MaxHits = 2
  LongLine = 3
  ChunkTokens = 3
  OverlapTokens = 1
  SoftMax = 3
  HardMax = 4
  Overlap = 1
  MaxLines = 4
CHECK_DEADLOCK FALSE
INVARIANTS
  RankedFairly
  BestKept
  TextKept
  
  
  CodeInBrief
