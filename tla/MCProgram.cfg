SPECIFICATION FairMainSpec
CONSTANTS
  a = a
  b = b
  c = c
  d = d
  s1 = s1
  s2 = s2
  s3 = s3
  s4 = s4
  NULL = NULL
  Keys <- MCKeys
  Values <- MCValues
  Addr <- MCAddr
  Hash <- MCHash
  SBuckets = 1
  HeapBuckets = 4
  MaxElements = 4
  MaxStmts = 3
  Files <- MCFiles
INVARIANTS
  FoundAsDeclared
  FreedOnlyChained
  
PROPERTIES
  ProgramEnds
