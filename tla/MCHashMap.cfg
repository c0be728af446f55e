SPECIFICATION FairSpec
CONSTANTS
  a = a
  b = b
  c = c
  v1 = v1
  v2 = v2
  v3 = v3
  v4 = v4
  NULL = NULL
  Keys <- MCKeys
  Values <- MCValues
  Hash <- MCHash
  SBuckets = 1
  HeapBuckets = 8
  MaxElements = 5
INVARIANTS
  Placed
  ShortChains
  NoDangling
PROPERTIES
  Removes
  ImplementsDictionary
  CallsReturn
CHECK_DEADLOCK FALSE
