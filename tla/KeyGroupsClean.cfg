SPECIFICATION Spec
CONSTANTS
  a = a
  b = b
  c = c
  d = d
  DbCount = 2
  ValidDBs = {0}
  Keys = {a, b, c, d}
  Group <- Plain
  GroupNames <- Names
  Usage <- Bytes
  DeniedKeys = {}
  MaxDistinctKeyGroups = 2
  Faults = TRUE
  MaxReply = 2
  MaxCalls = 3
  MaxWrites = 1
INVARIANTS
  TypeOK
  NothingLost
  LargestByName
  StableKeysCounted
