SPECIFICATION Spec
CONSTANTS
  a = a
  b = b
  c = c
  d = d
  DbCount = 1
  ValidDBs = {0}
  Keys = {a, b, c, d}
  Group <- Plain
  GroupNames <- Names
  Usage <- Bytes
  DeniedKeys = {a}
  MaxDistinctKeyGroups = 3
  Faults = FALSE
  MaxReply = 2
  MaxCalls = 2
  MaxWrites = 0
INVARIANT
  MemoryOfItsKeys
