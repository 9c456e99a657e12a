SPECIFICATION Spec
CONSTANTS
  d0 = d0
  d1 = d1
  a = a
  b = b
  c = c
  p = p
  q = q
  DBs = {d0, d1}
  ValidDBs = {d0, d1}
  Keys = {a, b, c}
  Patterns = {p, q}
  Matches <- Globs
  Singles <- OneSingle
  CheckKeys <- Overlapping
  CountKeys <- CountOne
  Faults = TRUE
  MaxReply = 2
  MaxCalls = 2
  MaxWrites = 1
INVARIANTS
  TypeOK
  ScannedKeysListed
  SinglesListed
  OnlyKeysOfTheirDb
  GroupedFaithfully
  CountsEveryKey
