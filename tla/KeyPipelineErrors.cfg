SPECIFICATION FairSpec
CONSTANTS
  d0 = d0
  d1 = d1
  d2 = d2
  k1 = k1
  k2 = k2
  k3 = k3
  NoKey = NoKey
  DBs = {d0, d1, d2}
  Keys = {k1, k2}
  ValidDBs = {d0, d2}
  DefaultDB = d0
  DeniedKeys = {k1}
  KeysByDb <- Three
  CountDBs <- CountBoth
  ExportValues = TRUE
  Faults = TRUE
  InitStores <- ThreeStores
  WriteKinds = {"none", "hll"}
  MaxWrites = 1
INVARIANTS
  ReplyDue
  CountedInItsDb
PROPERTY
  Terminates
