SPECIFICATION Spec
CONSTANTS
  d0 = d0
  d1 = d1
  d2 = d2
  k1 = k1
  k2 = k2
  k3 = k3
  NoKey = NoKey
  DBs = {d0}
  Keys = {k1, k2, k3}
  ValidDBs = {d0}
  DefaultDB = d0
  DeniedKeys = {k1}
  KeysByDb <- Row
  CountDBs <- CountOne
  ExportValues = TRUE
  Faults = FALSE
  InitStores <- RowStores
  WriteKinds = {"none", "hll"}
  MaxWrites = 0
INVARIANT
  MemoryOfItsKey
