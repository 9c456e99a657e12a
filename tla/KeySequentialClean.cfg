SPECIFICATION Spec
CONSTANTS
  d0 = d0
  k1 = k1
  k2 = k2
  k3 = k3
  NoKey = NoKey
  DBs = {d0}
  Keys = {k1, k2, k3}
  ValidDBs = {d0}
  DefaultDB = d0
  DeniedKeys = {k2}
  KeyList <- AllKeys
  ExportValues = TRUE
  Faults = TRUE
  InitStores <- SomeStores
  WriteKinds = {"none", "hll"}
  MaxWrites = 1
INVARIANTS
  TypeOK
  EveryKeyExported
PROPERTY
  SampleSpec
