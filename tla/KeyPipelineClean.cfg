SPECIFICATION Spec
CONSTANTS
  d0 = d0
  d1 = d1
  d2 = d2
  k1 = k1
  k2 = k2
  k3 = k3
  NoKey = NoKey
  DBs = {d0, d1}
  Keys = {k1, k2}
  ValidDBs = {d0, d1}
  DefaultDB = d0
  DeniedKeys = {}
  KeysByDb <- TwoDbs
  CountDBs <- CountBoth
  ExportValues = TRUE
  Faults = TRUE
  InitStores <- TwoDbsStores
  WriteKinds = {"none", "hll"}
  MaxWrites = 1
INVARIANTS
  TypeOK
  Attributed
  Aligned
  CleanHandOver
  EveryKeyExported
PROPERTY
  SampleSpec
