SPECIFICATION Spec
CONSTANTS
  d0 = d0
  d1 = d1
  d2 = d2
  s = s
  g = g
  h = h
  empty = empty
  u = u
  Absent = Absent
  DBs = {d0, d1, d2}
  ValidDBs = {d0, d1}
  Streams = {s}
  GroupNames = {g, h, empty}
  Unnamed = empty
  Consumers = {u}
  Counts = {0, 1, 2}
  NoCount = NoCount
  StreamList <- SameName
  ExcludeConsumers = FALSE
  Faults = TRUE
  InitContents <- Some
  Written <- Streamlike
  MaxWrites = 2
INVARIANTS
  TypeOK
  NothingInvented
  KeptStreamsExported
  NackedIfFull
