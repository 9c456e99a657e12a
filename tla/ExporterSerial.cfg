SPECIFICATION GroupSpec
CONSTANTS
  m1 = m1
  m2 = m2
  s1 = s1
  r1 = r1
  r2 = r2
  c1 = c1
  Main = Main
  Nothing = Nothing
  Metrics = {m1, m2}
  Scrapes = {s1}
  Reloads = {r1, r2}
  Discovers = {c1}
  PasswordGiven = FALSE
  IsCluster = TRUE
  AppendRole = TRUE
  SkipMaster = TRUE
  HasScript = TRUE
  AuthConfigured = TRUE
  Malformed = {2}
  MaxEdits = 2
  MaxFailovers = 1
SYMMETRY Alike
INVARIANTS
  TypeOK
  InOrder
  RoleOfItsInfo
  ReloadHolds
  UpTellsInfo
  NoConnectionLeft
PROPERTY
  SerialSpec
