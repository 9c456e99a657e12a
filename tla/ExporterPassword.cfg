SPECIFICATION Spec
CONSTANTS
  m1 = m1
  m2 = m2
  s1 = s1
  r1 = r1
  r2 = r2
  c1 = c1
  Main = Main
  Nothing = Nothing
  Metrics = {m1}
  Scrapes = {}
  Reloads = {r1}
  Discovers = {}
  PasswordGiven = TRUE
  IsCluster = FALSE
  AppendRole = FALSE
  SkipMaster = FALSE
  HasScript = FALSE
  AuthConfigured = FALSE
  Malformed = {}
  MaxEdits = 0
  MaxFailovers = 0
INVARIANT
  PasswordTakesPrecedence
