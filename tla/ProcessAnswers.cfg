SPECIFICATION MasterProcess
CONSTANTS
  m1 = m1
  r1 = r1
  Main = Main
  Nothing = Nothing
  Metrics = {m1}
  Scrapes = {}
  Reloads = {r1}
  Discovers = {}
  PasswordGiven = FALSE
  IsCluster = TRUE
  AppendRole = FALSE
  SkipMaster = FALSE
  HasScript = TRUE
  AuthConfigured = TRUE
  Malformed = {}
  MaxEdits = 1
  MaxFailovers = 0
  Tls = TRUE
  MaxRenewals = 2
  Clients <- TwoClients
INVARIANTS
  DrainedBeforeExit
  RenewalInForce
PROPERTY
  AcceptedAnswered
