SPECIFICATION Spec
CONSTANTS
  Servers <- AllServers
  Denied = Denied
  Now = 9
  DefaultDatabases = 2
  InclConfigMetrics = TRUE
  RedactConfigMetrics = TRUE
  ExportClientsInclPort = TRUE
  InclSentinelPeerInfo = TRUE
  InclRdbFileSizeMetric = TRUE
  MaxScrapes = 2
INVARIANTS TypeOK ExportsTheServer ExportedOnce NothingLost
