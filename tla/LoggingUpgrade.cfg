SPECIFICATION FairSpec
CONSTANTS
  h1 = h1
  h2 = h2
  h3 = h3
  Hosts = {h1, h2, h3}
  Mounted = "opensearch"
  MaxFaults = 3
INVARIANTS TypeOK HistoryServed
PROPERTIES MovedBeforeStarted UpgradeMigratesUnless
