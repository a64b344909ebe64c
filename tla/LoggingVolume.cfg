SPECIFICATION Spec
CONSTANTS
  h1 = h1
  h2 = h2
  h3 = h3
  Hosts = {h1, h2, h3}
  Mounted = "logging_opensearch"
  MaxFaults = 0
INVARIANT HistoryServed
