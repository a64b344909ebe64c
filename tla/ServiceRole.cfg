SPECIFICATION FairSpec
CONSTANTS
  h1 = h1
  h2 = h2
  h3 = h3
  None = None
  Hosts = {h1, h2, h3}
  Serials = {0, 2}
  MaxRev = 1
  MaxFaults = 2
INVARIANTS TypeOK SuccessMeansCurrent
PROPERTIES UpgradesTablesFirst RefinesRollout RepeatingConverges
