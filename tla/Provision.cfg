SPECIFICATION FairSpec
CONSTANTS
  u1 = u1
  u2 = u2
  Uuids = {u1, u2}
  Hostnamings <- MCHostnamings
  MaxTroubles = 2
  MaxCrashes = 1
  None = None
INVARIANTS TypeOK NeverCleanedWhileInspected
PROPERTIES DeployedOnSuccess CallsAccepted InspectedGetDeployed
