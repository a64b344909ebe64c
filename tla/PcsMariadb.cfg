SPECIFICATION FairSpec
CONSTANTS
  h1 = h1
  h2 = h2
  Hosts = {h1, h2}
  EnableClustercheck = TRUE
  None = None
  MaxRev = 1
  MaxFaults = 2
INVARIANTS TypeOK SuccessMeansServing RebuiltMeansCurrent
PROPERTIES WholePlayBootstrapsAlone ReconfigureHeals RefinesRebuildable
