SPECIFICATION Spec
CONSTANTS
  h1 = h1
  h2 = h2
  Hosts = {h1, h2}
  EnableClustercheck = TRUE
  None = None
  MaxRev = 0
  MaxFaults = 2
PROPERTY NeverBootstrapsBeside
