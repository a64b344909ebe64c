SPECIFICATION FairSpec
CONSTANTS
  Uuids = {u1, u2, u3}
  Hostnames = {"h1", "H2", "h2", "h3"}
  Uris = {"bmc1", "bmc2"}
  Lower <- MCLower
  CSVs <- MCSite
  CpuCounts = {5}
  MaxEdits = 1
  MaxFaults = 2
  None = None
INVARIANTS TypeOK NoDuplicateBmc EnrolledOnSuccess
PROPERTY KnownNodeSurvives
PROPERTY EnrollConverges
