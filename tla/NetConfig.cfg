SPECIFICATION FairSpec
CONSTANTS
  Objects <- MCObjects
  Configs <- MCConfigs
  Invalid <- MCInvalid
  PfOf <- MCPfOf
  HandMade = {"pxe"}
  MaxEdits = 2
  MaxFaults = 2
  None = None
INVARIANTS TypeOK SuccessMeansRunning
PROPERTIES UntouchedKeptUp NetworkConverges
