SPECIFICATION Spec
CONSTANTS
  Objects <- MCObjects
  Configs <- MCConfigs
  Invalid <- MCInvalid
  PfOf <- MCPfOf
  HandMade = {"pxe"}
  MaxEdits = 0
  MaxFaults = 1
  None = None
INVARIANT SuccessMeansVfs
