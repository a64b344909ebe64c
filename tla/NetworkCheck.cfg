SPECIFICATION CheckFairSpec
CONSTANTS
  Hosts <- MCHosts
  Short <- MCShort
  FoundIn <- MCFoundIn
  Mtu <- MCMtu
  Sites <- MCSites
  OtherFiles <- MCOthers
  Nets <- MCNets
  Columns <- MCColumns
  Dns = {"c.dc"}
  Blank = ""
  MaxChanges = 1
INVARIANTS CheckTypeOK SuccessMeansChecked
PROPERTY CheckConverges
