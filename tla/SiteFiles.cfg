SPECIFICATION Spec
CONSTANTS
  Keys <- MCKeys
  Pairs = {"lulu_selfcert"}
  Blank = {"docker_registry_password"}
  Typings <- MCTypings
  Shipped <- MCShipped
  MaxKills = 2
  Blocks = {"b1", "b2"}
  ReleaseNos = {1, 2}
  NoBlock = NoBlock
INVARIANTS TypeOK PasswordsHeld InventoryMerged
PROPERTY UsedKept
