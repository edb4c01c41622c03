CONSTANTS
  Interval = 2
  Medium = 4
  Slow = 4
  Endpoints = 1
  Timeout = 3
  MaxWork = 0
  MaxService = 1
  MaxInventory = 1
  MaxReload = 1
  MaxReloads = 1
  DiscoveryDuration = 3
  Configs = {c1, c2}
  Inventories = {i1, i2}
  Gpus = {g1}
  MaxXids = 2
SPECIFICATION FairSpec
INVARIANTS
  TypeOK
  JointReload
  ValidUntilReplaced
  XidsInOrderOnce
PROPERTIES
  ZeroOnlyWhenQuiet
  RunsComplete
  InventorySettles
  XidsReported
