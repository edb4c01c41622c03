CONSTANTS
  Interval = 2
  Medium = 10
  Slow = 60
  Endpoints = 1
  Timeout = 3
  MaxWork = 0
  MaxService = 0
  MaxInventory = 0
  MaxReload = 0
  MaxReloads = 1
  DiscoveryDuration = 0
  Configs = {c1}
  Inventories = {i1}
  Gpus = {g1}
  MaxXids = 0
SPECIFICATION Spec
INVARIANT EndpointsNeverBlock
