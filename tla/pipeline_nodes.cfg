CONSTANTS
  Links = {}
  Mounts = {}
  Sensors = {sensor}
  Services = {}
  Collectors = {}
  QueueCapacity = 1
  Nodes = {n1, n2}
  Capabilities = {fan}
  InboxCapacity = 1
  Environments <- MCEnvironments
  Files <- MCFiles
  NoFile = none
  Schema = "spark"
  Producer = "spark"
  MaxSize = 1
SPECIFICATION Spec
INVARIANTS
  UnsupportedAnnounced
