CONSTANTS
  Links = {}
  Mounts = {}
  Sensors = {sensor}
  Services = {unit}
  Collectors = {}
  QueueCapacity = 2
  Nodes = {n1}
  Capabilities = {fan}
  InboxCapacity = 1
  Environments <- MCEnvironments
  Files <- MCFiles
  NoFile = none
  Schema = "spark"
  Producer = "spark"
  MaxSize = 1
SPECIFICATION Spec
INVARIANTS
  TypeOK
  LogTellsLevel
  UnsupportedAnnounced
  TargetFit
