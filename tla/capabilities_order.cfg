CONSTANTS
  CapabilityKeys = {"memory"}
  Any = any
  Gpus <- MCGpus
  Drivers = {"580"}
  NoDriver = unread
  Directories <- MCDirectories
SPECIFICATION Spec
INVARIANTS
  EqualSpecificityRejected
