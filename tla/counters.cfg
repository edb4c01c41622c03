CONSTANTS
  Cpu = {ctxt}
  Vmstat = {pgmajfault}
  Network = {}
  Carrier = {changes}
  Disk = {reads}
  Cgroup = {oom}
  Llm = {tokens}
  Starts = {1}
  MaxSteps = 3
SPECIFICATION Spec
INVARIANTS
  TypeOK
  NoInventedEvents
PROPERTIES
  DeltasComplete
