CONSTANTS
  Keys <- MCKeys
  FailureKeys <- MCFailureKeys
  Values = {v1, v2}
  Failure = failure
  RefusedValues = {"long"}
  Pids = {p1, p2}
  MaxRuns = 3
SPECIFICATION Spec
INVARIANTS
  TypeOK
  TargetComplete
  TargetLoads
  FileDecides
