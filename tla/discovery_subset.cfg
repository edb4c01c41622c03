CONSTANTS
  Keys <- MCKeys
  FailureKeys <- MCFailureKeys
  Values = {v1, v2}
  Failure = failure
  RefusedValues = {"long"}
  Pids = {p1}
  MaxRuns = 1
SPECIFICATION Spec
INVARIANTS
  ChangingStaysEnabled
