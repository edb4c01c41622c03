CONSTANTS
  Keys <- MCKeys
  Values = {1, 2, nan}
  NaN = nan
  NoValue = null
  Tags = {"measured", "error", "unsupported"}
  CodedTags = {"error", "unsupported"}
  UnsupportedTags = {"unsupported"}
  Observations <- MCObservations
  Readings <- MCReadings
  RuleFiles <- MCRuleFiles
  MaxPoints = 1
  MaxAttributes = 2
  AttributeNames = {"gpu.id", "clock.domain", "llm.endpoint.id"}
  LongValues = {"long"}
  MaxAhead = 1
SPECIFICATION Spec
INVARIANTS
  TypeOK
  ConsumerInSync
  OneRuleDecides
  ConsumerCurrent
