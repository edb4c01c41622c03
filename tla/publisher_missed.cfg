CONSTANTS
  StatusSubject = status
  InventorySubject = inventory
  SampleSubjects = {}
  EventSubject = event
  EventCapacity = 1
  CallbackCapacity = 2
  ClientCapacity = 1
  MaxSequence = 3
  MaxDisconnects = 1
  MaxFailures = 2
  MaxDeaths = 0
SPECIFICATION Spec
INVARIANTS
  CompleteOnConnection
