CONSTANTS
  StatusSubject = status
  InventorySubject = inventory
  SampleSubjects = {}
  EventSubject = event
  EventCapacity = 1
  CallbackCapacity = 1
  ClientCapacity = 1
  MaxSequence = 4
  MaxDisconnects = 1
  MaxFailures = 1
  MaxDeaths = 1
SPECIFICATION FairSpec
INVARIANTS
  TypeOK
  CompleteUnlessMissed
  EventsAccounted
  EventsInOrderOnce
  DropsStayOwed
PROPERTIES
  ViewIsLatestValue
  StateInSequenceOrder
  EventuallyCurrent
