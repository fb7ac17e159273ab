SPECIFICATION Spec
CONSTANTS
  Entities = {e1, e2}
  App = App
  None = None
  MaxSubs = 2
  MaxOps = 4
SYMMETRY Symmetry
INVARIANTS
  Coalesced
  Quiescent
  LeasesReturned
  ObserversNotified
  EventsDelivered
  ReleaseIsComplete
PROPERTIES
  EventsInOrder
