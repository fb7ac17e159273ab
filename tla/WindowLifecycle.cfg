SPECIFICATION Spec
CONSTANTS
  Windows = {w1, w2}
  NoWindow = NoWindow
  ClosedObservers = 1
  NewObservers = 1
  QuitObservers = 1
  MaxOps = 6
INVARIANTS InOnePlace RemovedIsClosed ClosedIsHeard QuitsWhenLastCloses
CHECK_DEADLOCK FALSE
