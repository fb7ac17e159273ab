SPECIFICATION FairSpec
CONSTANTS
  Main = main
  Threads = {main, t1}
  Ids = {e1}
  Handles = {h1, h2, h3}
  NoHandle = NoHandle
  NoId = NoId
INVARIANTS
  CountIsHandles
  DeadIsRecordedOnce
PROPERTIES
  NoResurrection
  DeadIsReleased
CHECK_DEADLOCK FALSE
