SPECIFICATION FairSpec
CONSTANTS
  Main = main
  NoTask = NoTask
  Workers = {w1}
  Others = {x1}
  Tasks = {t1, t2, t3}
INVARIANTS
  Heard
PROPERTIES
  Implements
CHECK_DEADLOCK FALSE
