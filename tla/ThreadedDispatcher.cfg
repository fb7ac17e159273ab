SPECIFICATION FairSpec
CONSTANTS
  Main = main
  Timer = timer
  NoTask = NoTask
  Workers = {w1, w2}
  External = {x1}
  Tasks = {t1, t2}
  ReadyFrom = {"main", "external"}
  MaxTime = 1
INVARIANTS InflightCount
PROPERTIES IdleMeansIdle IdleReturns DueTimersFire MainTasksRun RunUntilReturns
CHECK_DEADLOCK FALSE
