SPECIFICATION Spec
CONSTANTS
  Sessions = {s1, s2}
  Background = bg
  Futures = {f1, f2}
  MaxTasks = 3
  MaxTicks = 1
  MaxClock = 2
  MaxOps = 4
SYMMETRY Symmetry
INVARIANTS SessionOrder BlockedSessionsWait ParkedIsWoken
PROPERTIES TimePassesWhenIdle NoFalseAlarm
CHECK_DEADLOCK FALSE
