SPECIFICATION Spec
CONSTANTS
  a = a
  b = b
  f1 = f1
  f2 = f2
  NoFocus = NoFocus
  Keys = {a, b}
  Focuses = {f1, f2}
  Keymaps <- Maps
  BindingPool <- Pool
  MaxBindings = 4
  MaxKeys = 3
  MaxOps = 2
INVARIANTS KeysActInOrder ObserversUpToDate TimeoutsStand
CHECK_DEADLOCK FALSE
