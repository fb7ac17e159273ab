SPECIFICATION QueueSpec
CONSTANTS
  Senders = {s1, s2}
  Receivers = {r1, r2, r3}
  MaxItems = 4
SYMMETRY Symmetry
INVARIANTS
  BlockedOnlyWhenServed
  ReceivedOnceInOrder
  DieAlwaysLands
CHECK_DEADLOCK FALSE
