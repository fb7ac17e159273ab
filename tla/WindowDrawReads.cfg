SPECIFICATION Spec
CONSTANTS
  w1 = w1
  w2 = w2
  r1 = r1
  r2 = r2
  Windows = {w1}
  Entities = {r1, a}
  Root <- OneRoot
  None = None
  ReadOthers = TRUE
  OpenWhileDrawing = FALSE
INVARIANTS
  NotifiedViewsRedraw
