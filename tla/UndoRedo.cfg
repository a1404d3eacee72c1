SPECIFICATION Spec
CONSTANTS
  p1 = p1
  p2 = p2
  p3 = p3
  p4 = p4
  Points = {p1, p2, p3, p4}
  NONE = NONE
  Depth = 2
  Longest = 3
  Habits = {}
SYMMETRY Symmetry
INVARIANTS
  TypeOK
  NoShownPointFreed
  PutBackAlive
  UndoRedoInverse
CHECK_DEADLOCK FALSE
