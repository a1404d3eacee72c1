SPECIFICATION Spec
CONSTANTS
  v = v
  s = s
  Ships = {v}
  Sarts = {}
  NONE = NONE
  AckTimeout = FALSE
  MaxTails = 1
  Habits = {"skip"}
PROPERTIES
  AckEndsWithAlert
CHECK_DEADLOCK FALSE
