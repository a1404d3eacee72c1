SPECIFICATION FairSpec
CONSTANTS
  v = v
  s = s
  Ships = {v}
  Sarts = {s}
  NONE = NONE
  AckTimeout = FALSE
  MaxTails = 1
  Habits = {"iconized"}
INVARIANTS
  TypeOK
  ListedTargetsAlive
PROPERTIES
  DistressStands
  DistressHeard
  AlertsAnswered
  AlertKeepsSounding
CHECK_DEADLOCK FALSE
