SPECIFICATION Spec
CONSTANTS
  a = a
  b = b
  Ids = {a, b}
  NoId = NoId
  Absent = {b}
  Setups <- MCSetups
  RetryLimit = 1
  QueueLength = 1
  DogTimeout = 1
  MaxEvents = 2
  MaxPosted = 1
  MaxFaults = 1
  MaxOpens = 2
  Habits = {"early"}
INVARIANTS
  NoOrphanReader

CHECK_DEADLOCK FALSE
