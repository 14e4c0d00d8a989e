\* Two locks, two holders that may be paused at any point.
SPECIFICATION Spec
CONSTANTS
  Lock = {a, b}
  Holder = {n1, n2}
  Duration = {1, 3}
  NoLease = noLease
  Nobody = nobody
  MaxTime = 4
  MaxToken = 3
PROPERTIES LateWritesLose ImplementsFencedLock
CHECK_DEADLOCK FALSE
