\* An observer, two workers and one task; crashes and disk errors everywhere.
SPECIFICATION ObserverSpec
CONSTANTS
  Free = free
  NoTask = noTask
  NoWorker = noWorker
  IOFaults = TRUE
  Crashes = TRUE
  Worker = {w1, w2}
  Outsider = {host}
  Task = {1}
  TaskId = {"a"}
  IdOf <- IdOfOne
  Doc <- DocOne
INVARIANTS NothingOverlooked DoneIsInTheLog
