\* Two workers, two tasks with one id, crashes and disk errors everywhere.
SPECIFICATION FairSpec
CONSTANTS
  Free = free
  NoTask = noTask
  NoWorker = noWorker
  IOFaults = TRUE
  Crashes = TRUE
  Worker = {w1, w2}
  Outsider = {host}
  Task = {1, 2}
  TaskId = {"a"}
  IdOf <- IdOfTwo
  Doc <- DocMixed
INVARIANTS DoneIsWitnessed CompletionIsTrue StartedWasValid
PROPERTIES ResultsAreFinal ImplementsTaskQueue EveryTaskSettles
CHECK_DEADLOCK FALSE
