\* One listener under every fault, and producers that take any name at any
\* time; event 1 is written in place, event 3 makes process_file raise.
SPECIFICATION FairSpec
CONSTANTS
  Listener = {l1}
  Name = {1, 2}
  Event = {1, 2, 3, 4}
  Fragment = 4
  Kind <- KindOne
  Stamp <- Stamps
  MaxAge = 0
  MaxAhead = 0
  MaxTime = 1
  InPlace = {1}
  Faults = TRUE
  None = none
INVARIANT OneOutcome
PROPERTIES ImplementsEventIntake InboxDrains
