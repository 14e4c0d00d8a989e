\* Two listeners on one inbox under every fault; event 1 is written in place.
SPECIFICATION Spec
CONSTANTS
  Listener = {l1, l2}
  Name = {1, 2}
  Event = {1, 2, 3}
  Fragment = 3
  Kind <- KindTwo
  Stamp <- Stamps
  MaxAge = 0
  MaxAhead = 0
  MaxTime = 1
  InPlace = {1}
  Faults = TRUE
  None = none
INVARIANT OneAcceptance
PROPERTY EventIsKept
