\* Three cycles over two modules whose adapters answer what they like; key rotations
\* and backups again and again.
SPECIFICATION V99Spec
CONSTANTS
  NModules = 2
  Statuses = {"HEALTHY", "FAILED"}
  Interval = 1
  MaxHistory = 2
  MaxTime = 1
  MaxCycles = 3
  MaxKeys = 4
  Versions = {v1, v2}
  Cut = cut
  Mixed = mixed
  Rotten = rotten
  Nowhere = nowhere
  MaxBackups = 3
INVARIANTS OnlyOwnSafeRepairs HistoryIsTrue StoredKeyWorks BackupsAreProof
PROPERTIES HealthIsVouchedFor RevokedAfterReplaced
CHECK_DEADLOCK FALSE
