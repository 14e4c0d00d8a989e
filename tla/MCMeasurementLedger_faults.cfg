SPECIFICATION MeasurementSpec
CONSTANTS
  Payloads = {a, b}
  Garbage = Garbage
  Procs = {p, q, r}
  NoProc = NoProc
  Faults = {"crash", "power", "error"}
  MaxLines = 5
INVARIANTS MeasurementsAreChained FailClosed
PROPERTY ImplementsAppendOnlyLog
CHECK_DEADLOCK FALSE
