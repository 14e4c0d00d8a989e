\* Decisions, impacts and reports; crashes and power failures everywhere.
SPECIFICATION GateSpec
CONSTANTS
  objA = objA
  thr1 = thr1
  thr2 = thr2
  Garbage = Garbage
  NoThread = NoThread
  Nothing = nothing
  Payloads <- GatePayloads
  Inputs <- AtTheThresholds
  Objects = {objA}
  Threads = {thr1, thr2}
  Deciders = {thr1}
  Home <- OneHome
  Faults = {"crash", "power"}
  MaxLines = 3
  MaxEdits = 0
INVARIANTS OnlyTheTailIsTorn ApprovalsAreGrounded ReportsAreVerified
PROPERTIES ImplementsAppendOnlyLog 
CHECK_DEADLOCK FALSE
