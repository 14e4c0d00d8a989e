SPECIFICATION Spec
CONSTANTS
  objA = objA
  objB = objB
  thr1 = thr1
  thr2 = thr2
  pay1 = pay1
  pay2 = pay2
  Garbage = Garbage
  NoThread = NoThread
  Payloads = {pay1, pay2}
  Objects = {objA, objB}
  Threads = {thr1, thr2}
  Home <- TwoHomes
  Faults = {"crash", "power", "error", "bare", "edit"}
  MaxLines = 2
  MaxEdits = 1
INVARIANTS TamperIsEvident HeadCommitsToHistory
CHECK_DEADLOCK FALSE
SYMMETRY Payload2
