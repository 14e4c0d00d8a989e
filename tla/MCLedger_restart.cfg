SPECIFICATION Spec
CONSTANTS
  objA = objA
  objB = objB
  thr1 = thr1
  thr2 = thr2
  pay1 = pay1
  pay2 = pay2
  Garbage = Garbage
  NoThread = NoThread
  Payloads = {pay1, pay2}
  Objects = {objA}
  Threads = {thr1, thr2}
  Home <- OneHome
  Faults = {"error"}
  MaxLines = 3
  MaxEdits = 0
INVARIANT ResumesAfterRestart
CHECK_DEADLOCK FALSE
