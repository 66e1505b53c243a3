SPECIFICATION LiveSpec
CONSTANTS
  c1 = c1
  c2 = c2
  c3 = c3
  d1 = d1
  d2 = d2
  None = None
  MaxEvents = 2
  Callers = {c1, c2}
  Closers = {d1}
INVARIANTS
  NoLeakedProcess
  OneAttempt
  CloseIsShutdown
PROPERTIES
  SharedSessionKept
  CallsEnd
