SPECIFICATION LiveSpec
CONSTANTS
  s1 = s1
  d1 = d1
  m1 = m1
  q1 = q1
  q2 = q2
  a = a
  b = b
  DefaultFlags = DefaultFlags
  OtherFlags = OtherFlags
  None = None
  Servers = {s1}
  Doctors = {d1}
  Commands = {m1}
  Requests = {q1, q2}
  Contexts = {a}
  Flags <- OwnFlags
INVARIANTS
  ServesReady
  HonestExit
  SessionCovered
PROPERTIES
  ShutdownEnds
