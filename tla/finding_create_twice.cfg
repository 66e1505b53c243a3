SPECIFICATION Spec
CONSTANTS
  p1 = p1
  p2 = p2
  c1 = c1
  c2 = c2
  c3 = c3
  v1 = v1
  v2 = v2
  None = None
  MaxFaults = 1
  Procs = {p1, p2}
  Repos = {1, 2}
  Ctxs = {c1}
  Revs = {v1}
  PinSets <- PinsEither
SYMMETRY Sym
PROPERTIES
  PinsImmutable
