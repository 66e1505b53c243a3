SPECIFICATION Spec
CONSTANTS
  w1 = w1
  w2 = w2
  q1 = q1
  a = a
  b = b
  f1 = f1
  f2 = f2
  f3 = f3
  None = None
  MaxDeletes = 1
  Writers = {w1, w2}
  Readers = {q1}
  Names = {a, b}
  Files = {f1, f2, f3}
SYMMETRY Sym
INVARIANTS
  ReadsWhole
  NoLitter
PROPERTIES
  Atomic
