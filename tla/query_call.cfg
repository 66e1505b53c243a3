SPECIFICATION LiveSpec
CHECK_DEADLOCK FALSE
CONSTANTS
  k1 = k1
  k2 = k2
  k3 = k3
  k4 = k4
  k5 = k5
  t1 = t1
  t2 = t2
  t3 = t3
  r1 = r1
  r2 = r2
  m1 = m1
  m2 = m2
  m3 = m3
  both = both
  one = one
  None = None
  Failed = Failed
  Nothing = Nothing
  NoFile = NoFile
  MaxMoves = 1
  Contexts = {both, one}
  Members = {m1, m2, m3}
  Repos = {r1, r2}
  Graphed = {m1, m3}
  Commits = {k1, k2, k3, k4, k5}
  Lost = {t2}
  Short = {t3}
  Scope <- Scopes
  RepoOf <- Places
  Loose <- Names
  Text <- Contents
  Cases <- AllCases
INVARIANTS
  HonestVerdict
  AnswerTrue
  NothingLeftOut
PROPERTIES
  CallReturns
