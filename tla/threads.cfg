SPECIFICATION ThreadSpec
CONSTANTS
  c1 = c1
  c2 = c2
  c3 = c3
  s1 = s1
  s2 = s2
  v1 = v1
  t1 = t1
  t2 = t2
  t3 = t3
  k1 = k1
  k2 = k2
  None = None
  Absent = Absent
  Calls = {c1, c2, c3}
  InitialSessions = {s1, s2}
  Units = {}
  UnitSession <- NoUnits
  Traces = {}
  Savers = {v1}
  Threads = {t1, t2, t3}
  Checkpoints = {k1, k2}
  ThreadPrefix <- Prefixes
  Times = {1, 2}
  Limit <- OneRow
  Faulty = TRUE
SYMMETRY Symmetry
INVARIANTS
  OneSession
  ReadsLatest
  FindsOwn
  ListsBefore
