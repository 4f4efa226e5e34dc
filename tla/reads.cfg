SPECIFICATION ReadSpec
CONSTANTS
  c1 = c1
  c2 = c2
  c3 = c3
  s1 = s1
  s2 = s2
  u1 = u1
  u2 = u2
  r1 = r1
  None = None
  Absent = Absent
  Calls = {c1, c2, c3}
  InitialSessions = {s1}
  Units = {u1, u2}
  UnitSession <- UnitsOfOneSession
  UnitLists <- GoodAndFailingList
  Traces <- TwoTraces
  Ops = {"snapshot", "rollback", "provenance"}
  Faults = {"statement", "commit", "crash"}
  Encrypted = FALSE
  Readers = {r1}
  Sources = {"head", "returned", "list"}
SYMMETRY CallSymmetry
INVARIANTS
  HeadUnitsWhole
  HistoryWhole
  TraceWhole
