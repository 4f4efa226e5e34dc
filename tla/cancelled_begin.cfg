SPECIFICATION Spec
CONSTANTS
  c1 = c1
  c2 = c2
  c3 = c3
  s1 = s1
  s2 = s2
  u1 = u1
  u2 = u2
  None = None
  Absent = Absent
  Calls = {c1, c2}
  InitialSessions = {s1, s2}
  Units = {u1, u2}
  UnitSession <- UnitsOfTwoSessions
  UnitLists <- OneList
  Traces <- NoTraces
  Ops = {"snapshot"}
  Faults = {"cancel"}
  Encrypted = FALSE
INVARIANTS
  ConnectionClean
