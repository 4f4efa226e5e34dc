SPECIFICATION Spec
CONSTANTS
  c1 = c1
  c2 = c2
  c3 = c3
  s1 = s1
  s2 = s2
  u1 = u1
  u2 = u2
  None = None
  Absent = Absent
  Calls = {c1, c2, c3}
  InitialSessions = {s1}
  Units = {u1, u2}
  UnitSession <- UnitOfNewSession
  UnitLists <- ListsWithDuplicate
  Traces <- ShortTraces
  Ops = {"snapshot", "rollback", "provenance", "create"}
  Faults = {"statement", "commit", "cancel", "crash"}
  Encrypted = FALSE
INVARIANTS
  TypeOK
  HeadIntegrity
  ParentIntegrity
