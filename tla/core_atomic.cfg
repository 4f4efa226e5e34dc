SPECIFICATION Spec
CONSTANTS
  c1 = c1
  c2 = c2
  c3 = c3
  s1 = s1
  s2 = s2
  u1 = u1
  u2 = u2
  None = None
  Absent = Absent
  Calls = {c1, c2, c3}
  InitialSessions = {s1, s2}
  Units = {u1, u2}
  UnitSession <- UnitsOfTwoSessions
  UnitLists <- EmptyOrTwo
  Traces <- OneTrace
  Ops = {"snapshot", "rollback", "provenance"}
  Faults = {"statement", "commit", "discard", "cancel", "crash"}
  Encrypted = TRUE
SYMMETRY Symmetry
INVARIANTS
  AllOrNothing
  SingleChain
  Answers
PROPERTIES
  WriteOnce
  Implements
