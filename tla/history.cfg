SPECIFICATION HistorySpec
CONSTANTS
  c1 = c1
  c2 = c2
  c3 = c3
  c4 = c4
  s1 = s1
  None = None
  Absent = Absent
  Calls = {c1, c2, c3, c4}
  InitialSessions = {s1}
  Units <- MessagesOfCalls
  UnitSession <- AllOfOneSession
  Traces = {}
  Session = s1
  Batches = {2}
  Every = 2
  Ticks = {0}
  MaxRestarts = 1
  Failures = {"fail", "cancel", "crash"}
SYMMETRY CallSymmetry
INVARIANTS
  ReturnedIsSaved
  ClearSticks
  AutoSaved
  KeysDistinct
PROPERTIES
  Resumes
