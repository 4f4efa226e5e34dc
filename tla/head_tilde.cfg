SPECIFICATION QuerySpec
CONSTANTS
  c1 = c1
  c2 = c2
  c3 = c3
  c4 = c4
  s1 = s1
  s2 = s2
  n1 = n1
  n2 = n2
  None = None
  Absent = Absent
  Calls = {c1, c2, c3, c4}
  InitialSessions = {s1}
  Units = {}
  UnitSession <- NoUnits
  Traces = {}
  Times = {1, 2, 3, 4}
  Distances = {1}
  Depths = {1}
  PageSizes = {1}
  Names = {}
  UuidLike = {}
  FindLimit = 2
SYMMETRY Symmetry
INVARIANTS
  TildeReaches
