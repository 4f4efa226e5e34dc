SPECIFICATION FairSpec
CONSTANTS
  c1 = c1
  c2 = c2
  c3 = c3
  k1 = k1
  k2 = k2
  None = None
  Calls = {c1, c2, c3}
  Locked = {c1, c2}
  Closers = {k1, k2}
  MaxConns = 3
  Faults = {"open", "statement", "commit", "cancel"}
  Overlap = FALSE
INVARIANTS
  NoLeak
  Answers
  NoStrayErrors
  ConnectionClean
PROPERTIES
  CallsReturn
