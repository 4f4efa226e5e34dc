SPECIFICATION DiffSpec
CONSTANTS
  x = x
  y = y
  UnitIds = {1, 2, 3}
  Identities = {1, 2}
  Times = {1, 2}
  Contents = {x, y}
INVARIANTS
  PatchGivesTo
  Minimal
