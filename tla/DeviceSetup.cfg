SPECIFICATION Spec
CONSTANTS
  p1 = p1
  p2 = p2
  w1 = w1
  w2 = w2
  s1 = s1
  s2 = s2
  Procs = {p1, p2}
  Callers = {p1, p2}
  Workspaces = {w1, w2}
  Storages = {s1, s2}
  Home = s1
  MaxBearers = 4
  MaxCommands = 4
  MaxIds = 2
SYMMETRY Symmetry
CHECK_DEADLOCK FALSE
INVARIANTS
  ActiveIsUsable
  BearersAreAccounted
  IdentityIsOne
  SyncKeepsItsOwn
