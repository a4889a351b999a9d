SPECIFICATION ReaderSpec
CONSTANTS
  d1 = d1
  d2 = d2
  m1 = m1
  m2 = m2
  m3 = m3
  m4 = m4
  m5 = m5
  p1 = p1
  p2 = p2
  o1 = o1
  o2 = o2
  t1 = t1
  None = None
  Devices = {d1}
  MutationIds = {m1, m2, m3, m4, m5}
  Projects = {p1, p2}
  Sessions = {}
  Observations = {o1}
  Topics = {}
  MaxVersion = 3
  MaxReferences = 0
  MaxSeq = 5
  MaxLimit = 2
SYMMETRY Symmetry
CHECK_DEADLOCK FALSE
INVARIANTS
  PagesAreExact
  ReadersAreNotStuck
PROPERTIES
  ServedIsSettled
