SPECIFICATION Spec
CONSTANTS
  d1 = d1
  d2 = d2
  m1 = m1
  m2 = m2
  m3 = m3
  m4 = m4
  m5 = m5
  m6 = m6
  p1 = p1
  p2 = p2
  s1 = s1
  o1 = o1
  o2 = o2
  t1 = t1
  None = None
  Devices = {d1}
  MutationIds = {m1, m2, m3, m4, m5}
  Projects = {p1, p2}
  Sessions = {s1}
  Observations = {o1, o2}
  Topics = {t1}
  MaxVersion = 3
  MaxSeq = 5
  MaxReferences = 0
SYMMETRY Symmetry
CHECK_DEADLOCK FALSE
INVARIANTS
  RecoveryVerifies
  TablesAgree
PROPERTIES
  DeletionIsFinal
  SettledOnce
