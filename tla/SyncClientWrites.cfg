SPECIFICATION Spec
CONSTANTS
  r1 = r1
  r2 = r2
  Records = {r1, r2}
  LocalKinds = {"save", "forget"}
  Foreign = {}
  Answers = {"reject", "collide", "revoke"}
  BatchSize = 2
  Lease = 1
  MaxWrites = 3
  MaxLog = 3
SYMMETRY Symmetry
CHECK_DEADLOCK FALSE
INVARIANTS
  NoWriteIsLost
  AnswersApply
PROPERTIES
  ServiceIsHistory
