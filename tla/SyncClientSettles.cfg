SPECIFICATION FairSpec
CONSTANTS
  r1 = r1
  r2 = r2
  Records = {r1}
  LocalKinds = {"save"}
  Foreign = {}
  Answers = {}
  BatchSize = 2
  Lease = 1
  MaxWrites = 3
  MaxLog = 3
CHECK_DEADLOCK FALSE
PROPERTY
  Quiesces
