SPECIFICATION Spec
CONSTANTS
  r1 = r1
  r2 = r2
  Records = {r1}
  LocalKinds = {"save", "forget"}
  Foreign = {"create", "update", "archive", "tombstone", "resolve", "contest"}
  Answers = {"reject", "collide"}
  BatchSize = 2
  Lease = 1
  MaxWrites = 3
  MaxLog = 4
CHECK_DEADLOCK FALSE
INVARIANTS
  VersionsHold
  PullStopsOnlyThere
  SettledIsEqual
