SPECIFICATION FairSpec
CONSTANTS
  project = project
  note = note
  reply = reply
  Records <- Three
  Project = project
  Sessions <- NoSession
  Needs <- ThreeNeeds
  Rank <- ThreeRank
  Local <- Three
  Unsynced <- OnlyReply
  Queued <- None
  Revised <- OnlyNote
  Contested <- None
  Foreign <- Others
  BatchSize = 2
  PageSize = 2
  MaxEdits = 1
  MaxKills = 1
  MaxHistory = 2
  MaxForeign = 1
  MaxEvents = 2
INVARIANTS
  SnapshotStaysTrue
  CompletedIsShared
  RepairGoesFirst
PROPERTIES
  Resumes
  BackupHoldsQueue
