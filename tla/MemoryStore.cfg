SPECIFICATION Spec
CONSTANTS
  x = x
  y = y
  topic = topic
  none = none
  summary = summary
  a = a
  f1 = f1
  f2 = f2
  Ids <- TwoIds
  Topics <- ThreeTopics
  NoTopic = none
  Summary = summary
  Agents <- OneAgent
  Legacy <- OldRows
  Paths <- TwoPaths
  MaxTime = 2
  MaxTexts = 2
CHECK_DEADLOCK FALSE
INVARIANTS
  RecallIsExact
PROPERTIES
  SettledStays
  NoLostUpdate
  ImportMerges
