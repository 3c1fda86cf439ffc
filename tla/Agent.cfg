\* Two jobs at a time over two accounts, with shared bars and one restart.
SPECIFICATION FairSpec
CONSTANTS
  src = src
  acc = acc
  Jobs = {"analysis", "poll", "now", "again"}
  KindOf <- MCKindOf
  TargetOf <- MCTargetOf
  Source = src
  Scenes <- MCScenes
  Concurrency = 3
  Window = 2
  MaxRecent = 0
  Ttl = 1
INVARIANTS
  TriggersAreSpaced
  OneInsightAtATime
  PostedOnceUnlessLost
PROPERTIES
  JobsEnd
CHECK_DEADLOCK FALSE
