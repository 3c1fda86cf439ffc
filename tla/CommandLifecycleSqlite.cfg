\* SQLite: a handler runs to its end unless the process dies.
SPECIFICATION FairSpec
CONSTANTS
  a1 = a1
  Commands = {1, 2}
  Accounts = {a1}
  AccountOf <- OneAccount
  RiskCommands = {}
  Expirable = {1}
  Polls = {p1, p2}
  Store = "sqlite"
  DefaultMode = "cutover"
  OperatorModes = {"shadow", "cutover"}
  MaxFaults = 2
INVARIANTS
  HandedAtMostOnce
  TimelineIsTrue
PROPERTIES
  ImplementsPipeline
  QueuedIsSettled
CHECK_DEADLOCK FALSE
