\* Postgres: handlers interleave between any two queries, and an operator changes the mode.
SPECIFICATION Spec
CONSTANTS
  a1 = a1
  Commands = {1, 2}
  Accounts = {a1}
  AccountOf <- OneAccount
  RiskCommands = {2}
  Expirable = {1}
  Polls = {p1, p2}
  Store = "postgres"
  DefaultMode = "cutover"
  OperatorModes = {"shadow", "cutover"}
  MaxFaults = 1
SYMMETRY PollSymmetry
INVARIANTS
  ExecutedAtMostOnce
  SettledRowIsTrue
  NothingLostWithoutFault
  NothingIssuedUncleared
CHECK_DEADLOCK FALSE
